--------------------------- MODULE PythonMockup ---------------------------
(***************************************************************************)
(* The Python mockup of the proxy, python_mockup/.  One plug-in instance   *)
(* whose action_describe is called from several threads, its broker        *)
(* thread, and the remote host.  Two programs are built from these parts:  *)
(*                                                                         *)
(*   "proxy_plugin.py", with proxy_host.py: the broker thread waits for    *)
(*       RemoteHostStarted and tells the main thread, which then makes one *)
(*       call;                                                             *)
(*   "main.py": everything in one process, a second of sleep, one call,    *)
(*       and then MaxCalls - 1 calls on a pool of workers.                 *)
(*                                                                         *)
(* The broker of the host and the thread of the host instance only hand    *)
(* messages on, in order; toHost and toPlugin stand for all the queues on  *)
(* their way.  Their subscriptions are in place before the first message,  *)
(* and so is that of the plug-in instance: the one that may be late is the *)
(* plug-in broker's, which its SUB socket hands to the PUB socket of the   *)
(* instance when the broker thread first calls zmq.select.                 *)
(***************************************************************************)
EXTENDS Naturals, Sequences

CONSTANTS
  Main, Workers,  \* the main thread, and those of the ThreadPoolExecutor
  MaxCalls,       \* describe calls the program makes
  Programs,       \* the programs that may be run
  Pythons,        \* versions of Python they may be run with, also the remote host
  SleepSuffices,  \* the sleep of main.py outlasts the start of the broker
  HostMayFail,    \* the remote host may end before it announces itself
  None

Threads == {Main} \cup Workers
Calls   == 1 .. MaxCalls

\* A call as RemoteActions sees it.
RemoteCall == [eff : {0}, act : {"Describe"}, n : Calls, outcome : {"none", "OK", "Failed"}]

ASSUME MockupAssumption ==
  /\ Main \notin Workers /\ None \notin Threads \cup Calls \cup RemoteCall
  /\ MaxCalls \in Nat \ {0}
  /\ Programs \subseteq {"proxy_plugin.py", "main.py"} /\ Pythons \subseteq {"3.10", "3.11"}
  /\ {SleepSuffices, HostMayFail} \subseteq BOOLEAN

\* Message.type_, and the parameters in Message.data: those of call n are n.
Message == [type : {"ActionDescribeStart", "ActionDescribeEnd"}, parameters : Calls]
RemoteHostStarted == [type |-> "RemoteHostStarted", parameters |-> None]

VARIABLES
  program,       \* the one that is run
  python,        \* the Python that runs it: "3.11" or later, or an earlier one
  broker,        \* where the plug-in's broker thread is
  status_ready,  \* "none", "yes" or "no"
  notified,      \* the main thread has been notified
  main,          \* where the main thread is
  host,          \* where the broker thread of the remote host is
  peer,          \* parameters the host instance is describing, None between
  joined,        \* the subscription of the broker's SUB socket has arrived
  up, down,      \* from and to the plug-in instance
  toHost, toPlugin,
  mutex,         \* thread that holds the mutex of the instance
  at,            \* at[t]: where thread t is in action_describe
  doing,         \* doing[t]: the call it is making
  submitted,     \* calls made so far
  result,        \* result[n]: the message call n took for its answer
  answered       \* the call the host instance answered last: history

brokerVars == <<program, python, broker, status_ready, notified, joined>>
links      == <<up, down, toHost, toPlugin>>
callVars   == <<mutex, at, doing, submitted, result>>
vars       == <<brokerVars, main, host, peer, links, callVars, answered>>

Handshake == program = "proxy_plugin.py"

\* ProxyPlugin(context), and a subprocess for the remote host.
PluginProgram == program = "proxy_plugin.py" /\ main = "start"

\* Both sides of the proxy, and a thread for each part of them.  StrEnum is
\* not in an earlier Python.
MainProgram == program = "main.py" /\ main = "asleep" /\ python = "3.11"

\* A message is what it was before to_bytes and from_bytes: a StrEnum formats
\* itself as its value, a (str, Enum) did so before Python 3.11.
ReadsBack == program = "main.py" \/ python = "3.10"

Init ==
  /\ program \in Programs /\ python \in Pythons /\ (PluginProgram \/ MainProgram)
  /\ broker = "started" /\ status_ready = "none" /\ notified = FALSE
  /\ host = "starting" /\ peer = None /\ joined = FALSE
  /\ up = <<>> /\ down = <<>> /\ toHost = <<>> /\ toPlugin = <<>>
  /\ mutex = None /\ submitted = 0
  /\ at = [t \in Threads |-> "idle"]
  /\ doing = [t \in Threads |-> None]
  /\ result = [n \in Calls |-> None] /\ answered = 0

----------------------------------------------------------------------------
(* The broker thread of the plug-in.                                       *)

\* notify_all, under the lock of the condition.
Tell(ready) ==
  /\ status_ready' = ready /\ notified' = (main = "waiting") /\ broker' = "ready"

\* The thread holds the lock of the condition while it polls.
BrokerPolls ==
  /\ broker = "started" /\ Handshake
  /\ broker' = "poll"
  /\ UNCHANGED <<program, python, status_ready, notified, joined, main, host, peer, links,
                callVars, answered>>

\* from_bytes raises on a type it does not know: the thread ends, and the lock
\* is released, without a status.
BrokerReceives ==
  /\ broker = "poll" /\ toPlugin # <<>>
  /\ toPlugin' = Tail(toPlugin)
  /\ \/ ReadsBack /\ Tell(IF Head(toPlugin) = RemoteHostStarted THEN "yes" ELSE "no")
     \/ ~ReadsBack /\ broker' = "ended" /\ UNCHANGED <<status_ready, notified>>
  /\ UNCHANGED <<program, python, joined, main, host, peer, up, down, toHost, callVars, answered>>

\* Wrong variant: nobody is notified of the timeout.
BrokerTimesOutQuietly ==
  /\ broker = "poll" /\ toPlugin = <<>>
  /\ status_ready' = "no" /\ broker' = "ready" /\ UNCHANGED notified
  /\ UNCHANGED <<program, python, joined, main, host, peer, links, callVars, answered>>

\* poll(5000) returns 0.
BrokerTimesOut ==
  /\ broker = "poll" /\ toPlugin = <<>>
  /\ Tell("no")
  /\ UNCHANGED <<program, python, joined, main, host, peer, links, callVars, answered>>

\* The first zmq.select lets the SUB socket send its subscription.
BrokerEntersLoop ==
  /\ broker = IF Handshake THEN "ready" ELSE "started"
  /\ broker' = "loop" /\ joined' = TRUE
  /\ UNCHANGED <<program, python, status_ready, notified, main, host, peer, links,
                callVars, answered>>

BrokerFromSub ==
  /\ broker = "loop" /\ up # <<>>
  /\ up' = Tail(up) /\ toHost' = Append(toHost, Head(up))
  /\ UNCHANGED <<brokerVars, main, host, peer, down, toPlugin, callVars, answered>>

\* RemoteHostStarted comes from instance -1, to which nobody has subscribed.
BrokerFromPair ==
  /\ broker = "loop" /\ toPlugin # <<>>
  /\ toPlugin' = Tail(toPlugin)
  /\ down' = IF Head(toPlugin) = RemoteHostStarted THEN down
                                                   ELSE Append(down, Head(toPlugin))
  /\ UNCHANGED <<brokerVars, main, host, peer, up, toHost, callVars, answered>>

----------------------------------------------------------------------------
(* The remote host.                                                        *)

HostStarts ==
  /\ host = "starting"
  /\ host' = "loop"
  /\ toPlugin' = IF Handshake THEN Append(toPlugin, RemoteHostStarted) ELSE toPlugin
  /\ UNCHANGED <<brokerVars, main, peer, up, down, toHost, callVars, answered>>

HostFails ==
  /\ host = "starting" /\ HostMayFail /\ Handshake
  /\ host' = "ended"
  /\ UNCHANGED <<brokerVars, main, peer, links, callVars, answered>>

\* The host instance takes the next request; its thread sleeps in describe.  A
\* program that cannot read it back never comes to make one.
HostReceives ==
  /\ host = "loop" /\ peer = None /\ toHost # <<>>
  /\ toHost' = Tail(toHost) /\ peer' = Head(toHost).parameters
  /\ UNCHANGED <<brokerVars, main, host, up, down, toPlugin, callVars, answered>>

HostAnswers ==
  /\ peer # None
  /\ toPlugin' = Append(toPlugin, [type |-> "ActionDescribeEnd", parameters |-> peer])
  /\ peer' = None /\ answered' = peer
  /\ UNCHANGED <<brokerVars, main, host, up, down, toHost, callVars>>

----------------------------------------------------------------------------
(* The main thread, and the calls of action_describe.                      *)

\* Wrong variant: wait instead of wait_for.
WaitForNotification ==
  /\ main = "start" \/ (main = "waiting" /\ notified)
  /\ broker # "poll"
  /\ main' = CASE main = "start" -> "waiting"
               [] main = "waiting" -> IF status_ready = "yes" THEN "serial" ELSE "gave up"
  /\ notified' = FALSE
  /\ UNCHANGED <<program, python, broker, status_ready, joined, host, peer, links,
                callVars, answered>>

\* wait_for_status_ready: wait_for looks at the predicate before it waits, and
\* again whenever it is notified.
WaitForStatusReady ==
  /\ main = "start" \/ (main = "waiting" /\ notified)
  /\ broker # "poll"
  /\ main' = CASE status_ready = "none" -> "waiting"
               [] status_ready = "yes"  -> "serial"
               [] status_ready = "no"   -> "gave up"
  /\ notified' = FALSE
  /\ UNCHANGED <<program, python, broker, status_ready, joined, host, peer, links,
                callVars, answered>>

\* sleep(1)
MainWakes ==
  /\ main = "asleep"
  /\ SleepSuffices => joined
  /\ main' = "serial"
  /\ UNCHANGED <<brokerVars, host, peer, links, callVars, answered>>

\* The first call is made by the main thread, the others by the workers.
SerialCall(t) == t = Main /\ main = "serial" /\ submitted = 0
PooledCall(t) == t \in Workers /\ main = "pool" /\ submitted < MaxCalls

ActionDescribe(t) ==
  /\ at[t] = "idle" /\ (SerialCall(t) \/ PooledCall(t))
  /\ submitted' = submitted + 1
  /\ doing' = [doing EXCEPT ![t] = submitted + 1]
  /\ at' = [at EXCEPT ![t] = "acquiring"]
  /\ UNCHANGED <<brokerVars, main, host, peer, links, mutex, result, answered>>

\* Wrong variant: the mutex is not used.
AcquireNothing(t) ==
  /\ at[t] = "acquiring"
  /\ at' = [at EXCEPT ![t] = "sending"]
  /\ UNCHANGED <<brokerVars, main, host, peer, links, mutex, doing, submitted, result, answered>>

Acquire(t) ==
  /\ at[t] = "acquiring" /\ mutex = None
  /\ mutex' = t
  /\ at' = [at EXCEPT ![t] = "sending"]
  /\ UNCHANGED <<brokerVars, main, host, peer, links, doing, submitted, result, answered>>

\* Wrong variant: the mutex is held for the request only.
SendReleasing(t) ==
  /\ at[t] = "sending"
  /\ up' = IF joined THEN Append(up, [type |-> "ActionDescribeStart", parameters |-> doing[t]])
                     ELSE up
  /\ at' = [at EXCEPT ![t] = "receiving"] /\ mutex' = None
  /\ UNCHANGED <<brokerVars, main, host, peer, down, toHost, toPlugin,
                 doing, submitted, result, answered>>

\* A PUB socket drops what nobody has subscribed to.
Send(t) ==
  /\ at[t] = "sending"
  /\ up' = IF joined THEN Append(up, [type |-> "ActionDescribeStart", parameters |-> doing[t]])
                     ELSE up
  /\ at' = [at EXCEPT ![t] = "receiving"]
  /\ UNCHANGED <<brokerVars, main, host, peer, down, toHost, toPlugin,
                 mutex, doing, submitted, result, answered>>

\* sub_socket.recv() and the status returned: an answer of another type makes
\* it "kOfxStatusErr".
Receive(t) ==
  /\ at[t] = "receiving" /\ down # <<>>
  /\ down' = Tail(down)
  /\ result' = [result EXCEPT ![doing[t]] = Head(down)]
  /\ at' = [at EXCEPT ![t] = "returning"]
  /\ UNCHANGED <<brokerVars, main, host, peer, up, toHost, toPlugin, mutex,
                doing, submitted, answered>>

\* Wrong variant: the mutex stays locked.
ReleaseNothing(t) ==
  /\ at[t] = "returning"
  /\ at' = [at EXCEPT ![t] = "idle"]
  /\ doing' = [doing EXCEPT ![t] = None]
  /\ main' = IF t = Main THEN IF Handshake THEN "end" ELSE "pool" ELSE main
  /\ UNCHANGED <<brokerVars, host, peer, links, mutex, submitted, result, answered>>

\* The end of the with statement, and the return to the caller.
Release(t) ==
  /\ at[t] = "returning"
  /\ mutex' = None
  /\ at' = [at EXCEPT ![t] = "idle"]
  /\ doing' = [doing EXCEPT ![t] = None]
  /\ main' = IF t = Main THEN IF Handshake THEN "end" ELSE "pool" ELSE main
  /\ UNCHANGED <<brokerVars, host, peer, links, submitted, result, answered>>

\* as_completed has seen every future.
PoolEnds ==
  /\ main = "pool" /\ submitted = MaxCalls /\ \A t \in Threads : at[t] = "idle"
  /\ main' = "end"
  /\ UNCHANGED <<brokerVars, host, peer, links, callVars, answered>>

----------------------------------------------------------------------------
BrokerNext ==
  \/ BrokerPolls \/ BrokerReceives \/ BrokerTimesOut \/ BrokerEntersLoop
  \/ BrokerFromSub \/ BrokerFromPair

CallNext(t) ==
  ActionDescribe(t) \/ Acquire(t) \/ Send(t) \/ Receive(t) \/ Release(t)

HostNext == HostStarts \/ HostFails \/ HostReceives \/ HostAnswers
MainNext == WaitForStatusReady \/ MainWakes \/ PoolEnds

Next == BrokerNext \/ HostNext \/ MainNext \/ \E t \in Threads : CallNext(t)

Spec == Init /\ [][Next]_vars

\* Threads run; a remote host that starts need not do so in time.  Several
\* workers may wait for the mutex, and Lock makes no promise to any of them.
FairSpec ==
  /\ Spec /\ WF_vars(BrokerNext) /\ WF_vars(BrokerFromSub) /\ WF_vars(MainNext)
  /\ WF_vars(HostStarts) /\ WF_vars(HostReceives) /\ WF_vars(HostAnswers)
  /\ WF_vars(\E t \in Threads : CallNext(t))

----------------------------------------------------------------------------
(* Properties.                                                             *)

\* Calls of several threads on one instance: each takes the answer to its own
\* request, the only one that carries its parameters.
AnswersMatch ==
  \A n \in Calls : result[n] # None =>
    result[n] = [type |-> "ActionDescribeEnd", parameters |-> n]

\* main.py ends: every call made from the pool has returned.
PoolReturns == ~Handshake => <>(main = "end")

\* Whatever becomes of the remote host, the main thread learns of it, unless
\* the broker thread could not read the announcement: then it waits for ever.
StartReturns == <>(main \notin {"start", "waiting", "asleep"} \/ broker = "ended")

\* A remote host that announces itself readably while the broker polls is used,
\* also when the main thread comes late to wait_for_status_ready.
AnnouncedIsReady ==
  (broker = "poll" /\ toPlugin # <<>> /\ ReadsBack) ~> (main \in {"serial", "end"})

\* The calls are those of a remote plug-in with one effect.
Remote == INSTANCE RemoteActions WITH
  Effects <- {0}, Requests <- {"Describe"}, LocalOnly <- {}, calls <- submitted,
  call <- [t \in Threads |->
            IF doing[t] = None THEN None
            ELSE [eff |-> 0, act |-> "Describe", n |-> doing[t],
                  outcome |-> IF at[t] # "returning" THEN "none"
                              ELSE IF result[doing[t]].type = "ActionDescribeEnd"
                              THEN "OK" ELSE "Failed"]],
  turn <- [e \in {0} |-> mutex],
  performed <- [e \in {0} |->
    [n |-> answered, status |-> IF answered = 0 THEN "none" ELSE "OK"]]

ActsAsRemote == Remote!Spec

----------------------------------------------------------------------------
(* What the safety properties rest on, for the proofs.                     *)

TypeOK ==
  /\ program \in Programs /\ python \in Pythons
  /\ broker \in {"started", "poll", "ready", "loop", "ended"}
  /\ status_ready \in {"none", "yes", "no"} /\ notified \in BOOLEAN /\ joined \in BOOLEAN
  /\ main \in {"start", "asleep", "waiting", "serial", "gave up", "pool", "end"}
  /\ host \in {"starting", "loop", "ended"} /\ peer \in Calls \cup {None}
  /\ mutex \in Threads \cup {None}
  /\ at \in [Threads -> {"idle", "acquiring", "sending", "receiving", "returning"}]
  /\ doing \in [Threads -> Calls \cup {None}]
  /\ submitted \in 0 .. MaxCalls /\ answered \in 0 .. MaxCalls
  /\ \A t \in Threads : at[t] = "idle" <=> doing[t] = None

Request(n) == [type |-> "ActionDescribeStart", parameters |-> n]
Answer(n)  == [type |-> "ActionDescribeEnd", parameters |-> n]

\* The calls of the threads differ, and only the one under way is answered.
CallsInv ==
  /\ \A t \in Threads : at[t] # "idle" => doing[t] <= submitted
  /\ \A t, u \in Threads : t # u /\ at[t] # "idle" /\ at[u] # "idle" => doing[t] # doing[u]
  /\ answered <= submitted
  /\ \A t \in Threads : at[t] \in {"acquiring", "sending"} => answered # doing[t]

MutexInv ==
  \A t \in Threads : mutex = t <=> at[t] \in {"sending", "receiving", "returning"}

\* Nothing but an announcement is on its way, and none before the host starts.
Announced == toPlugin \in {<<>>, <<RemoteHostStarted>>}
Quiet == up = <<>> /\ toHost = <<>> /\ peer = None /\ down = <<>> /\ Announced
HostInv == host # "loop" => toPlugin = <<>> /\ peer = None

\* The request of call n, or its answer, is at one place of the way.
UnderWay(n) ==
  \/ /\ up = <<Request(n)>> /\ toHost = <<>> /\ peer = None /\ down = <<>>
     /\ Announced /\ answered # n
  \/ /\ up = <<>> /\ toHost = <<Request(n)>> /\ peer = None /\ down = <<>>
     /\ Announced /\ answered # n
  \/ /\ up = <<>> /\ toHost = <<>> /\ peer = n /\ down = <<>>
     /\ Announced /\ answered # n
  \/ /\ up = <<>> /\ toHost = <<>> /\ peer = None /\ down = <<>>
     /\ toPlugin \in {<<Answer(n)>>, <<RemoteHostStarted, Answer(n)>>} /\ answered = n
  \/ /\ up = <<>> /\ toHost = <<>> /\ peer = None /\ down = <<Answer(n)>>
     /\ Announced /\ answered = n

WayInv == Quiet \/ \E t \in Threads : at[t] = "receiving" /\ UnderWay(doing[t])

ResultInv ==
  /\ result \in [Calls -> {None} \cup {Answer(n) : n \in Calls}]
  /\ AnswersMatch
  /\ \A t \in Threads : at[t] = "returning" =>
       result[doing[t]] = Answer(doing[t])

MockupInv == TypeOK /\ CallsInv /\ MutexInv /\ HostInv /\ WayInv /\ ResultInv
=============================================================================
