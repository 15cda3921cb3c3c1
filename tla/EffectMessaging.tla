-------------------------- MODULE EffectMessaging --------------------------
(***************************************************************************)
(* OFX actions travelling from the host application's threads through the  *)
(* proxy plug-in to the remote process and back:                           *)
(*                                                                         *)
(*   MfxProxyEffect --PUB/SUB--> MfxProxyPluginBroker --PAIR--> remote     *)
(*   MfxProxyEffect <--SUB/PUB-- MfxProxyPluginBroker <--PAIR-- remote     *)
(*                                                                         *)
(* The model starts where OfxSetHost has returned kOfxStatOK: the effects  *)
(* exist, no effect has sockets yet, the broker thread is in its main loop *)
(* and the PAIR link is up.                                                *)
(*                                                                         *)
(* The mt19937 draw of generate_message_thread_id is left out: nothing in  *)
(* the plug-in compares the id it yields, and a call is identified here by *)
(* its serial number instead, which the code does not have.                *)
(***************************************************************************)
EXTENDS Naturals, Sequences

CONSTANTS
  Threads,       \* threads of the OFX host
  Effects,       \* the effects of the bundle (m_effect_id)
  LocalOnly,     \* OFX actions answered without a message: CreateInstance,
                 \* DestroyInstance, Cook and IsIdentity, all alike here
  MaxCalls,      \* bound on the number of MainEntry calls
  None,
  PeerMayCrash,  \* the remote process may die
  RecvMayFail,   \* m_sub_socket.recv may throw zmq::error_t (EINTR)
  SleepSuffices  \* the 100 ms sleep in Load outlasts the PUB/SUB joins

Requests  == {"Load", "Describe", "Unload"}
Statuses  == {"OK", "Failed"}
Serial    == 1 .. MaxCalls

(***************************************************************************)
(* The hops of a message.  Every PUB socket an effect ever opened has an   *)
(* inproc pipe of its own into the broker's SUB socket; closing the socket *)
(* leaves what was already written in it.  Held is the message the broker  *)
(* thread took from its SUB socket and is sending to PAIR, a blocking      *)
(* call; Peer(e) is what the remote side is working on for effect e.       *)
(***************************************************************************)
Up(e, s)  == <<"up", e, s>>
Down(e)   == <<"down", e, 0>>
Peer(e)   == <<"peer", e, 0>>
Held      == <<"held", None, 0>>
ToHost    == <<"toHost", None, 0>>
ToPlugin  == <<"toPlugin", None, 0>>

Link == {Up(e, s) : e \in Effects, s \in Serial}
        \cup {Down(e) : e \in Effects} \cup {Peer(e) : e \in Effects}
        \cup {Held, ToHost, ToPlugin}

\* effect_id prefix plus envelope: ActionXStart has status "none", ActionXEnd
\* the remote status.
Message == [eff : Effects, act : Requests, n : Serial,
            status : Statuses \cup {"none"}]

Call == [eff : Effects, act : Requests \cup LocalOnly, n : Serial,
         got : 0 .. MaxCalls,                       \* serial of the reply taken
         outcome : Statuses \cup {"none", "Exception"}]

\* A call as the OFX host sees it (RemoteActions).
RemoteCall == [eff : Effects, act : Requests \cup LocalOnly, n : Serial,
               outcome : Statuses \cup {"none", "Exception"}]

ASSUME ConstantsAssumption ==
  /\ MaxCalls \in Nat
  /\ LocalOnly \cap Requests = {}
  /\ None \notin Threads \cup Effects \cup Call \cup RemoteCall
  /\ {PeerMayCrash, RecvMayFail, SleepSuffices} \subseteq BOOLEAN

VARIABLES
  pc,             \* pc[t]: where thread t is in MfxProxyEffect::MainEntry
  call,           \* call[t]: its current call, None when outside
  m_effect_lock,  \* m_effect_lock[e]: holder of the effect's mutex
  sock,           \* sock[e]: serial of the Load that opened e's sockets, 0: closed
  joined,         \* joined[e]: directions in which the subscription has arrived
  wire,           \* wire[l]: the messages on link l, oldest first
  linkUp,         \* the PAIR connection to the remote process stands
  performed,      \* performed[e]: last action the remote performed (history)
  calls           \* number of calls so far

vars == <<pc, call, m_effect_lock, sock, joined, wire, linkUp, performed, calls>>

Init ==
  /\ pc = [t \in Threads |-> "idle"]
  /\ call = [t \in Threads |-> None]
  /\ m_effect_lock = [e \in Effects |-> None]
  /\ sock = [e \in Effects |-> 0]
  /\ joined = [e \in Effects |-> {}]
  /\ wire = [l \in Link |-> <<>>]
  /\ linkUp = TRUE
  /\ performed = [e \in Effects |-> [n |-> 0, status |-> "none"]]
  /\ calls = 0

----------------------------------------------------------------------------
(* What a step does to the links.                                          *)

\* Wrong variant: the message stays where it was read from.
ForwardCopy(from, to) == [wire EXCEPT ![to] = Append(@, Head(wire[from]))]

Put(l, m)         == [wire EXCEPT ![l] = Append(@, m)]
Forward(from, to) == [wire EXCEPT ![from] = Tail(@),
                                  ![to] = Append(@, Head(wire[from]))]
Drop(l)           == [wire EXCEPT ![l] = Tail(@)]
Clear(l)          == [wire EXCEPT ![l] = <<>>]

\* Thread t leaves the body of MainEntry with outcome o; only the lock_guard
\* remains to be released.
Finish(t, g, o) ==
  /\ pc' = [pc EXCEPT ![t] = "release"]
  /\ call' = [call EXCEPT ![t] = [@ EXCEPT !.got = g, !.outcome = o]]

----------------------------------------------------------------------------
(* Threads of the OFX host inside MainEntry.                               *)

\* StaticOfxPluginMainEntry<N> -> OfxPluginMainEntry -> MfxProxyEffect::MainEntry
MainEntry(t, e, a) ==
  /\ pc[t] = "idle"
  /\ calls < MaxCalls
  /\ calls' = calls + 1
  /\ pc' = [pc EXCEPT ![t] = "lock"]
  /\ call' = [call EXCEPT ![t] = [eff |-> e, act |-> a, n |-> calls + 1,
                                  got |-> 0, outcome |-> "none"]]
  /\ UNCHANGED <<m_effect_lock, sock, joined, wire, linkUp, performed>>

\* Wrong variant: MfxEffect::MainEntry without the lock_guard.
LockNotTaken(e) == e \in Effects

LockFree(e) == m_effect_lock[e] = None

\* The dispatch of MfxEffect::MainEntry.
FirstStep(a) ==
  IF a = "Load" THEN "connect" ELSE IF a \in Requests THEN "send" ELSE "local"

\* std::lock_guard on m_effect_lock.
Acquire(t) ==
  /\ pc[t] = "lock"
  /\ LockFree(call[t].eff)
  /\ m_effect_lock' = [m_effect_lock EXCEPT ![call[t].eff] = t]
  /\ pc' = [pc EXCEPT ![t] = FirstStep(call[t].act)]
  /\ UNCHANGED <<call, sock, joined, wire, linkUp, performed, calls>>

\* The actions that exchange no message with the remote side yet.
RunLocally(t) ==
  /\ pc[t] = "local"
  /\ \E o \in Statuses : Finish(t, 0, o)
  /\ UNCHANGED <<m_effect_lock, sock, joined, wire, linkUp, performed, calls>>

\* Wrong variant: one pair of sockets shared by all effects.
ConnectShared(t) ==
  LET e == call[t].eff IN
  /\ pc[t] = "connect"
  /\ sock' = [sock EXCEPT ![e] = call[t].n]
  /\ joined' = [f \in Effects |-> {}]
  /\ wire' = [l \in Link |-> IF l[1] = "down" THEN <<>> ELSE wire[l]]
  /\ pc' = [pc EXCEPT ![t] = "send"]
  /\ UNCHANGED <<call, m_effect_lock, linkUp, performed, calls>>

\* Load: new sockets replace the old ones; unread replies go with the old SUB.
Connect(t) ==
  LET e == call[t].eff IN
  /\ pc[t] = "connect"
  /\ sock' = [sock EXCEPT ![e] = call[t].n]
  /\ joined' = [joined EXCEPT ![e] = {}]
  /\ wire' = Clear(Down(e))
  /\ pc' = [pc EXCEPT ![t] = "send"]
  /\ UNCHANGED <<call, m_effect_lock, linkUp, performed, calls>>

\* Wrong variant: Load without its sleep.
SendAtOnce(t) == call[t].act = "Load" => sock[call[t].eff] = call[t].n

\* Load sleeps 100 ms between Connect and send_message and then sends whether
\* or not both subscriptions have arrived; the other actions send at once.
SleptLongEnough(t) ==
  call[t].act = "Load" /\ SleepSuffices /\ linkUp
    => joined[call[t].eff] = {"up", "down"}

\* A message published before the broker's subscription reached the PUB
\* socket is discarded without an error.
SendMessage(t) ==
  LET c == call[t]
      m == [eff |-> c.eff, act |-> c.act, n |-> c.n, status |-> "none"]
  IN
  /\ pc[t] = "send"
  /\ sock[c.eff] # 0
  /\ SleptLongEnough(t)
  /\ wire' = IF "up" \in joined[c.eff] THEN Put(Up(c.eff, sock[c.eff]), m) ELSE wire
  /\ pc' = [pc EXCEPT ![t] = "recv"]
  /\ UNCHANGED <<call, m_effect_lock, sock, joined, linkUp, performed, calls>>

\* Sending on a socket never opened or closed by Unload throws zmq::error_t,
\* which MainEntry turns into kOfxStatFailed.
SendFails(t) ==
  /\ pc[t] = "send"
  /\ sock[call[t].eff] = 0
  /\ Finish(t, 0, "Failed")
  /\ UNCHANGED <<m_effect_lock, sock, joined, wire, linkUp, performed, calls>>

\* Wrong variant: kOfxStatOK whatever the remote status.
ResultsIgnoringStatus(c, m) == IF m.act # c.act THEN {"Exception"} ELSE {"OK"}

\* What the action makes of the message it received.  message_as throws
\* std::runtime_error on another type and MainEntry does not catch that.
\* Describe may still fail while it replays the definitions to the OFX host.
Results(c, m) ==
  IF m.act # c.act THEN {"Exception"}
  ELSE IF c.act = "Describe" /\ m.status = "OK" THEN {"OK", "Failed"}
  ELSE {m.status}

\* receive_message and the rest of the action.  Unload closes both sockets,
\* whatever the remote status, unless it left with an exception.
ReceiveMessage(t) ==
  LET e == call[t].eff
      m == Head(wire[Down(e)])
      closes == call[t].act = "Unload" /\ m.act = "Unload"
  IN
  /\ pc[t] = "recv"
  /\ wire[Down(e)] # <<>>
  /\ \E o \in Results(call[t], m) : Finish(t, m.n, o)
  /\ IF closes
     THEN /\ sock' = [sock EXCEPT ![e] = 0]
          /\ joined' = [joined EXCEPT ![e] = {}]
          /\ wire' = Clear(Down(e))
     ELSE /\ wire' = Drop(Down(e))
          /\ UNCHANGED <<sock, joined>>
  /\ UNCHANGED <<m_effect_lock, linkUp, performed, calls>>

\* recv throws zmq::error_t, MainEntry returns kOfxStatFailed; the request is
\* still on its way.
ReceiveFails(t) ==
  /\ RecvMayFail
  /\ pc[t] = "recv"
  /\ Finish(t, 0, "Failed")
  /\ UNCHANGED <<m_effect_lock, sock, joined, wire, linkUp, performed, calls>>

\* Wrong variant: a return path that skips the unlock.
ReleaseForgotten(t) ==
  /\ pc[t] = "release"
  /\ pc' = [pc EXCEPT ![t] = "idle"]
  /\ call' = [call EXCEPT ![t] = None]
  /\ UNCHANGED <<m_effect_lock, sock, joined, wire, linkUp, performed, calls>>

Release(t) ==
  /\ pc[t] = "release"
  /\ m_effect_lock' = [m_effect_lock EXCEPT ![call[t].eff] = None]
  /\ pc' = [pc EXCEPT ![t] = "idle"]
  /\ call' = [call EXCEPT ![t] = None]
  /\ UNCHANGED <<sock, joined, wire, linkUp, performed, calls>>

----------------------------------------------------------------------------
(* The broker thread of the plug-in.  It also carries the subscriptions    *)
(* across, since ZeroMQ does that inside its calls on the two sockets, so  *)
(* not while the thread is blocked sending to PAIR.                        *)

BrokerIdle == wire[Held] = <<>>

Join(e, d) ==
  /\ BrokerIdle
  /\ sock[e] # 0
  /\ d \notin joined[e]
  /\ joined' = [joined EXCEPT ![e] = @ \cup {d}]
  /\ UNCHANGED <<pc, call, m_effect_lock, sock, wire, linkUp, performed, calls>>

BrokerFromSub(e, s) ==
  /\ BrokerIdle
  /\ wire[Up(e, s)] # <<>>
  /\ wire' = Forward(Up(e, s), Held)
  /\ UNCHANGED <<pc, call, m_effect_lock, sock, joined, linkUp, performed, calls>>

\* send_message_pair blocks while no peer is connected.
BrokerToPair ==
  /\ ~BrokerIdle
  /\ linkUp
  /\ wire' = Forward(Held, ToHost)
  /\ UNCHANGED <<pc, call, m_effect_lock, sock, joined, linkUp, performed, calls>>

\* Wrong variant: the effects subscribe to everything.
AllSubscribers(m) == {e \in Effects : "down" \in joined[e] /\ m.eff \in Effects}

\* send_message_pub: only the effects whose subscription, their own effect id
\* as a prefix, has arrived get the message; with none it is discarded.
Subscribers(m) == {e \in Effects : "down" \in joined[e] /\ m.eff = e}

BrokerFromPair ==
  LET m == Head(wire[ToPlugin]) IN
  /\ BrokerIdle
  /\ wire[ToPlugin] # <<>>
  /\ wire' = [l \in Link |->
                IF l = ToPlugin THEN Tail(wire[l])
                ELSE IF \E e \in Subscribers(m) : l = Down(e)
                THEN Append(wire[l], m)
                ELSE wire[l]]
  /\ UNCHANGED <<pc, call, m_effect_lock, sock, joined, linkUp, performed, calls>>

----------------------------------------------------------------------------
(* The remote process.                                                     *)

\* The broker of the remote process hands a message to the remote effect, as
\* the mockup's does; MfxProxyHostBroker only receives it yet ("TODO handle the
\* message").
PeerReceive ==
  /\ linkUp
  /\ wire[ToHost] # <<>>
  /\ wire' = Forward(ToHost, Peer(Head(wire[ToHost]).eff))
  /\ UNCHANGED <<pc, call, m_effect_lock, sock, joined, linkUp, performed, calls>>

\* The remote effect performs the action and sends ActionXEnd with its status.
PeerReply(e, s) ==
  LET m == Head(wire[Peer(e)]) IN
  /\ linkUp
  /\ wire[Peer(e)] # <<>>
  /\ wire' = [wire EXCEPT ![Peer(e)] = Tail(@),
                          ![ToPlugin] = Append(@, [m EXCEPT !.status = s])]
  /\ performed' = [performed EXCEPT ![e] = [n |-> m.n, status |-> s]]
  /\ UNCHANGED <<pc, call, m_effect_lock, sock, joined, linkUp, calls>>

\* The remote process dies: what it had not read or not answered is lost, of
\* what it sent some prefix is still delivered.  Nobody restarts it.  The step
\* is the moment the connection is seen to be gone: what the plug-in sends
\* between the death and that moment is in wire[ToHost], and goes with it.
PeerCrash ==
  /\ PeerMayCrash
  /\ linkUp
  /\ linkUp' = FALSE
  /\ \E k \in 0 .. Len(wire[ToPlugin]) :
       wire' = [l \in Link |->
                  IF l = ToHost \/ l \in {Peer(e) : e \in Effects} THEN <<>>
                  ELSE IF l = ToPlugin THEN SubSeq(wire[l], 1, k)
                  ELSE wire[l]]
  /\ UNCHANGED <<pc, call, m_effect_lock, sock, joined, performed, calls>>

----------------------------------------------------------------------------
\* The OFX host has made all its calls and got out of them.
AllReturned ==
  /\ calls = MaxCalls
  /\ \A t \in Threads : pc[t] = "idle"
  /\ UNCHANGED vars

ThreadStep(t) ==
  \/ Acquire(t) \/ RunLocally(t) \/ Connect(t) \/ SendMessage(t)
  \/ SendFails(t) \/ ReceiveMessage(t) \/ Release(t)

BrokerStep ==
  \/ \E e \in Effects, d \in {"up", "down"} : Join(e, d)
  \/ \E e \in Effects, s \in Serial : BrokerFromSub(e, s)
  \/ BrokerToPair
  \/ BrokerFromPair

PeerStep ==
  \/ PeerReceive
  \/ \E e \in Effects, s \in Statuses : PeerReply(e, s)

Next ==
  \/ \E t \in Threads, e \in Effects, a \in Requests \cup LocalOnly :
       MainEntry(t, e, a)
  \/ \E t \in Threads : ThreadStep(t) \/ ReceiveFails(t)
  \/ BrokerStep
  \/ PeerStep
  \/ PeerCrash
  \/ AllReturned

Spec == Init /\ [][Next]_vars

\* Every thread the system schedules keeps running.  The OFX host need not
\* call, the process need not crash, recv need not fail.  Messages are finite
\* in number (MaxCalls), so weak fairness of the broker as a whole is enough.
Fairness ==
  /\ \A t \in Threads : WF_vars(ThreadStep(t))
  /\ WF_vars(BrokerStep)
  /\ WF_vars(PeerStep)

FairSpec == Spec /\ Fairness

----------------------------------------------------------------------------
(* Properties.                                                             *)

\* Every variable keeps its type, and a thread has a call exactly while it is
\* inside MainEntry.
TypeOK ==
  /\ pc \in [Threads -> {"idle", "lock", "local", "connect", "send", "recv", "release"}]
  /\ call \in [Threads -> Call \cup {None}]
  /\ m_effect_lock \in [Effects -> Threads \cup {None}]
  /\ sock \in [Effects -> 0 .. MaxCalls]
  /\ joined \in [Effects -> SUBSET {"up", "down"}]
  /\ wire \in [Link -> Seq(Message)]
  /\ linkUp \in BOOLEAN
  /\ performed \in [Effects -> [n : 0 .. MaxCalls, status : Statuses \cup {"none"}]]
  /\ calls \in 0 .. MaxCalls
  /\ \A t \in Threads : pc[t] = "idle" <=> call[t] = None

\* Where the messages of effect e are: pairs of a link and a place on it.
InFlight(e) == {p \in Link \X (1 .. MaxCalls) :
                  p[2] \in 1 .. Len(wire[p[1]]) /\ wire[p[1]][p[2]].eff = e}

\* MfxProxyEffect.h: "there can be only one action "in flight" at any given
\* time".  Of one effect at most one request or reply is under way between the
\* plug-in and the remote process.
OneActionInFlight ==
  \A e \in Effects : \A p, q \in InFlight(e) : p = q

\* A call never consumes another call's reply, so the receive_message that
\* follows a send_message needs no id to match the two, and message_as never
\* throws out of MainEntry.
RepliesMatch ==
  \A t \in Threads : call[t] # None =>
    /\ call[t].outcome # "Exception"
    /\ call[t].got \in {0, call[t].n}

\* While a thread waits in receive_message, the request or the reply it needs
\* is somewhere on the way: nothing is dropped on any of the five hops.
NoMessageLost ==
  \A t \in Threads : pc[t] = "recv" =>
    \E l \in Link : \E i \in 1 .. Len(wire[l]) : wire[l][i].n = call[t].n

\* However calls, failures and stale replies interleave, the brokers neither
\* duplicate a message nor deliver again one that was consumed.
NothingDuplicated ==
  /\ \A k, l \in Link : \A i \in 1 .. Len(wire[k]), j \in 1 .. Len(wire[l]) :
       wire[k][i].n = wire[l][j].n => k = l /\ i = j
  /\ \A t \in Threads, l \in Link : call[t] # None =>
       \A i \in 1 .. Len(wire[l]) : wire[l][i].n # call[t].got

\* Every call of MainEntry returns to the OFX host.
CallsReturn == \A t \in Threads : pc[t] # "idle" ~> pc[t] = "idle"

\* The request of thread t was really published and its effect is subscribed
\* to the reply.
Answerable(t) ==
  /\ pc[t] = "recv"
  /\ "down" \in joined[call[t].eff]
  /\ \E l \in Link : \E i \in 1 .. Len(wire[l]) : wire[l][i].n = call[t].n

\* A call stuck in receive_message, because the slow joiner lost its request,
\* holds its own effect's lock only: as long as the remote process lives, a
\* call of another effect whose request was published still gets a reply
\* through the broker they share.
AnswerableCallsReturn ==
  \A t \in Threads : Answerable(t) ~> (pc[t] = "idle" \/ ~linkUp)

StuckOnReply(t) ==
  \/ pc[t] = "recv"
  \/ pc[t] = "lock" /\ \E u \in Threads : m_effect_lock[call[t].eff] = u /\ pc[u] = "recv"

\* receive_message is the only place where a call can stay for ever, whatever
\* is lost or dies: sending never blocks, and a call waits for a lock for ever
\* only behind such a call.
OnlyRepliesBlock == \A t \in Threads : []<>(pc[t] = "idle" \/ StuckOnReply(t))

\* The proxy implements a remote MainEntry: calls of an effect take turns, the
\* remote performs an action at most once and while its caller waits, and
\* kOfxStatOK is returned only for an action performed with that status.
Remote == INSTANCE RemoteActions WITH
  call <- [t \in Threads |->
             IF call[t] = None THEN None
             ELSE [eff |-> call[t].eff, act |-> call[t].act,
                   n |-> call[t].n, outcome |-> call[t].outcome]],
  turn <- m_effect_lock

ActsAsRemote == Remote!Spec

----------------------------------------------------------------------------
(* What the safety properties rest on, for the proofs.                     *)

Busy == {"local", "connect", "send", "recv", "release"}

\* Only the actions that exchange messages reach the messaging steps.
RequestInv ==
  \A t \in Threads : pc[t] \in {"connect", "send", "recv"} => call[t].act \in Requests

\* m_effect_lock is held by exactly the thread inside the guarded block.
LockInv ==
  /\ \A t \in Threads : pc[t] \in Busy => m_effect_lock[call[t].eff] = t
  /\ \A e \in Effects : m_effect_lock[e] # None =>
       pc[m_effect_lock[e]] \in Busy /\ call[m_effect_lock[e]].eff = e

\* Thread t waits in receive_message for the answer m is or will become.
Awaits(t, m) ==
  pc[t] = "recv" /\ call[t].n = m.n /\ call[t].eff = m.eff /\ call[t].act = m.act

AwaitedInv ==
  \A l \in Link : \A i \in 1 .. Len(wire[l]) : \E t \in Threads : Awaits(t, wire[l][i])

\* A SUB socket holds messages of its own effect only.
RoutedInv ==
  \A e \in Effects : \A i \in 1 .. Len(wire[Down(e)]) : wire[Down(e)][i].eff = e

\* No two messages on the links w are of the same effect.
OnePerEffect(w) ==
  \A k, l \in Link : \A i \in 1 .. Len(w[k]), j \in 1 .. Len(w[l]) :
    w[k][i].eff = w[l][j].eff => k = l /\ i = j

\* No two messages on the links w have the same serial.
OnePerSerial(w) ==
  \A k, l \in Link : \A i \in 1 .. Len(w[k]), j \in 1 .. Len(w[l]) :
    w[k][i].n = w[l][j].n => k = l /\ i = j

MessagingInv ==
  /\ TypeOK /\ RequestInv /\ LockInv /\ AwaitedInv /\ RoutedInv
  /\ OnePerEffect(wire) /\ RepliesMatch

\* Serials identify messages even where stale replies are left behind: no
\* message bears the serial of a call that has not sent its request yet, nor
\* one that some call has consumed.
SerialInv ==
  /\ TypeOK /\ RequestInv /\ OnePerSerial(wire)
  /\ \A l \in Link : \A i \in 1 .. Len(wire[l]) : wire[l][i].n <= calls
  /\ \A t \in Threads : call[t] # None => call[t].n <= calls /\ call[t].got <= calls
  /\ \A t, u \in Threads : t # u /\ call[t] # None /\ call[u] # None => call[t].n # call[u].n
  /\ \A t, u \in Threads : call[t] # None /\ pc[u] \in {"lock", "local", "connect", "send"}
       => call[t].got # call[u].n
  /\ \A u \in Threads, l \in Link : pc[u] \in {"lock", "local", "connect", "send"}
       => \A i \in 1 .. Len(wire[l]) : wire[l][i].n # call[u].n
  /\ \A t \in Threads, l \in Link : call[t] # None
       => \A i \in 1 .. Len(wire[l]) : wire[l][i].n # call[t].got
============================================================================
