------------------------- MODULE PythonMockupProofs -------------------------
(***************************************************************************)
(* Proofs about PythonMockup for any number of workers and calls, both     *)
(* programs, and whether or not the host starts and the sleep suffices.    *)
(***************************************************************************)
EXTENDS PythonMockup, SequenceTheorems, TLAPS

----------------------------------------------------------------------------
(* Queues of no more than two messages.                                    *)

LEMMA ShortQueues ==
  ASSUME NEW x, NEW y
  PROVE  /\ <<x>> # <<>> /\ Head(<<x>>) = x /\ Tail(<<x>>) = <<>>
         /\ <<x, y>> # <<>> /\ Head(<<x, y>>) = x /\ Tail(<<x, y>>) = <<y>>
         /\ Append(<<>>, x) = <<x>> /\ Append(<<x>>, y) = <<x, y>>
<1>1. <<x>> # <<>> /\ Head(<<x>>) = x
  OBVIOUS
<1>2. Tail(<<x>>) = <<>>
  OBVIOUS
<1>3. <<x, y>> # <<>> /\ Head(<<x, y>>) = x
  OBVIOUS
<1>4. Tail(<<x, y>>) = <<y>>
  OBVIOUS
<1>5. Append(<<>>, x) = <<x>>
  OBVIOUS
<1>6. Append(<<x>>, y) = <<x, y>>
  <2>. DEFINE S == {x, y}
              s == Append(<<x>>, y)
  <2>1. <<x>> \in Seq(S) /\ y \in S /\ Len(<<x>>) = 1
    OBVIOUS
  <2>2. s \in Seq(S) /\ Len(s) = 2 /\ s[2] = y /\ s[1] = x
    BY <2>1, AppendProperties
  <2>. HIDE DEF s
  <2>3. s = <<s[1], s[2]>>
    BY <2>2
  <2>. QED
    BY <2>2, <2>3 DEF s
<1>. QED
  BY <1>1, <1>2, <1>3, <1>4, <1>5, <1>6

LEMMA MessageKinds ==
  ASSUME NEW n
  PROVE  /\ Answer(n) # RemoteHostStarted /\ Request(n).parameters = n
         /\ Answer(n).type = "ActionDescribeEnd" /\ Answer(n).parameters = n
  BY DEF Answer, Request, RemoteHostStarted

----------------------------------------------------------------------------
(* Types, the mutex and the calls.                                         *)

\* Steps that are not part of a call.
Elsewhere == BrokerNext \/ HostStarts \/ HostFails \/ HostReceives \/ MainNext

LEMMA ElsewhereKeeps ==
  ASSUME Elsewhere
  PROVE  UNCHANGED <<mutex, at, doing, submitted, result, answered>>
  BY DEF Elsewhere, BrokerNext, HostStarts, HostFails, HostReceives, MainNext, BrokerPolls,
         BrokerReceives, BrokerTimesOut, BrokerEntersLoop, BrokerFromSub, BrokerFromPair,
         WaitForStatusReady, MainWakes, PoolEnds, callVars

\* The peer works on the call that is under way.
LEMMA PeerHasCall ==
  ASSUME TypeOK, WayInv, peer # None
  PROVE  /\ peer \in Calls /\ answered # peer
         /\ \E t \in Threads : at[t] = "receiving" /\ doing[t] = peer
         /\ up = <<>> /\ toHost = <<>> /\ down = <<>> /\ Announced
  BY DEF TypeOK, WayInv, Quiet, UnderWay

\* Nothing but the state of the broker thread and what it tells changes.
LEMMA TypeKept ==
  ASSUME TypeOK,
         UNCHANGED <<program, python, main, host, peer, mutex, at, doing, submitted, answered>>,
         broker' \in {"started", "poll", "ready", "loop", "ended"},
         status_ready' \in {"none", "yes", "no"}, notified' \in BOOLEAN, joined' \in BOOLEAN
  PROVE  TypeOK'
<1>1. (\A t \in Threads : at[t] = "idle" <=> doing[t] = None)'
  BY DEF TypeOK
<1>2. (program \in Programs /\ python \in Pythons)'
      /\ (mutex \in Threads \cup {None} /\ peer \in Calls \cup {None})'
      /\ (submitted \in 0 .. MaxCalls /\ answered \in 0 .. MaxCalls)'
  BY DEF TypeOK
<1>3. (at \in [Threads -> {"idle", "acquiring", "sending", "receiving", "returning"}])'
      /\ (doing \in [Threads -> Calls \cup {None}])'
  BY DEF TypeOK
<1>4. (main \in {"start", "asleep", "waiting", "serial", "gave up", "pool", "end"})'
      /\ (host \in {"starting", "loop", "ended"})'
  BY DEF TypeOK
<1>. QED
  BY <1>1, <1>2, <1>3, <1>4 DEF TypeOK

LEMMA TypeStep ==
  ASSUME MockupInv, [Next]_vars
  PROVE  TypeOK'
<1>1. TypeOK /\ WayInv /\ None \notin Calls /\ MaxCalls \in Nat
  BY MockupAssumption DEF MockupInv
<1>2. CASE BrokerNext
  <2>1. /\ UNCHANGED <<program, python, main, host, peer, mutex, at, doing, submitted, answered>>
        /\ broker' \in {broker, "poll", "ready", "loop", "ended"}
        /\ status_ready' \in {status_ready, "yes", "no"}
        /\ notified' \in {notified, TRUE, FALSE} /\ joined' \in {joined, TRUE}
    BY <1>2 DEF BrokerNext, BrokerPolls, BrokerReceives, BrokerTimesOut, Tell,
       BrokerEntersLoop, BrokerFromSub, BrokerFromPair, brokerVars, callVars
  <2>2. /\ broker \in {"started", "poll", "ready", "loop", "ended"}
        /\ status_ready \in {"none", "yes", "no"} /\ notified \in BOOLEAN /\ joined \in BOOLEAN
    BY <1>1 DEF TypeOK
  <2>3. /\ broker' \in {"started", "poll", "ready", "loop", "ended"}
        /\ status_ready' \in {"none", "yes", "no"} /\ notified' \in BOOLEAN /\ joined' \in BOOLEAN
    BY <2>1, <2>2
  <2>. QED
    BY <1>1, <2>1, <2>3, TypeKept
<1>3. CASE HostStarts \/ HostFails
  BY <1>1, <1>3 DEF TypeOK, HostStarts, HostFails, brokerVars, callVars, links
<1>4. CASE HostReceives
  <2>1. peer' \in Calls
    <3>1. PICK t \in Threads : at[t] = "receiving" /\ toHost = <<Request(doing[t])>>
      BY <1>1, <1>4 DEF HostReceives, WayInv, Quiet, UnderWay
    <3>2. peer' = doing[t] /\ doing[t] # None
      BY <1>1, <1>4, <3>1, ShortQueues, MessageKinds DEF HostReceives, TypeOK
    <3>. QED
      BY <1>1, <3>2 DEF TypeOK
  <2>. QED
    BY <1>1, <1>4, <2>1 DEF TypeOK, HostReceives, brokerVars, callVars
<1>5. CASE HostAnswers
  <2>1. answered' \in 0 .. MaxCalls
    BY <1>1, <1>5, PeerHasCall DEF HostAnswers, Calls
  <2>. QED
    BY <1>1, <1>5, <2>1 DEF TypeOK, HostAnswers, brokerVars, callVars
<1>6. CASE MainNext
  BY <1>1, <1>6 DEF TypeOK, MainNext, WaitForStatusReady, MainWakes, PoolEnds, brokerVars,
     callVars, links
<1>7. ASSUME NEW t \in Threads, ActionDescribe(t)
      PROVE  TypeOK'
  <2>1. submitted + 1 \in Calls /\ submitted + 1 \in 0 .. MaxCalls
    <3>1. submitted \in 0 .. MaxCalls
      BY <1>1 DEF TypeOK
    <3>2. submitted = 0 \/ submitted < MaxCalls
      BY <1>7 DEF ActionDescribe, SerialCall, PooledCall
    <3>. QED
      BY <3>1, <3>2, MockupAssumption DEF Calls
  <2>2. /\ submitted' = submitted + 1 /\ doing' = [doing EXCEPT ![t] = submitted + 1]
        /\ at' = [at EXCEPT ![t] = "acquiring"]
    BY <1>7 DEF ActionDescribe
  <2>3. submitted + 1 # None
    BY <1>1, <2>1
  <2>4. PICK n : n = submitted + 1
    OBVIOUS
  <2>5. /\ doing' \in [Threads -> Calls \cup {None}]
        /\ at' \in [Threads -> {"idle", "acquiring", "sending", "receiving", "returning"}]
        /\ \A u \in Threads : at'[u] = "idle" <=> doing'[u] = None
    BY <1>1, <2>1, <2>2, <2>3, <2>4 DEF TypeOK
  <2>6. UNCHANGED <<program, python, broker, status_ready, notified, joined, main, host, peer,
                    mutex, answered>>
    BY <1>7 DEF ActionDescribe, brokerVars
  <2>7. /\ (program \in Programs /\ python \in Pythons)'
        /\ (broker \in {"started", "poll", "ready", "loop", "ended"})'
        /\ (status_ready \in {"none", "yes", "no"} /\ notified \in BOOLEAN /\ joined \in BOOLEAN)'
    BY <1>1, <2>6 DEF TypeOK
  <2>8. /\ (main \in {"start", "asleep", "waiting", "serial", "gave up", "pool", "end"})'
        /\ (host \in {"starting", "loop", "ended"} /\ peer \in Calls \cup {None})'
        /\ (mutex \in Threads \cup {None} /\ answered \in 0 .. MaxCalls)'
    BY <1>1, <2>6 DEF TypeOK
  <2>9. submitted' \in 0 .. MaxCalls
    BY <2>1, <2>2
  <2>. QED
    BY <2>5, <2>7, <2>8, <2>9 DEF TypeOK
<1>8. ASSUME NEW t \in Threads, Acquire(t) \/ Send(t) \/ Receive(t)
      PROVE  TypeOK'
  <2>1. /\ UNCHANGED <<brokerVars, main, host, peer, doing, submitted, answered>>
        /\ mutex' \in {mutex, t} /\ at[t] # "idle"
        /\ \E x \in {"sending", "receiving", "returning"} : at' = [at EXCEPT ![t] = x]
    BY <1>8 DEF Acquire, Send, Receive
  <2>2. /\ at' \in [Threads -> {"idle", "acquiring", "sending", "receiving", "returning"}]
        /\ \A u \in Threads : at'[u] = "idle" <=> doing'[u] = None
    BY <1>1, <2>1 DEF TypeOK
  <2>3. mutex' \in Threads \cup {None}
    BY <1>1, <2>1 DEF TypeOK
  <2>4. UNCHANGED <<program, python, broker, status_ready, notified, joined, main, host, peer, submitted,
                    answered>>
    BY <2>1 DEF brokerVars
  <2>5. submitted' \in 0 .. MaxCalls /\ answered' \in 0 .. MaxCalls
    BY <1>1, <2>4 DEF TypeOK
  <2>6. /\ (program \in Programs /\ python \in Pythons)'
        /\ (broker \in {"started", "poll", "ready", "loop", "ended"})'
        /\ (status_ready \in {"none", "yes", "no"} /\ notified \in BOOLEAN /\ joined \in BOOLEAN)'
        /\ (main \in {"start", "asleep", "waiting", "serial", "gave up", "pool", "end"})'
        /\ (host \in {"starting", "loop", "ended"} /\ peer \in Calls \cup {None})'
    BY <1>1, <2>4 DEF TypeOK
  <2>7. (doing \in [Threads -> Calls \cup {None}])'
    BY <1>1, <2>1 DEF TypeOK
  <2>. QED
    BY <2>2, <2>3, <2>5, <2>6, <2>7 DEF TypeOK
<1>9. ASSUME NEW t \in Threads, Release(t)
      PROVE  TypeOK'
  BY <1>1, <1>9 DEF TypeOK, Release, brokerVars, links
<1>10. CASE UNCHANGED vars
  <2>1. UNCHANGED <<program, python, broker, status_ready, notified, joined, main, host, peer, mutex,
                    at, doing, submitted, answered>>
    BY <1>10 DEF vars, brokerVars, callVars
  <2>2. /\ broker \in {"started", "poll", "ready", "loop", "ended"}
        /\ status_ready \in {"none", "yes", "no"} /\ notified \in BOOLEAN /\ joined \in BOOLEAN
    BY <1>1 DEF TypeOK
  <2>. QED
    BY <1>1, <2>1, <2>2, TypeKept
<1>. QED
  BY <1>2, <1>3, <1>4, <1>5, <1>6, <1>7, <1>8, <1>9, <1>10 DEF Next, HostNext, CallNext

LEMMA MutexStep ==
  ASSUME MockupInv, [Next]_vars
  PROVE  MutexInv'
<1>1. TypeOK /\ MutexInv /\ None \notin Threads
  BY MockupAssumption DEF MockupInv
<1>2. CASE Elsewhere \/ HostAnswers \/ UNCHANGED vars
  BY <1>1, <1>2, ElsewhereKeeps DEF MutexInv, HostAnswers, vars, callVars
<1>3. ASSUME NEW t \in Threads, ActionDescribe(t)
      PROVE  MutexInv'
  BY <1>1, <1>3 DEF ActionDescribe, MutexInv, TypeOK
<1>4. ASSUME NEW t \in Threads, Acquire(t)
      PROVE  MutexInv'
  BY <1>1, <1>4 DEF Acquire, MutexInv, TypeOK
<1>5. ASSUME NEW t \in Threads, Send(t) \/ Receive(t)
      PROVE  MutexInv'
  BY <1>1, <1>5 DEF Send, Receive, MutexInv, TypeOK
<1>6. ASSUME NEW t \in Threads, Release(t)
      PROVE  MutexInv'
  BY <1>1, <1>6 DEF Release, MutexInv, TypeOK
<1>. QED
  BY <1>2, <1>3, <1>4, <1>5, <1>6 DEF Next, HostNext, CallNext, Elsewhere

LEMMA CallsStep ==
  ASSUME MockupInv, [Next]_vars
  PROVE  CallsInv'
<1>1. TypeOK /\ TypeOK' /\ CallsInv /\ WayInv /\ None \notin Calls
  BY TypeStep, MockupAssumption DEF MockupInv
<1>2. CASE Elsewhere \/ UNCHANGED vars
  BY <1>1, <1>2, ElsewhereKeeps DEF CallsInv, vars, callVars
<1>3. CASE HostAnswers
  <2>1. PICK t \in Threads : at[t] = "receiving" /\ doing[t] = peer
    BY <1>1, <1>3, PeerHasCall DEF HostAnswers
  <2>2. answered' = doing[t] /\ UNCHANGED <<at, doing, submitted>>
    BY <1>3, <2>1 DEF HostAnswers, callVars
  <2>. QED
    BY <1>1, <2>1, <2>2 DEF CallsInv
<1>4. ASSUME NEW t \in Threads, ActionDescribe(t)
      PROVE  CallsInv'
  <2>. DEFINE n == submitted + 1
  <2>1. /\ at[t] = "idle" /\ submitted' = n /\ doing'[t] = n /\ at'[t] = "acquiring"
        /\ \A u \in Threads \ {t} : doing'[u] = doing[u] /\ at'[u] = at[u]
        /\ answered' = answered
    BY <1>1, <1>4 DEF ActionDescribe, TypeOK
  <2>2. submitted \in Nat /\ answered \in Nat /\ answered <= submitted
    <3>1. submitted \in 0 .. MaxCalls /\ answered \in 0 .. MaxCalls
      BY <1>1 DEF TypeOK
    <3>2. answered <= submitted
      BY <1>1 DEF CallsInv
    <3>. QED
      BY <3>1, <3>2, MockupAssumption
  <2>3. \A u \in Threads : at[u] # "idle" => doing[u] \in Nat /\ doing[u] <= submitted
    <3>1. \A u \in Threads : at[u] # "idle" => doing[u] \in Calls
      BY <1>1 DEF TypeOK
    <3>2. \A u \in Threads : at[u] # "idle" => doing[u] <= submitted
      BY <1>1 DEF CallsInv
    <3>. QED
      BY <3>1, <3>2, MockupAssumption DEF Calls
  <2>4. /\ answered # n /\ answered <= n
        /\ \A u \in Threads : at[u] # "idle" => doing[u] # n /\ doing[u] <= n
    BY <2>2, <2>3
  <2>5. n <= n
    BY <2>2
  <2>. HIDE DEF n
  <2>. QED
    BY <1>1, <2>1, <2>4, <2>5 DEF CallsInv
<1>5. ASSUME NEW t \in Threads, Acquire(t) \/ Send(t) \/ Receive(t)
      PROVE  CallsInv'
  <2>1. /\ UNCHANGED <<doing, submitted, answered>> /\ at[t] # "idle"
        /\ at'[t] = "sending" => at[t] = "acquiring"
        /\ at'[t] # "acquiring"
        /\ \A u \in Threads \ {t} : at'[u] = at[u]
    BY <1>1, <1>5 DEF Acquire, Send, Receive, TypeOK
  <2>. QED
    BY <1>1, <2>1 DEF CallsInv
<1>6. ASSUME NEW t \in Threads, Release(t)
      PROVE  CallsInv'
  BY <1>1, <1>6 DEF Release, CallsInv, TypeOK
<1>. QED
  BY <1>2, <1>3, <1>4, <1>5, <1>6 DEF Next, HostNext, CallNext, Elsewhere

----------------------------------------------------------------------------
(* The way of a request and its answer.                                    *)

LEMMA HostStep ==
  ASSUME MockupInv, [Next]_vars
  PROVE  HostInv'
<1>1. TypeOK /\ HostInv /\ WayInv
  BY DEF MockupInv
<1>2. CASE \/ BrokerPolls \/ BrokerTimesOut \/ BrokerEntersLoop \/ BrokerFromSub
           \/ HostStarts \/ HostFails \/ HostReceives \/ HostAnswers \/ MainNext
           \/ (\E t \in Threads : CallNext(t)) \/ UNCHANGED vars
  BY <1>1, <1>2 DEF HostInv, BrokerPolls, BrokerTimesOut, BrokerEntersLoop, BrokerFromSub,
     HostStarts, HostFails, HostReceives, HostAnswers, MainNext, WaitForStatusReady, MainWakes,
     PoolEnds, CallNext, ActionDescribe, Acquire, Send, Receive, Release, vars, links
<1>3. CASE BrokerReceives \/ BrokerFromPair
  BY <1>1, <1>3 DEF HostInv, BrokerReceives, BrokerFromPair
<1>. QED
  BY <1>2, <1>3 DEF Next, BrokerNext, HostNext

\* Nothing moves.
LEMMA WayKept ==
  ASSUME WayInv, UNCHANGED <<up, down, toHost, toPlugin, peer, answered, doing>>,
         \A t \in Threads : at[t] = "receiving" => at'[t] = "receiving"
  PROVE  WayInv'
<1>1. CASE Quiet
  BY <1>1 DEF WayInv, Quiet, Announced
<1>2. ASSUME NEW t \in Threads, at[t] = "receiving", UnderWay(doing[t])
      PROVE  WayInv'
  <2>1. UnderWay(doing[t])'
    BY <1>2 DEF UnderWay, Announced
  <2>. QED
    BY <1>2, <2>1 DEF WayInv
<1>. QED
  BY <1>1, <1>2 DEF WayInv

\* The broker takes a message off its PAIR socket: the announcement, or the
\* answer, which is then lost or delivered.
LEMMA WayFromPair ==
  ASSUME WayInv, toPlugin # <<>>, toPlugin' = Tail(toPlugin),
         UNCHANGED <<up, toHost, peer, answered, doing, at>>,
         \/ down' = down
         \/ down' = IF Head(toPlugin) = RemoteHostStarted THEN down
                                                          ELSE Append(down, Head(toPlugin))
  PROVE  WayInv'
<1>1. CASE toPlugin = <<RemoteHostStarted>>
  <2>1. toPlugin' = <<>> /\ down' = down
    BY <1>1, ShortQueues
  <2>2. CASE Quiet
    BY <2>1, <2>2 DEF WayInv, Quiet, Announced
  <2>3. ASSUME NEW t \in Threads, at[t] = "receiving", UnderWay(doing[t])
        PROVE  WayInv'
    <3>1. <<RemoteHostStarted>> # <<Answer(doing[t])>>
          /\ <<RemoteHostStarted>> # <<RemoteHostStarted, Answer(doing[t])>>
      BY MessageKinds
    <3>2. UnderWay(doing[t])'
      BY <1>1, <2>1, <2>3, <3>1 DEF UnderWay, Announced
    <3>. QED
      BY <2>3, <3>2 DEF WayInv
  <2>. QED
    BY <2>2, <2>3 DEF WayInv
<1>2. CASE toPlugin # <<RemoteHostStarted>>
  <2>1. PICK t \in Threads :
          /\ at[t] = "receiving"
          /\ up = <<>> /\ toHost = <<>> /\ peer = None /\ down = <<>>
          /\ toPlugin \in {<<Answer(doing[t])>>, <<RemoteHostStarted, Answer(doing[t])>>}
          /\ answered = doing[t]
    BY <1>2 DEF WayInv, Quiet, UnderWay, Announced
  <2>. DEFINE a == Answer(doing[t])
  <2>2. CASE toPlugin = <<RemoteHostStarted, a>>
    <3>1. toPlugin' = <<a>> /\ down' = <<>>
      BY <2>1, <2>2, ShortQueues
    <3>2. UnderWay(doing[t])'
      BY <2>1, <3>1 DEF UnderWay
    <3>. QED
      BY <2>1, <3>2 DEF WayInv
  <2>3. CASE toPlugin = <<a>>
    <3>1. toPlugin' = <<>> /\ Head(toPlugin) = a /\ a # RemoteHostStarted
      BY <2>3, ShortQueues, MessageKinds
    <3>2. down' = <<>> \/ down' = <<a>>
      BY <2>1, <3>1, ShortQueues
    <3>3. CASE down' = <<>>
      BY <2>1, <3>1, <3>3 DEF WayInv, Quiet, Announced
    <3>4. CASE down' = <<a>>
      <4>1. UnderWay(doing[t])'
        BY <2>1, <3>1, <3>4 DEF UnderWay, Announced
      <4>. QED
        BY <2>1, <4>1 DEF WayInv
    <3>. QED
      BY <3>2, <3>3, <3>4
  <2>. QED
    BY <2>1, <2>2, <2>3
<1>. QED
  BY <1>1, <1>2

LEMMA WayStep ==
  ASSUME MockupInv, [Next]_vars
  PROVE  WayInv'
<1>1. /\ TypeOK /\ MutexInv /\ CallsInv /\ HostInv /\ WayInv
      /\ None \notin Threads /\ None \notin Calls
  BY MockupAssumption DEF MockupInv
<1>2. CASE \/ BrokerPolls \/ BrokerTimesOut \/ BrokerEntersLoop \/ HostFails \/ MainNext
           \/ UNCHANGED vars
  <2>1. UNCHANGED <<up, down, toHost, toPlugin, peer, answered, doing, at>>
    BY <1>2 DEF BrokerPolls, BrokerTimesOut, BrokerEntersLoop, HostFails, MainNext,
       WaitForStatusReady, MainWakes, PoolEnds, vars, links, callVars
  <2>. QED
    BY <1>1, <2>1, WayKept
<1>3. CASE BrokerReceives \/ BrokerFromPair
  <2>1. UNCHANGED <<up, toHost, peer, answered, doing, at>>
    BY <1>3 DEF BrokerReceives, BrokerFromPair, callVars
  <2>. QED
    BY <1>1, <1>3, <2>1, WayFromPair DEF BrokerReceives, BrokerFromPair
<1>4. CASE BrokerFromSub
  <2>1. PICK t \in Threads :
          /\ at[t] = "receiving" /\ up = <<Request(doing[t])>> /\ toHost = <<>>
          /\ peer = None /\ down = <<>> /\ Announced /\ answered # doing[t]
    BY <1>1, <1>4, ShortQueues DEF BrokerFromSub, WayInv, Quiet, UnderWay
  <2>2. /\ up' = <<>> /\ toHost' = <<Request(doing[t])>>
        /\ UNCHANGED <<peer, down, toPlugin, answered, doing, at>>
    BY <1>4, <2>1, ShortQueues DEF BrokerFromSub, callVars
  <2>3. UnderWay(doing[t])'
    BY <2>1, <2>2 DEF UnderWay, Announced
  <2>. QED
    BY <2>1, <2>2, <2>3 DEF WayInv
<1>5. CASE HostStarts
  <2>1. toPlugin = <<>> /\ peer = None
    BY <1>1, <1>5 DEF HostStarts, HostInv
  <2>2. /\ Announced' /\ UNCHANGED <<up, toHost, peer, down, answered, doing, at>>
    BY <1>5, <2>1, ShortQueues DEF HostStarts, Announced, callVars
  <2>3. CASE Quiet
    BY <2>2, <2>3 DEF WayInv, Quiet
  <2>4. ASSUME NEW t \in Threads, at[t] = "receiving", UnderWay(doing[t])
        PROVE  WayInv'
    <3>1. <<>> # <<Answer(doing[t])>> /\ <<>> # <<RemoteHostStarted, Answer(doing[t])>>
      BY ShortQueues
    <3>2. UnderWay(doing[t])'
      BY <2>1, <2>2, <2>4, <3>1 DEF UnderWay
    <3>. QED
      BY <2>2, <2>4, <3>2 DEF WayInv
  <2>. QED
    BY <1>1, <2>3, <2>4 DEF WayInv
<1>6. CASE HostReceives
  <2>1. PICK t \in Threads :
          /\ at[t] = "receiving" /\ up = <<>> /\ toHost = <<Request(doing[t])>>
          /\ down = <<>> /\ Announced /\ answered # doing[t]
    BY <1>1, <1>6, ShortQueues DEF HostReceives, WayInv, Quiet, UnderWay
  <2>2. /\ toHost' = <<>> /\ peer' = doing[t]
        /\ UNCHANGED <<up, down, toPlugin, answered, doing, at>>
    BY <1>6, <2>1, ShortQueues, MessageKinds DEF HostReceives, callVars
  <2>3. UnderWay(doing[t])'
    BY <2>1, <2>2 DEF UnderWay, Announced
  <2>. QED
    BY <2>1, <2>2, <2>3 DEF WayInv
<1>7. CASE HostAnswers
  <2>1. PICK t \in Threads : at[t] = "receiving" /\ doing[t] = peer
    BY <1>1, <1>7, PeerHasCall DEF HostAnswers
  <2>2. up = <<>> /\ toHost = <<>> /\ down = <<>> /\ Announced
    BY <1>1, <1>7, PeerHasCall DEF HostAnswers
  <2>3. /\ toPlugin' = Append(toPlugin, Answer(doing[t])) /\ peer' = None /\ answered' = doing[t]
        /\ UNCHANGED <<up, down, toHost, doing, at>>
    BY <1>7, <2>1 DEF HostAnswers, callVars, Answer
  <2>4. toPlugin' \in {<<Answer(doing[t])>>, <<RemoteHostStarted, Answer(doing[t])>>}
    BY <2>2, <2>3, ShortQueues DEF Announced
  <2>5. UnderWay(doing[t])'
    BY <2>2, <2>3, <2>4 DEF UnderWay
  <2>. QED
    BY <2>1, <2>3, <2>5 DEF WayInv
<1>8. ASSUME NEW t \in Threads, ActionDescribe(t)
      PROVE  WayInv'
  <2>1. /\ UNCHANGED <<up, down, toHost, toPlugin, peer, answered>> /\ at[t] = "idle"
        /\ \A u \in Threads \ {t} : at'[u] = at[u] /\ doing'[u] = doing[u]
    BY <1>1, <1>8 DEF ActionDescribe, links, TypeOK
  <2>2. CASE Quiet
    BY <2>1, <2>2 DEF WayInv, Quiet, Announced
  <2>3. ASSUME NEW u \in Threads, at[u] = "receiving", UnderWay(doing[u])
        PROVE  WayInv'
    <3>1. at'[u] = "receiving" /\ doing'[u] = doing[u]
      BY <2>1, <2>3
    <3>2. UnderWay(doing[u])'
      BY <2>1, <2>3, <3>1 DEF UnderWay, Announced
    <3>. QED
      BY <3>1, <3>2 DEF WayInv
  <2>. QED
    BY <1>1, <2>2, <2>3 DEF WayInv
<1>9. ASSUME NEW t \in Threads, Acquire(t)
      PROVE  WayInv'
  <2>1. /\ UNCHANGED <<up, down, toHost, toPlugin, peer, answered, doing>>
        /\ \A u \in Threads : at[u] = "receiving" => at'[u] = "receiving"
    BY <1>1, <1>9 DEF Acquire, links, TypeOK
  <2>. QED
    BY <1>1, <2>1, WayKept
<1>10. ASSUME NEW t \in Threads, Send(t)
       PROVE  WayInv'
  <2>1. Quiet
    <3>1. \A u \in Threads : at[u] # "receiving"
      BY <1>1, <1>10 DEF MutexInv, Send
    <3>. QED
      BY <1>1, <3>1 DEF WayInv
  <2>2. /\ up' = up \/ up' = Append(up, Request(doing[t]))
        /\ UNCHANGED <<down, toHost, toPlugin, peer, answered, doing>>
        /\ at'[t] = "receiving" /\ answered # doing[t]
    BY <1>1, <1>10 DEF Send, TypeOK, CallsInv, Request
  <2>3. CASE up' = up
    BY <2>1, <2>2, <2>3 DEF WayInv, Quiet, Announced
  <2>4. CASE up' = Append(up, Request(doing[t]))
    <3>1. up' = <<Request(doing[t])>>
      BY <2>1, <2>4, ShortQueues DEF Quiet
    <3>2. UnderWay(doing[t])'
      BY <2>1, <2>2, <3>1 DEF UnderWay, Quiet, Announced
    <3>. QED
      BY <2>2, <3>2 DEF WayInv
  <2>. QED
    BY <2>2, <2>3, <2>4
<1>11. ASSUME NEW t \in Threads, Receive(t)
       PROVE  WayInv'
  <2>1. PICK u \in Threads : at[u] = "receiving" /\ UnderWay(doing[u])
    BY <1>1, <1>11 DEF Receive, WayInv, Quiet
  <2>2. /\ up = <<>> /\ toHost = <<>> /\ peer = None /\ down = <<Answer(doing[u])>> /\ Announced
    BY <1>11, <2>1 DEF Receive, UnderWay
  <2>3. down' = <<>> /\ UNCHANGED <<up, toHost, toPlugin, peer>>
    BY <1>11, <2>2, ShortQueues DEF Receive
  <2>. QED
    BY <2>2, <2>3 DEF WayInv, Quiet, Announced
<1>12. ASSUME NEW t \in Threads, Release(t)
       PROVE  WayInv'
  <2>1. Quiet
    <3>1. \A u \in Threads : at[u] # "receiving"
      BY <1>1, <1>12 DEF MutexInv, Release
    <3>. QED
      BY <1>1, <3>1 DEF WayInv
  <2>2. UNCHANGED <<up, down, toHost, toPlugin, peer>>
    BY <1>12 DEF Release, links
  <2>. QED
    BY <2>1, <2>2 DEF WayInv, Quiet, Announced
<1>. QED
  BY <1>2, <1>3, <1>4, <1>5, <1>6, <1>7, <1>8, <1>9, <1>10, <1>11, <1>12
     DEF Next, BrokerNext, HostNext, CallNext

\* The message a thread receives answers its own call, the one answered last.
LEMMA OwnAnswer ==
  ASSUME MockupInv, NEW t \in Threads, Receive(t)
  PROVE  Head(down) = Answer(doing[t]) /\ answered = doing[t] /\ doing[t] \in Calls
<1>1. TypeOK /\ MutexInv /\ WayInv /\ at[t] = "receiving" /\ down # <<>>
  BY DEF MockupInv, Receive
<1>2. PICK u \in Threads : at[u] = "receiving" /\ UnderWay(doing[u])
  BY <1>1 DEF WayInv, Quiet
<1>3. down = <<Answer(doing[u])>> /\ answered = doing[u]
  BY <1>1, <1>2 DEF UnderWay
<1>4. u = t
  BY <1>1, <1>2 DEF MutexInv
<1>. QED
  BY <1>1, <1>3, <1>4, ShortQueues DEF TypeOK

LEMMA ResultStep ==
  ASSUME MockupInv, [Next]_vars
  PROVE  ResultInv'
<1>1. TypeOK /\ ResultInv /\ CallsInv
  BY DEF MockupInv
<1>2. CASE Elsewhere \/ HostAnswers \/ UNCHANGED vars
  <2>1. UNCHANGED <<at, doing, result>>
    BY <1>2, ElsewhereKeeps DEF HostAnswers, vars, callVars
  <2>. QED
    BY <1>1, <2>1 DEF ResultInv, AnswersMatch
<1>3. ASSUME NEW t \in Threads, ActionDescribe(t) \/ Acquire(t) \/ Send(t) \/ Release(t)
      PROVE  ResultInv'
  <2>1. /\ result' = result /\ at'[t] # "returning"
        /\ \A u \in Threads \ {t} : at'[u] = at[u] /\ doing'[u] = doing[u]
    BY <1>1, <1>3 DEF ActionDescribe, Acquire, Send, Release, TypeOK
  <2>. QED
    BY <1>1, <2>1 DEF ResultInv, AnswersMatch
<1>4. ASSUME NEW t \in Threads, Receive(t)
      PROVE  ResultInv'
  <2>1. Head(down) = Answer(doing[t]) /\ doing[t] \in Calls
    BY <1>4, OwnAnswer
  <2>2. /\ result' = [result EXCEPT ![doing[t]] = Answer(doing[t])]
        /\ at[t] # "idle" /\ doing' = doing
        /\ \A u \in Threads \ {t} : at'[u] = at[u]
    BY <1>1, <1>4, <2>1 DEF Receive, TypeOK
  <2>3. result' \in [Calls -> {None} \cup {Answer(n) : n \in Calls}]
    BY <1>1, <2>1, <2>2 DEF ResultInv
  <2>4. result'[doing[t]] = Answer(doing[t])
        /\ \A n \in Calls \ {doing[t]} : result'[n] = result[n]
    BY <1>1, <2>1, <2>2 DEF ResultInv
  <2>5. AnswersMatch'
    BY <1>1, <2>4 DEF ResultInv, AnswersMatch, Answer
  <2>6. ASSUME NEW u \in Threads, at'[u] = "returning"
        PROVE  result'[doing'[u]] = Answer(doing'[u])
    <3>1. CASE u = t
      BY <2>2, <2>4, <3>1
    <3>2. CASE u # t
      <4>1. at[u] = "returning" /\ doing[u] \in Calls \ {doing[t]}
        BY <1>1, <2>2, <2>6, <3>2 DEF TypeOK, CallsInv
      <4>. QED
        BY <1>1, <2>2, <2>4, <4>1 DEF ResultInv
    <3>. QED
      BY <3>1, <3>2
  <2>. QED
    BY <2>3, <2>5, <2>6 DEF ResultInv
<1>. QED
  BY <1>2, <1>3, <1>4 DEF Next, HostNext, CallNext, Elsewhere

LEMMA MockupInvariant == Spec => []MockupInv
<1>1. Init => MockupInv
  <2>. SUFFICES ASSUME Init PROVE MockupInv
    OBVIOUS
  <2>1. TypeOK
    <3>1. /\ program \in Programs /\ python \in Pythons
          /\ broker \in {"started", "poll", "ready", "loop", "ended"}
          /\ status_ready \in {"none", "yes", "no"} /\ notified \in BOOLEAN /\ joined \in BOOLEAN
          /\ main \in {"start", "asleep", "waiting", "serial", "gave up", "pool", "end"}
          /\ host \in {"starting", "loop", "ended"} /\ peer \in Calls \cup {None}
      BY DEF Init, PluginProgram, MainProgram
    <3>2. submitted \in 0 .. MaxCalls /\ answered \in 0 .. MaxCalls
      BY MockupAssumption DEF Init
    <3>3. /\ mutex \in Threads \cup {None}
          /\ at \in [Threads -> {"idle", "acquiring", "sending", "receiving", "returning"}]
          /\ doing \in [Threads -> Calls \cup {None}]
          /\ \A t \in Threads : at[t] = "idle" <=> doing[t] = None
      BY DEF Init
    <3>. QED
      BY <3>1, <3>2, <3>3 DEF TypeOK
  <2>2. CallsInv /\ MutexInv /\ HostInv
    BY MockupAssumption DEF Init, CallsInv, MutexInv, HostInv
  <2>3. WayInv
    BY DEF Init, WayInv, Quiet, Announced
  <2>4. ResultInv
    BY DEF Init, ResultInv, AnswersMatch
  <2>. QED
    BY <2>1, <2>2, <2>3, <2>4 DEF MockupInv
<1>2. MockupInv /\ [Next]_vars => MockupInv'
  BY TypeStep, MutexStep, CallsStep, HostStep, WayStep, ResultStep DEF MockupInv
<1>. QED
  BY <1>1, <1>2, PTL DEF Spec

\* Threads that share an instance of the mockup each take the answer to their
\* own call, although action_describe compares nothing: however late the
\* broker's subscription is, which loses requests, and whatever the broker
\* reads while it polls.
THEOREM AnswersMatchHolds == Spec => []AnswersMatch
<1>1. MockupInv => AnswersMatch
  BY DEF MockupInv, ResultInv
<1>. QED
  BY <1>1, MockupInvariant, PTL

----------------------------------------------------------------------------
(* The refinement of RemoteActions.                                        *)

\* The call of thread t as RemoteActions sees it.
ShownCall(t) ==
  IF doing[t] = None THEN None
  ELSE [eff |-> 0, act |-> "Describe", n |-> doing[t],
        outcome |-> IF at[t] # "returning" THEN "none"
                    ELSE IF result[doing[t]].type = "ActionDescribeEnd" THEN "OK" ELSE "Failed"]

ShownCalls == [t \in Threads |-> ShownCall(t)]
ShownTurn  == [e \in {0} |-> mutex]
ShownPerformed ==
  [e \in {0} |-> [n |-> answered, status |-> IF answered = 0 THEN "none" ELSE "OK"]]

\* A thread inside action_describe shows its call, which has an outcome once
\* its answer is there.
LEMMA ShownInside ==
  ASSUME MockupInv, NEW t \in Threads, at[t] # "idle"
  PROVE  /\ ShownCalls[t] = [eff |-> 0, act |-> "Describe", n |-> doing[t],
                             outcome |-> IF at[t] # "returning" THEN "none" ELSE "OK"]
         /\ ShownCalls[t].eff = 0 /\ (ShownCalls[t].outcome # "none" <=> at[t] = "returning")
         /\ ShownCalls[t] # None /\ doing[t] \in Calls
<1>1. doing[t] \in Calls /\ doing[t] # None
  BY DEF MockupInv, TypeOK
<1>2. at[t] = "returning" => result[doing[t]].type = "ActionDescribeEnd"
  BY MessageKinds DEF MockupInv, ResultInv
<1>3. ShownCalls[t] = [eff |-> 0, act |-> "Describe", n |-> doing[t],
                       outcome |-> IF at[t] # "returning" THEN "none" ELSE "OK"]
  BY <1>1, <1>2 DEF ShownCalls, ShownCall
<1>4. ShownCalls[t] \in RemoteCall
  BY <1>1, <1>3 DEF RemoteCall
<1>. QED
  BY <1>1, <1>3, <1>4, MockupAssumption

LEMMA ShownOutside ==
  ASSUME MockupInv, NEW t \in Threads, at[t] = "idle"
  PROVE  ShownCalls[t] = None
  BY DEF MockupInv, TypeOK, ShownCalls, ShownCall

LEMMA ShownKept ==
  ASSUME UNCHANGED <<doing, result>>, NEW t \in Threads,
         at'[t] = "returning" <=> at[t] = "returning"
  PROVE  ShownCalls'[t] = ShownCalls[t]
  BY DEF ShownCalls, ShownCall

LEMMA MockupStep ==
  ASSUME MockupInv, MockupInv', [Next]_vars
  PROVE  [Remote!Next]_(Remote!vars)
<1>1. /\ TypeOK /\ MutexInv /\ CallsInv /\ ResultInv
      /\ None \notin Threads /\ None \notin Calls /\ MaxCalls \in Nat /\ MaxCalls # 0
  BY MockupAssumption DEF MockupInv
<1>2. CASE Elsewhere \/ UNCHANGED vars
  <2>1. UNCHANGED <<mutex, at, doing, submitted, result, answered>>
    BY <1>2, ElsewhereKeeps DEF vars, callVars
  <2>. QED
    BY <2>1 DEF Remote!vars
<1>3. CASE HostAnswers
  <2>1. PICK t \in Threads : at[t] = "receiving" /\ doing[t] = peer
    BY <1>1, <1>3, PeerHasCall DEF HostAnswers, MockupInv
  <2>2. answered' = doing[t] /\ UNCHANGED <<mutex, at, doing, submitted, result>>
    BY <1>3, <2>1 DEF HostAnswers, callVars
  <2>3. /\ ShownCalls[t] # None /\ doing[t] \in Calls
        /\ ShownCalls[t] = [eff |-> 0, act |-> "Describe", n |-> doing[t], outcome |-> "none"]
    BY <2>1, ShownInside
  <2>4. ShownTurn[0] = t
    BY <1>1, <2>1 DEF MutexInv, ShownTurn
  <2>5. answered # doing[t] /\ doing[t] # 0
    BY <1>1, <1>3, <2>1, <2>3, PeerHasCall DEF HostAnswers, MockupInv, Calls
  <2>6. ShownPerformed[0].n # doing[t]
    BY <2>5 DEF ShownPerformed
  <2>7. ShownPerformed' = [ShownPerformed EXCEPT ![0] = [n |-> doing[t], status |-> "OK"]]
    BY <2>2, <2>5 DEF ShownPerformed
  <2>8. UNCHANGED <<ShownCalls, ShownTurn>>
    BY <2>2 DEF ShownCalls, ShownCall, ShownTurn
  <2>9. Remote!Perform(t, "OK")
    BY <2>2, <2>3, <2>4, <2>6, <2>7, <2>8
       DEF Remote!Perform, ShownCalls, ShownCall, ShownTurn, ShownPerformed
  <2>. QED
    BY <2>9 DEF Remote!Next
<1>4. ASSUME NEW t \in Threads, ActionDescribe(t)
      PROVE  Remote!Invoke(t, 0, "Describe")
  <2>. DEFINE n == submitted + 1
  <2>1. /\ at[t] = "idle" /\ submitted' = n /\ doing'[t] = n /\ at'[t] = "acquiring"
        /\ \A u \in Threads \ {t} : doing'[u] = doing[u] /\ at'[u] = at[u]
        /\ UNCHANGED <<answered, mutex, result>>
    BY <1>1, <1>4 DEF ActionDescribe, TypeOK
  <2>2. submitted < MaxCalls
    <3>1. submitted \in 0 .. MaxCalls
      BY <1>1 DEF TypeOK
    <3>2. submitted = 0 \/ submitted < MaxCalls
      BY <1>4 DEF ActionDescribe, SerialCall, PooledCall
    <3>. QED
      BY <1>1, <3>1, <3>2
  <2>. HIDE DEF n
  <2>3. ShownCalls[t] = None
    BY <2>1, ShownOutside
  <2>4. n # None
    BY <1>1, <2>1 DEF MockupInv, TypeOK
  <2>5. ShownCall(t)' = [eff |-> 0, act |-> "Describe", n |-> n, outcome |-> "none"]
    BY <2>1, <2>4 DEF ShownCall
  <2>6. \A u \in Threads \ {t} : ShownCall(u)' = ShownCall(u)
    BY <2>1 DEF ShownCall
  <2>7. ShownCalls' = [ShownCalls EXCEPT ![t] =
                         [eff |-> 0, act |-> "Describe", n |-> n, outcome |-> "none"]]
    BY <2>5, <2>6 DEF ShownCalls
  <2>8. UNCHANGED <<ShownTurn, ShownPerformed>>
    BY <2>1 DEF ShownTurn, ShownPerformed
  <2>. QED
    BY <2>1, <2>2, <2>3, <2>7, <2>8
       DEF Remote!Invoke, ShownCalls, ShownCall, ShownTurn, ShownPerformed, n
<1>5. ASSUME NEW t \in Threads, Acquire(t)
      PROVE  Remote!TakeTurn(t)
  <2>1. /\ at[t] = "acquiring" /\ mutex = None /\ mutex' = t
        /\ UNCHANGED <<doing, submitted, result, answered>>
        /\ \A u \in Threads : at'[u] = "returning" <=> at[u] = "returning"
    BY <1>1, <1>5 DEF Acquire, TypeOK
  <2>2. ShownCalls[t] # None /\ ShownCalls[t].eff = 0
    BY <2>1, ShownInside
  <2>3. ShownCalls' = ShownCalls
    BY <2>1, ShownKept DEF ShownCalls
  <2>4. ShownTurn' = [ShownTurn EXCEPT ![0] = t] /\ ShownTurn[0] = None
    BY <2>1 DEF ShownTurn
  <2>. QED
    BY <2>1, <2>2, <2>3, <2>4
       DEF Remote!TakeTurn, ShownCalls, ShownCall, ShownTurn, ShownPerformed
<1>6. ASSUME NEW t \in Threads, Send(t)
      PROVE  UNCHANGED Remote!vars
  <2>1. /\ UNCHANGED <<mutex, doing, submitted, result, answered>>
        /\ \A u \in Threads : at'[u] = "returning" <=> at[u] = "returning"
    BY <1>1, <1>6 DEF Send, TypeOK
  <2>2. ShownCalls' = ShownCalls
    BY <2>1, ShownKept DEF ShownCalls
  <2>. QED
    BY <2>1, <2>2 DEF Remote!vars, ShownCalls, ShownCall
<1>7. ASSUME NEW t \in Threads, Receive(t)
      PROVE  Remote!Conclude(t, "OK")
  <2>1. answered = doing[t] /\ doing[t] \in Calls
    BY <1>7, OwnAnswer
  <2>2. /\ at[t] = "receiving" /\ at'[t] = "returning"
        /\ UNCHANGED <<mutex, doing, submitted, answered>>
        /\ \A u \in Threads \ {t} : at'[u] = at[u]
        /\ \A n \in Calls \ {doing[t]} : result'[n] = result[n]
    BY <1>1, <1>7 DEF Receive, TypeOK, ResultInv
  <2>3. /\ ShownCalls[t] # None /\ ShownCalls[t].eff = 0 /\ ShownCalls[t].n = doing[t]
        /\ ShownCalls[t].act = "Describe" /\ ShownCalls[t].outcome = "none"
        /\ ShownCalls[t] = [eff |-> 0, act |-> "Describe", n |-> doing[t], outcome |-> "none"]
    BY <2>2, ShownInside
  <2>4. (ShownCalls')[t] = [eff |-> 0, act |-> "Describe", n |-> doing[t], outcome |-> "OK"]
    <3>1. result'[doing'[t]].type = "ActionDescribeEnd"
      BY <2>2, MessageKinds DEF MockupInv, ResultInv
    <3>2. doing'[t] # None
      BY <1>1, <2>1, <2>2
    <3>. QED
      BY <2>2, <3>1, <3>2 DEF ShownCalls, ShownCall
  <2>5. ASSUME NEW u \in Threads \ {t}
        PROVE  (ShownCalls')[u] = ShownCalls[u]
    <3>1. CASE at[u] = "idle"
      <4>1. doing'[u] = None /\ doing[u] = None
        BY <1>1, <2>2, <2>5, <3>1 DEF TypeOK
      <4>. QED
        BY <4>1 DEF ShownCalls, ShownCall
    <3>2. CASE at[u] # "idle"
      <4>1. doing[u] # doing[t] /\ doing[u] \in Calls
        BY <1>1, <2>2, <2>5, <3>2 DEF CallsInv, TypeOK
      <4>2. result'[doing[u]] = result[doing[u]]
        BY <2>2, <4>1
      <4>. QED
        BY <2>2, <4>2 DEF ShownCalls, ShownCall
    <3>. QED
      BY <3>1, <3>2
  <2>6. ShownCalls' = [ShownCalls EXCEPT ![t].outcome = "OK"]
    <3>1. [ShownCalls[t] EXCEPT !.outcome = "OK"]
            = [eff |-> 0, act |-> "Describe", n |-> doing[t], outcome |-> "OK"]
      BY <2>3
    <3>. QED
      BY <2>4, <2>5, <3>1 DEF ShownCalls
  <2>7. ShownPerformed[0] = [n |-> doing[t], status |-> "OK"] /\ ShownTurn[0] = t
    BY <1>1, <2>1, <2>2 DEF ShownPerformed, ShownTurn, Calls, MutexInv
  <2>. QED
    BY <2>2, <2>3, <2>6, <2>7
       DEF Remote!Conclude, ShownCalls, ShownCall, ShownTurn, ShownPerformed
<1>8. ASSUME NEW t \in Threads, Release(t)
      PROVE  Remote!Return(t)
  <2>1. /\ at[t] = "returning" /\ doing'[t] = None /\ mutex' = None
        /\ UNCHANGED <<submitted, result, answered>>
        /\ \A u \in Threads \ {t} : at'[u] = at[u] /\ doing'[u] = doing[u]
    BY <1>1, <1>8 DEF Release, TypeOK
  <2>2. ShownCalls[t] # None /\ ShownCalls[t].eff = 0 /\ ShownCalls[t].outcome # "none"
    BY <2>1, ShownInside
  <2>3. ShownCalls' = [ShownCalls EXCEPT ![t] = None]
    BY <2>1 DEF ShownCalls, ShownCall
  <2>4. ShownTurn' = [ShownTurn EXCEPT ![0] = None]
    BY <2>1 DEF ShownTurn
  <2>. QED
    BY <2>1, <2>2, <2>3, <2>4
       DEF Remote!Return, ShownCalls, ShownCall, ShownTurn, ShownPerformed
<1>. QED
  BY <1>2, <1>3, <1>4, <1>5, <1>6, <1>7, <1>8
     DEF Next, HostNext, CallNext, Elsewhere, Remote!Next

\* The mockup keeps the promise of the proxy: calls of the instance take
\* turns, the host instance describes once per call and only while its caller
\* is inside, and action_describe returns a success that was performed.
THEOREM ActsAsRemoteHolds == Spec => ActsAsRemote
<1>1. Init => Remote!Init
  <2>. SUFFICES ASSUME Init PROVE Remote!Init
    OBVIOUS
  <2>1. ShownCalls = [t \in Threads |-> None]
    BY DEF Init, ShownCalls, ShownCall
  <2>2. ShownTurn = [e \in {0} |-> None]
    BY DEF Init, ShownTurn
  <2>3. ShownPerformed = [e \in {0} |-> [n |-> 0, status |-> "none"]]
    BY DEF Init, ShownPerformed
  <2>. QED
    BY <2>1, <2>2, <2>3
       DEF Init, Remote!Init, ShownCalls, ShownCall, ShownTurn, ShownPerformed
<1>2. MockupInv /\ MockupInv' /\ [Next]_vars => [Remote!Next]_(Remote!vars)
  BY MockupStep
<1>. QED
  BY <1>1, <1>2, MockupInvariant, PTL DEF Spec, ActsAsRemote, Remote!Spec
=============================================================================
