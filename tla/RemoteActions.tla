--------------------------- MODULE RemoteActions ---------------------------
(***************************************************************************)
(* What the proxy plug-in promises the OFX host that calls MainEntry: a    *)
(* call behaves like a call of the remote plug-in's own MainEntry.  Calls  *)
(* of one effect take turns, the remote plug-in performs an action at most *)
(* once and only while its caller is still inside the call, and a call     *)
(* that returns kOfxStatOK was really performed, with that status.         *)
(* Nothing here says that a call returns.                                  *)
(***************************************************************************)
EXTENDS Naturals

CONSTANTS
  Threads,    \* OFX host threads that call into the plug-in
  Effects,    \* effects of the remote bundle
  Requests,   \* OFX actions the remote plug-in performs
  LocalOnly,  \* OFX actions the proxy answers by itself
  MaxCalls,   \* bound on the number of calls
  None

VARIABLES
  call,       \* call[t]: the call thread t is in, None outside of a call
  turn,       \* turn[e]: the thread whose call of effect e is under way
  performed,  \* performed[e]: the last action the remote performed for e
  calls       \* calls made so far; the n-th call has serial n

vars == <<call, turn, performed, calls>>

Init ==
  /\ call = [t \in Threads |-> None]
  /\ turn = [e \in Effects |-> None]
  /\ performed = [e \in Effects |-> [n |-> 0, status |-> "none"]]
  /\ calls = 0

Invoke(t, e, a) ==
  /\ call[t] = None
  /\ calls < MaxCalls
  /\ calls' = calls + 1
  /\ call' = [call EXCEPT ![t] =
                [eff |-> e, act |-> a, n |-> calls + 1, outcome |-> "none"]]
  /\ UNCHANGED <<turn, performed>>

TakeTurn(t) ==
  /\ call[t] # None
  /\ turn[call[t].eff] = None
  /\ turn' = [turn EXCEPT ![call[t].eff] = t]
  /\ UNCHANGED <<call, performed, calls>>

\* The remote plug-in performs the action of the call whose turn it is.
Perform(t, s) ==
  /\ call[t] # None
  /\ call[t].act \in Requests
  /\ call[t].outcome = "none"
  /\ turn[call[t].eff] = t
  /\ performed[call[t].eff].n # call[t].n
  /\ performed' = [performed EXCEPT ![call[t].eff] =
                     [n |-> call[t].n, status |-> s]]
  /\ UNCHANGED <<call, turn, calls>>

\* A call may fail for reasons of its own; it may claim success only for an
\* action that was performed successfully.
Conclude(t, o) ==
  /\ call[t] # None
  /\ call[t].outcome = "none"
  /\ turn[call[t].eff] = t
  /\ \/ o = "Failed"
     \/ call[t].act \in LocalOnly
     \/ performed[call[t].eff] = [n |-> call[t].n, status |-> "OK"]
  /\ call' = [call EXCEPT ![t].outcome = o]
  /\ UNCHANGED <<turn, performed, calls>>

Return(t) ==
  /\ call[t] # None
  /\ call[t].outcome # "none"
  /\ turn' = [turn EXCEPT ![call[t].eff] = None]
  /\ call' = [call EXCEPT ![t] = None]
  /\ UNCHANGED <<performed, calls>>

Next ==
  \E t \in Threads :
    \/ \E e \in Effects, a \in Requests \cup LocalOnly : Invoke(t, e, a)
    \/ TakeTurn(t)
    \/ \E s \in {"OK", "Failed"} : Perform(t, s) \/ Conclude(t, s)
    \/ Return(t)

Spec == Init /\ [][Next]_vars
============================================================================
