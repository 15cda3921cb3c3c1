--------------------------- MODULE PluginStartup ---------------------------
(***************************************************************************)
(* OfxSetBundleDirectory and OfxSetHost: the thread of the OFX host sets   *)
(* up the broker sockets, starts the broker thread, launches the remote    *)
(* host process and waits on a condition variable for the bundle           *)
(* definition that the broker thread receives from that process.           *)
(*                                                                         *)
(* A sequence of calls is modelled, by one thread as in the test host: a   *)
(* host may call again after a failure.  m_ofx_host is left out (nothing   *)
(* reads it), and so are the plug-in versions copied into the OfxPlugin    *)
(* structs.                                                                *)
(***************************************************************************)
EXTENDS Naturals, Sequences

CONSTANTS
  MaxPlugins,      \* MFX_PROXY_MAX_NUMBER_OF_PLUGINS
  BundleSizes,     \* numbers of plug-ins a remote bundle may have
  Faults,          \* what may go wrong with a call, "none" included
  MaxCalls,        \* bound on the number of calls
  None,
  AssertsOn,       \* a build without NDEBUG
  PairMayNotBind   \* binding the TCP socket may fail

\* A remote host that answers does so within the 5000 ms, unless it is slow;
\* and wait_for may return without a notification.
Answering == {"none", "slow", "spurious wakeup"}
Fault  == Answering \cup {"no config", "bad config", "no binary", "no launch", "no answer"}
Bundle == [fault : Faults, size : BundleSizes]
Socket == {"pub", "sub", "pair"}

ASSUME StartupAssumption ==
  /\ MaxPlugins \in Nat \ {0} /\ MaxCalls \in Nat
  /\ BundleSizes \subseteq Nat /\ Faults \subseteq Fault
  /\ None \notin Bundle /\ None \notin Nat
  /\ {AssertsOn, PairMayNotBind} \subseteq BOOLEAN

VARIABLES
  pc,                   \* where the OFX host's thread is
  bundle,               \* the bundle directory of the current or last call
  status,               \* what the last call returned
  calls,                \* number of calls
  bound,                \* broker sockets bound so far
  thread,               \* the broker thread
  remote,               \* the remote host process
  launched,             \* the bundle it was launched for
  m_plugin_definition,  \* number of plug-ins in it, None: null pointer
  i,                    \* loop index of "setup effects"
  m_effects,            \* the MfxProxyEffect objects, in order
  slots,                \* pluginIdentifier of gOfxPlugins[k]: a plug-in's index
  overrun               \* indices written beyond the end of gOfxPlugins

vars == <<pc, bundle, status, calls, bound, thread, remote, launched,
          m_plugin_definition, i, m_effects, slots, overrun>>

Locals  == <<bundle, calls>>
Broker  == <<bound, thread, remote, launched, m_plugin_definition>>
Effects == <<i, m_effects, slots, overrun>>

Init ==
  /\ pc = "idle" /\ bundle = None /\ status = "none" /\ calls = 0
  /\ bound = {} /\ thread = "none"
  /\ remote = "none" /\ launched = None
  /\ m_plugin_definition = None
  /\ i = 0 /\ m_effects = <<>> /\ overrun = {}
  /\ slots = [k \in 0 .. MaxPlugins - 1 |-> None]

----------------------------------------------------------------------------
(* The OFX host's thread.                                                  *)

\* Wrong variant: the failure paths clean up the effects.
FailCleaning ==
  /\ status' = "Failed"
  /\ pc' = IF AssertsOn THEN "aborted" ELSE "idle"
  /\ m_effects' = <<>>
  /\ UNCHANGED <<Locals, thread, remote, launched, m_plugin_definition, i, slots,
                 overrun>>

\* OfxSetHost returns kOfxStatFailed to OfxSetBundleDirectory, which asserts
\* kOfxStatOK.  Whatever was set up stays.
Fail ==
  /\ status' = "Failed"
  /\ pc' = IF AssertsOn THEN "aborted" ELSE "idle"
  /\ UNCHANGED <<Locals, thread, remote, launched, m_plugin_definition, Effects>>

\* The OFX host calls OfxSetBundleDirectory, which calls OfxSetHost with it.
OfxSetBundleDirectory(b) ==
  /\ pc = "idle"
  /\ calls < MaxCalls
  /\ calls' = calls + 1
  /\ bundle' = b
  /\ status' = "none"
  /\ pc' = "sockets"
  /\ UNCHANGED <<Broker, Effects>>

\* The exported OfxSetHost has no bundle directory to pass on and fails.
OfxSetHost ==
  /\ pc = "idle"
  /\ calls < MaxCalls
  /\ calls' = calls + 1
  /\ status' = "Failed"
  /\ UNCHANGED <<pc, bundle, Broker, Effects>>

\* Wrong variant: "address already in use" is not an error.
SetupSocketsAgain ==
  /\ pc = "sockets"
  /\ bound' = Socket
  /\ pc' = "thread"
  /\ UNCHANGED <<Locals, status, thread, remote, launched, m_plugin_definition,
                 Effects>>

\* bind throws on an inproc address that is taken, and the first socket bound
\* has one: after any earlier attempt setup_sockets fails at once.
SetupSockets ==
  /\ pc = "sockets"
  /\ \/ /\ "pub" \notin bound
        /\ bound' = Socket
        /\ pc' = "thread"
        /\ UNCHANGED <<Locals, status, thread, remote, launched,
                       m_plugin_definition, Effects>>
     \/ /\ "pub" \notin bound
        /\ PairMayNotBind
        /\ bound' = {"pub", "sub"}
        /\ Fail
     \/ /\ "pub" \in bound
        /\ UNCHANGED bound
        /\ Fail

\* Assigning to a std::thread that is still joinable calls std::terminate.
StartThread ==
  /\ pc = "thread"
  /\ IF thread = "none"
     THEN thread' = "receiving" /\ pc' = "files"
     ELSE thread' = thread /\ pc' = "terminated"
  /\ UNCHANGED <<Locals, status, bound, remote, launched, m_plugin_definition,
                 Effects>>

\* The configuration file and the host binary are looked for only now.
ReadBundle ==
  /\ pc = "files"
  /\ IF bundle.fault \in {"no config", "bad config", "no binary"}
     THEN Fail /\ UNCHANGED bound
     ELSE pc' = "launch" /\ UNCHANGED <<Locals, status, Broker, Effects>>

\* The constructor of child throws process_error, which nothing in the plug-in
\* catches, when the binary cannot be run: the OFX host catches it or dies.
LaunchRemote ==
  /\ pc = "launch"
  /\ IF bundle.fault = "no launch"
     THEN /\ pc' \in {"idle", "aborted"}
          /\ status' = "Exception"
          /\ UNCHANGED <<remote, launched>>
     ELSE /\ pc' = "wait"
          /\ remote' = "launched" /\ launched' = bundle
          /\ UNCHANGED status
  /\ UNCHANGED <<Locals, bound, thread, m_plugin_definition, Effects>>

\* get_plugin_definition locks the mutex and wait_for releases it: no step of
\* the broker thread comes in between.
BeginWait ==
  /\ pc = "wait"
  /\ pc' = "waiting"
  /\ UNCHANGED <<Locals, status, Broker, Effects>>

\* Wrong variant: wait instead of wait_for.
NeverTimesOut == FALSE

\* Whether wait_for times out: never while a prompt answer is still due, but
\* always in the end when the notification came before the wait began.
MayTimeOut ==
  launched.fault = "none" => m_plugin_definition # None

Wakes == pc = "notified" \/ (pc = "waiting" /\ MayTimeOut)

\* wait_for returns, and nobody has notified.
WakeSpuriously ==
  /\ pc = "waiting"
  /\ launched.fault = "spurious wakeup"
  /\ pc' = "notified"
  /\ UNCHANGED <<Locals, status, Broker, Effects>>

\* Wrong variant: a timeout is a failure whatever has been stored.
EndWaitTimeoutFails ==
  /\ Wakes
  /\ IF m_plugin_definition = None \/ pc = "waiting"
     THEN Fail /\ UNCHANGED bound
     ELSE /\ pc' = "define" /\ i' = 0
          /\ UNCHANGED <<Locals, status, Broker, m_effects, slots, overrun>>

\* Wrong variant: the pointer is not tested.
EndWaitUnchecked ==
  /\ Wakes
  /\ pc' = "define" /\ i' = 0
  /\ UNCHANGED <<Locals, status, Broker, m_effects, slots, overrun>>

\* wait_for has no predicate; timeout, notification and spurious wakeup all
\* lead to the pointer being read as it is then, under the mutex.
EndWait ==
  /\ Wakes
  /\ IF m_plugin_definition = None
     THEN Fail /\ UNCHANGED bound
     ELSE /\ pc' = "define" /\ i' = 0
          /\ UNCHANGED <<Locals, status, Broker, m_effects, slots, overrun>>

\* The move constructor of MfxProxyEffect keeps m_effect_id and m_broker, and
\* gives the new object an empty m_identifier.
Moved(effects) == [k \in DOMAIN effects |-> [effects[k] EXCEPT !.name = None]]

\* One round of the loop.  emplace_back moves the existing effects when the
\* vector has no capacity left, which is the library's choice.
DefineEffect ==
  /\ pc = "define"
  /\ m_plugin_definition # None
  /\ i < m_plugin_definition
  /\ i' = i + 1
  /\ IF i > MaxPlugins
     THEN UNCHANGED <<m_effects, slots, overrun>>
     ELSE /\ IF i \in DOMAIN slots
             THEN slots' = [slots EXCEPT ![i] = i] /\ UNCHANGED overrun
             ELSE overrun' = overrun \cup {i} /\ UNCHANGED slots
          /\ \E old \in {m_effects, Moved(m_effects)} :
               m_effects' = Append(old, [id |-> i, name |-> i])
  /\ UNCHANGED <<Locals, pc, status, Broker>>

Succeed ==
  /\ pc = "define"
  /\ m_plugin_definition # None => i >= m_plugin_definition
  /\ pc' = "idle" /\ status' = "OK"
  /\ UNCHANGED <<Locals, Broker, Effects>>

----------------------------------------------------------------------------
(* The remote host process and the broker thread.                          *)

\* The remote process connects, loads the library and announces its plug-ins.
RemoteHostStarted ==
  /\ remote = "launched"
  /\ launched.fault \in Answering
  /\ remote' = "announced"
  /\ UNCHANGED <<pc, status, Locals, bound, thread, launched, m_plugin_definition,
                 Effects>>

\* It cannot load the library and exits without a message.
RemoteExits ==
  /\ remote = "launched"
  /\ launched.fault = "no answer"
  /\ remote' = "exited"
  /\ UNCHANGED <<pc, status, Locals, bound, thread, launched, m_plugin_definition,
                 Effects>>

BrokerReceive ==
  /\ thread = "receiving"
  /\ remote = "announced"
  /\ thread' = "storing"
  /\ UNCHANGED <<pc, status, Locals, bound, remote, launched, m_plugin_definition,
                 Effects>>

\* swap and notify_all under m_plugin_definition_mutex.  A thread that is not
\* waiting yet misses the notification.
BrokerStore ==
  /\ thread = "storing"
  /\ m_plugin_definition' = launched.size
  /\ pc' = IF pc = "waiting" THEN "notified" ELSE pc
  /\ thread' = "main loop"
  /\ UNCHANGED <<status, Locals, bound, remote, launched, Effects>>

----------------------------------------------------------------------------
HostStep ==
  \/ SetupSockets \/ StartThread \/ ReadBundle \/ LaunchRemote \/ BeginWait
  \/ EndWait \/ DefineEffect \/ Succeed

\* The OFX host has made all its calls, or the process is gone.
Finished ==
  /\ pc \in {"aborted", "terminated"} \/ (pc = "idle" /\ calls = MaxCalls)
  /\ UNCHANGED vars

Next ==
  \/ \E b \in Bundle : OfxSetBundleDirectory(b)
  \/ OfxSetHost
  \/ HostStep
  \/ WakeSpuriously
  \/ RemoteHostStarted \/ RemoteExits
  \/ BrokerReceive \/ BrokerStore
  \/ Finished

Spec == Init /\ [][Next]_vars

----------------------------------------------------------------------------
(* Properties.                                                             *)

EffectsTypeOK ==
  /\ i \in Nat
  /\ m_effects \in Seq([id : Nat, name : Nat \cup {None}])
  /\ slots \in [0 .. MaxPlugins - 1 -> Nat \cup {None}]
  /\ overrun \subseteq Nat

TypeOK ==
  /\ pc \in {"idle", "sockets", "thread", "files", "launch", "wait", "waiting",
            "notified", "define", "aborted", "terminated"}
  /\ bundle \in Bundle \cup {None}
  /\ status \in {"none", "OK", "Failed", "Exception"}
  /\ calls \in 0 .. MaxCalls
  /\ bound \in SUBSET Socket
  /\ thread \in {"none", "receiving", "storing", "main loop"}
  /\ remote \in {"none", "launched", "announced", "exited"}
  /\ launched \in Bundle \cup {None}
  /\ m_plugin_definition \in BundleSizes \cup {None}
  /\ EffectsTypeOK

\* No sequence of calls assigns to a running std::thread, which would end the
\* OFX host in std::terminate: a retry after a failure stops at the sockets.
NoTerminate == pc # "terminated"

\* Everything an OFX host may rely on after a successful start: the broker
\* thread forwards messages, there is one effect for each plug-in the remote
\* host announced, and the entry point and the name that gOfxPlugins offers as
\* number k are those of plug-in k.
Ready ==
  /\ thread = "main loop"
  /\ launched # None
  /\ Len(m_effects) = launched.size
  /\ \A k \in 1 .. Len(m_effects) :
       m_effects[k].id = k - 1 /\ slots[k - 1] = k - 1

\* The effects are all there or not at all between calls, whatever failed,
\* timed out or was answered late, and after kOfxStatOK they are there.
AllOrNothing ==
  /\ status = "OK" => Ready
  /\ pc # "define" => m_effects = <<>> \/ Ready

\* A later call, which fails, takes nothing away from the plug-ins on offer.
PluginsFixed ==
  [][pc # "define" /\ m_effects # <<>> => UNCHANGED <<m_effects, slots>>]_vars

\* OfxSetHost gives up on a remote host that does not answer: every call ends.
SetHostReturns ==
  pc \notin {"idle", "aborted", "terminated"} ~>
    pc \in {"idle", "aborted", "terminated"}

\* Launching a remote host that answers within the 5000 ms makes the call
\* succeed, as long as no wakeup is spurious, so assert(status == kOfxStatOK) in OfxSetBundleDirectory holds:
\* a notification that comes before the wait is not missed in the end.
LaunchSucceeds ==
  /\ launched # None /\ launched.fault = "none"
  /\ pc \in {"idle", "aborted"}
  => Ready

\* Effects beyond MFX_PROXY_MAX_NUMBER_OF_PLUGINS are ignored, and each effect
\* has its OfxPlugin struct.
PluginsFit == Len(m_effects) <= MaxPlugins /\ overrun = {}

----------------------------------------------------------------------------
(* The inductive invariant.                                                *)

\* The first address stays bound, so only the first call that gets as far as
\* setup_sockets gets past it; what a call has not reached is untouched.
OnceInv ==
  /\ pc \in {"thread", "files", "launch", "wait", "waiting", "notified", "define"}
       \/ thread # "none" => "pub" \in bound
  /\ pc = "thread" => thread = "none"
  /\ pc \in {"files", "launch", "wait", "waiting", "notified", "define"} =>
       thread # "none"
  /\ pc \in {"sockets", "thread", "files", "launch"} => bundle # None
  /\ pc \in {"files", "launch"} => launched = None
  /\ pc \in {"wait", "waiting", "notified", "define"} => launched # None
  /\ thread = "none" => launched = None
  /\ status = "OK" => pc = "idle"
  /\ launched = None => remote = "none"

\* What the broker thread has stored is what the launched process announced.
StoredInv ==
  /\ thread = "storing" => remote = "announced"
  /\ thread = "main loop" <=> m_plugin_definition # None
  /\ m_plugin_definition # None =>
       launched # None /\ m_plugin_definition = launched.size

\* The loop has defined the effects 0 .. i - 1; outside it all are defined.
EffectsInv ==
  /\ m_plugin_definition = None => m_effects = <<>>
  /\ pc \in {"thread", "files", "launch", "wait", "waiting", "notified"} =>
       m_effects = <<>>
  /\ pc = "define" =>
       /\ m_plugin_definition # None
       /\ i <= m_plugin_definition
       /\ Len(m_effects) = i
  /\ \A k \in 1 .. Len(m_effects) :
       m_effects[k].id = k - 1 /\ slots[k - 1] = k - 1
  /\ overrun = {}

\* The call that launched the process waits for it, or is done.
WaitInv ==
  /\ pc = "notified" /\ launched.fault = "none" => m_plugin_definition # None
  /\ launched # None /\ launched.fault = "none" =>
       pc \in {"wait", "waiting", "notified", "define"} \/ Ready

StartupInv == TypeOK /\ OnceInv /\ StoredInv /\ EffectsInv /\ AllOrNothing
============================================================================
