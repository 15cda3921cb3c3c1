------------------------- MODULE HostSessionProofs -------------------------
(***************************************************************************)
(* Proofs about PluginStartup and HostSession, for every value of their    *)
(* constants.  Of the start: the type invariant; that no retry ends in     *)
(* std::terminate; and, when no remote bundle has more plug-ins than the   *)
(* array gOfxPlugins has room for, that a start is all or nothing whatever *)
(* fails or comes late, that later calls leave the plug-ins on offer       *)
(* alone, and that launching a prompt remote host makes the call succeed.  *)
(* Of the session, with such bundles: what an OFX host has been told of is *)
(* there and stays, and a host that goes by what it has been told meets no *)
(* fault but those of its instances.  They rest on the inductive invariant *)
(* of the start.                                                           *)
(***************************************************************************)
EXTENDS HostSession, SequenceTheorems, TLAPS

----------------------------------------------------------------------------
(* Sequences of effects.                                                   *)

EffectObject == [id : Nat, name : Nat \cup {None}]

\* Moving the effects to a larger vector keeps their number and their ids.
LEMMA MovedEffects ==
  ASSUME NEW s \in Seq(EffectObject)
  PROVE  /\ Moved(s) \in Seq(EffectObject)
         /\ Len(Moved(s)) = Len(s)
         /\ \A k \in 1 .. Len(s) : Moved(s)[k].id = s[k].id
<1>1. DOMAIN s = 1 .. Len(s) /\ Len(s) \in Nat
  OBVIOUS
<1>2. \A k \in 1 .. Len(s) : s[k] \in EffectObject
  OBVIOUS
<1>3. \A k \in 1 .. Len(s) :
        /\ [s[k] EXCEPT !.name = None] \in EffectObject
        /\ [s[k] EXCEPT !.name = None].id = s[k].id
  BY <1>2 DEF EffectObject
<1>4. Moved(s) \in [1 .. Len(s) -> EffectObject]
  BY <1>1, <1>3 DEF Moved
<1>5. Moved(s) \in Seq(EffectObject) /\ Len(Moved(s)) = Len(s)
  BY <1>1, <1>4, SeqDef, LenProperties
<1>. QED
  BY <1>1, <1>3, <1>5 DEF Moved

\* One round of the loop adds effect i at the end, whatever moves.
LEMMA DefinedEffects ==
  ASSUME EffectsTypeOK, DefineEffect, ~(i > MaxPlugins)
  PROVE  /\ m_effects' \in Seq(EffectObject)
         /\ Len(m_effects') = Len(m_effects) + 1
         /\ \A k \in 1 .. Len(m_effects) : m_effects'[k].id = m_effects[k].id
         /\ m_effects'[Len(m_effects) + 1].id = i
<1>1. m_effects \in Seq(EffectObject) /\ i \in Nat
  BY DEF EffectsTypeOK, EffectObject
<1>2. PICK old \in {m_effects, Moved(m_effects)} :
        m_effects' = Append(old, [id |-> i, name |-> i])
  BY DEF DefineEffect
<1>3. /\ old \in Seq(EffectObject)
      /\ Len(old) = Len(m_effects)
      /\ \A k \in 1 .. Len(m_effects) : old[k].id = m_effects[k].id
  BY <1>1, MovedEffects
<1>4. [id |-> i, name |-> i] \in EffectObject
  BY <1>1 DEF EffectObject
<1>5. /\ m_effects' \in Seq(EffectObject)
      /\ Len(m_effects') = Len(old) + 1
      /\ \A k \in 1 .. Len(old) : m_effects'[k] = old[k]
      /\ m_effects'[Len(old) + 1] = [id |-> i, name |-> i]
  BY <1>2, <1>3, <1>4, AppendProperties
<1>. QED
  BY <1>3, <1>5

----------------------------------------------------------------------------
(* The type invariant, and what only one call can do.                     *)

\* The values of the constants that the types mention.
\* Steps that leave the effects alone keep their types.
LEMMA SameEffects ==
  ASSUME EffectsTypeOK, UNCHANGED Effects
  PROVE  EffectsTypeOK'
BY DEF EffectsTypeOK, Effects

\* So does the loop.
LEMMA DefineEffectTypes ==
  ASSUME EffectsTypeOK, DefineEffect
  PROVE  EffectsTypeOK'
<1>. USE DEF EffectsTypeOK
<1>1. m_effects' \in Seq([id : Nat, name : Nat \cup {None}])
  <2>1. CASE i > MaxPlugins
    BY <2>1 DEF DefineEffect
  <2>2. CASE ~(i > MaxPlugins)
    BY <2>2, DefinedEffects DEF EffectObject
  <2>. QED
    BY <2>1, <2>2
<1>2. i' \in Nat
  BY DEF DefineEffect
<1>3. overrun' \subseteq Nat
  <2>1. overrun' = overrun \/ overrun' = overrun \cup {i}
    BY DEF DefineEffect
  <2>. QED
    BY <2>1
<1>4. slots' \in [0 .. MaxPlugins - 1 -> Nat \cup {None}]
  <2>1. slots' = slots \/ slots' = [slots EXCEPT ![i] = i]
    BY DEF DefineEffect
  <2>. QED
    BY <2>1
<1>. QED
  BY <1>1, <1>2, <1>3, <1>4

\* One more call stays within the bound.
LEMMA NextCall ==
  ASSUME calls \in 0 .. MaxCalls, calls < MaxCalls, calls' = calls + 1
  PROVE  calls' \in 0 .. MaxCalls
BY StartupAssumption

\* Each step keeps the types.
LEMMA TypeStep ==
  ASSUME TypeOK, OnceInv, StoredInv, [Next]_vars
  PROVE  TypeOK'
<1>. USE SameEffects DEF Socket
<1>1. ASSUME NEW b \in Bundle, OfxSetBundleDirectory(b)
      PROVE  TypeOK'
  <2>1. calls' \in 0 .. MaxCalls
    BY <1>1, NextCall DEF OfxSetBundleDirectory, TypeOK
  <2>. QED
    BY <1>1, <2>1 DEF OfxSetBundleDirectory, Broker, TypeOK
<1>2. CASE OfxSetHost
  <2>1. calls' \in 0 .. MaxCalls
    BY <1>2, NextCall DEF OfxSetHost, TypeOK
  <2>. QED
    BY <1>2, <2>1 DEF OfxSetHost, Broker, TypeOK
<1>3. CASE SetupSockets
  BY <1>3 DEF SetupSockets, Fail, Locals, Broker,
    TypeOK
<1>4. CASE StartThread
  BY <1>4 DEF StartThread, Locals, Broker,
    TypeOK
<1>5. CASE ReadBundle
  BY <1>5 DEF ReadBundle, Fail, Locals, Broker,
    TypeOK
<1>6. CASE LaunchRemote
  BY <1>6 DEF LaunchRemote, Locals, Broker,
    TypeOK
<1>7. CASE BeginWait
  BY <1>7 DEF BeginWait, Locals, Broker,
    TypeOK
<1>8. CASE EndWait
  <2>1. i' \in Nat
    <3>1. i \in Nat /\ (i' = i \/ i' = 0)
      BY <1>8 DEF EndWait, Fail, Effects, TypeOK, EffectsTypeOK
    <3>. QED
      BY <3>1
  <2>2. UNCHANGED <<m_effects, slots, overrun>>
    BY <1>8 DEF EndWait, Fail, Effects
  <2>3. EffectsTypeOK'
    BY <2>1, <2>2 DEF TypeOK, EffectsTypeOK
  <2>. QED
    BY <1>8, <2>3 DEF EndWait, Fail, Locals, Broker, TypeOK
<1>9. CASE DefineEffect
  <2>1. EffectsTypeOK'
    BY <1>9, DefineEffectTypes DEF TypeOK
  <2>. QED
    BY <1>9, <2>1 DEF DefineEffect, Locals, Broker, TypeOK
<1>10. CASE Succeed
  BY <1>10 DEF Succeed, Locals, Broker,
    TypeOK
<1>11. CASE WakeSpuriously
  BY <1>11 DEF WakeSpuriously, Locals, Broker,
    TypeOK
<1>12. CASE RemoteHostStarted
  BY <1>12 DEF RemoteHostStarted, Locals, Broker,
    TypeOK
<1>13. CASE RemoteExits
  BY <1>13 DEF RemoteExits, Locals, Broker,
    TypeOK
<1>14. CASE BrokerReceive
  BY <1>14 DEF BrokerReceive, Locals, Broker,
    TypeOK
<1>15. CASE BrokerStore
  <2>1. launched \in Bundle
    BY <1>15 DEF BrokerStore, TypeOK, OnceInv, StoredInv
  <2>2. m_plugin_definition' \in BundleSizes
    BY <1>15, <2>1 DEF BrokerStore, Bundle
  <2>. QED
    BY <1>15, <2>2 DEF BrokerStore, Locals, TypeOK
<1>16. CASE UNCHANGED vars
  <2>1. UNCHANGED Effects
    BY <1>16 DEF vars, Effects
  <2>2. UNCHANGED <<pc, status, Locals, Broker>>
    BY <1>16 DEF vars, Locals, Broker
  <2>. QED
    BY <2>1, <2>2 DEF Locals, Broker, TypeOK
<1>. QED
  BY <1>1, <1>2, <1>3, <1>4, <1>5, <1>6, <1>7, <1>8,
    <1>9, <1>10, <1>11, <1>12, <1>13, <1>14, <1>15, <1>16
  DEF Next, HostStep, Finished

\* Only one call gets past setup_sockets.
LEMMA OnceStep ==
  ASSUME TypeOK, OnceInv, [Next]_vars
  PROVE  OnceInv'
<1>. USE StartupAssumption DEF Socket
<1>1. ASSUME NEW b \in Bundle, OfxSetBundleDirectory(b)
      PROVE  OnceInv'
  BY <1>1 DEF OfxSetBundleDirectory, Broker, Effects, TypeOK, OnceInv
<1>2. CASE OfxSetHost
  BY <1>2 DEF OfxSetHost, Locals, Broker, Effects,
    TypeOK, OnceInv
<1>3. CASE SetupSockets
  BY <1>3 DEF SetupSockets, Fail, Locals, Broker, Effects,
    TypeOK, OnceInv
<1>4. CASE StartThread
  BY <1>4 DEF StartThread, Locals, Broker, Effects,
    TypeOK, OnceInv
<1>5. CASE ReadBundle
  BY <1>5 DEF ReadBundle, Fail, Locals, Broker, Effects,
    TypeOK, OnceInv
<1>6. CASE LaunchRemote
  BY <1>6 DEF LaunchRemote, Locals, Broker, Effects,
    TypeOK, OnceInv
<1>7. CASE BeginWait
  BY <1>7 DEF BeginWait, Locals, Broker, Effects,
    TypeOK, OnceInv
<1>8. CASE EndWait
  BY <1>8 DEF EndWait, Wakes, Fail, Locals, Broker, Effects,
    TypeOK, OnceInv
<1>9. CASE DefineEffect
  BY <1>9 DEF DefineEffect, Locals, Broker, Effects,
    TypeOK, OnceInv
<1>10. CASE Succeed
  BY <1>10 DEF Succeed, Locals, Broker, Effects,
    TypeOK, OnceInv
<1>11. CASE WakeSpuriously
  BY <1>11 DEF WakeSpuriously, Locals, Broker, Effects,
    TypeOK, OnceInv
<1>12. CASE RemoteHostStarted
  BY <1>12 DEF RemoteHostStarted, Locals, Broker, Effects,
    TypeOK, OnceInv
<1>13. CASE RemoteExits
  BY <1>13 DEF RemoteExits, Locals, Broker, Effects,
    TypeOK, OnceInv
<1>14. CASE BrokerReceive
  BY <1>14 DEF BrokerReceive, Locals, Broker, Effects,
    TypeOK, OnceInv
<1>15. CASE BrokerStore
  BY <1>15 DEF BrokerStore, Locals, Broker, Effects,
    TypeOK, OnceInv
<1>16. CASE UNCHANGED vars
  BY <1>16 DEF vars, TypeOK, OnceInv
<1>. QED
  BY <1>1, <1>2, <1>3, <1>4, <1>5, <1>6, <1>7, <1>8,
    <1>9, <1>10, <1>11, <1>12, <1>13, <1>14, <1>15, <1>16
  DEF Next, HostStep, Finished

\* What is stored stays what was announced.
LEMMA StoredStep ==
  ASSUME TypeOK, OnceInv, StoredInv, [Next]_vars
  PROVE  StoredInv'
<1>. USE StartupAssumption DEF Bundle
<1>1. ASSUME NEW b \in Bundle, OfxSetBundleDirectory(b)
      PROVE  StoredInv'
  BY <1>1 DEF OfxSetBundleDirectory, Broker, Effects, TypeOK, OnceInv, StoredInv
<1>2. CASE OfxSetHost
  BY <1>2 DEF OfxSetHost, Locals, Broker, Effects,
    TypeOK, OnceInv, StoredInv
<1>3. CASE SetupSockets
  BY <1>3 DEF SetupSockets, Fail, Locals, Broker, Effects,
    TypeOK, OnceInv, StoredInv
<1>4. CASE StartThread
  BY <1>4 DEF StartThread, Locals, Broker, Effects,
    TypeOK, OnceInv, StoredInv
<1>5. CASE ReadBundle
  BY <1>5 DEF ReadBundle, Fail, Locals, Broker, Effects,
    TypeOK, OnceInv, StoredInv
<1>6. CASE LaunchRemote
  BY <1>6 DEF LaunchRemote, Locals, Broker, Effects,
    TypeOK, OnceInv, StoredInv
<1>7. CASE BeginWait
  BY <1>7 DEF BeginWait, Locals, Broker, Effects,
    TypeOK, OnceInv, StoredInv
<1>8. CASE EndWait
  BY <1>8 DEF EndWait, Wakes, Fail, Locals, Broker, Effects,
    TypeOK, OnceInv, StoredInv
<1>9. CASE DefineEffect
  BY <1>9 DEF DefineEffect, Locals, Broker, Effects,
    TypeOK, OnceInv, StoredInv
<1>10. CASE Succeed
  BY <1>10 DEF Succeed, Locals, Broker, Effects,
    TypeOK, OnceInv, StoredInv
<1>11. CASE WakeSpuriously
  BY <1>11 DEF WakeSpuriously, Locals, Broker, Effects,
    TypeOK, OnceInv, StoredInv
<1>12. CASE RemoteHostStarted
  BY <1>12 DEF RemoteHostStarted, Locals, Broker, Effects,
    TypeOK, OnceInv, StoredInv
<1>13. CASE RemoteExits
  BY <1>13 DEF RemoteExits, Locals, Broker, Effects,
    TypeOK, OnceInv, StoredInv
<1>14. CASE BrokerReceive
  BY <1>14 DEF BrokerReceive, Locals, Broker, Effects,
    TypeOK, OnceInv, StoredInv
<1>15. CASE BrokerStore
  BY <1>15 DEF BrokerStore, Locals, Broker, Effects,
    TypeOK, OnceInv, StoredInv
<1>16. CASE UNCHANGED vars
  BY <1>16 DEF vars, TypeOK, OnceInv, StoredInv
<1>. QED
  BY <1>1, <1>2, <1>3, <1>4, <1>5, <1>6, <1>7, <1>8,
    <1>9, <1>10, <1>11, <1>12, <1>13, <1>14, <1>15, <1>16
  DEF Next, HostStep, Finished

----------------------------------------------------------------------------
(* What has been stored and defined.                                      *)

\* The room that gOfxPlugins has, as a bound on what the loop does.
BundlesFit == \A n \in BundleSizes : n <= MaxPlugins

\* A start that is complete stays so while nothing it is made of changes.
LEMMA SameReady ==
  ASSUME Ready, UNCHANGED <<thread, launched, m_effects, slots>>
  PROVE  Ready'
BY DEF Ready

\* The loop fills the next struct and adds the next effect.
LEMMA DefineEffectStep ==
  ASSUME TypeOK, BundlesFit, EffectsInv, DefineEffect
  PROVE  EffectsInv'
<1>. DEFINE Filled == \A k \in 1 .. Len(m_effects) :
                        m_effects[k].id = k - 1 /\ slots[k - 1] = k - 1
<1>1. /\ i \in Nat /\ MaxPlugins \in Nat /\ m_plugin_definition \in Nat
      /\ i < m_plugin_definition /\ m_plugin_definition <= MaxPlugins
      /\ Len(m_effects) = i
  BY StartupAssumption DEF DefineEffect, TypeOK, EffectsTypeOK, EffectsInv, BundlesFit
<1>2. i \in 0 .. MaxPlugins - 1 /\ ~(i > MaxPlugins)
  BY <1>1
<1>3. DOMAIN slots = 0 .. MaxPlugins - 1
  BY DEF TypeOK, EffectsTypeOK
<1>4. /\ slots' = [slots EXCEPT ![i] = i]
      /\ UNCHANGED overrun
      /\ i' = i + 1
      /\ UNCHANGED <<pc, m_plugin_definition>>
  BY <1>2, <1>3 DEF DefineEffect, Broker
<1>5. /\ Len(m_effects') = i + 1
      /\ \A k \in 1 .. i : m_effects'[k].id = m_effects[k].id
      /\ m_effects'[i + 1].id = i
  BY <1>1, <1>2, DefinedEffects DEF TypeOK
<1>6. Filled'
  <2>. SUFFICES ASSUME NEW k \in 1 .. i + 1
                PROVE  m_effects'[k].id = k - 1 /\ slots'[k - 1] = k - 1
    BY <1>5
  <2>1. CASE k = i + 1
    BY <1>1, <1>2, <1>3, <1>4, <1>5, <2>1
  <2>2. CASE k # i + 1
    <3>1. k \in 1 .. i /\ k - 1 \in 0 .. MaxPlugins - 1 /\ k - 1 # i
      BY <1>1, <1>2, <2>2
    <3>2. m_effects[k].id = k - 1 /\ slots[k - 1] = k - 1
      BY <1>1, <3>1 DEF EffectsInv
    <3>. QED
      BY <1>3, <1>4, <1>5, <3>1, <3>2
  <2>. QED
    BY <2>1, <2>2
<1>7. pc = "define" /\ m_plugin_definition # None
  BY DEF DefineEffect
<1>. QED
  BY <1>1, <1>4, <1>5, <1>6, <1>7 DEF EffectsInv

\* The effects defined are the plug-ins stored, in order.
LEMMA EffectsStep ==
  ASSUME TypeOK, BundlesFit, OnceInv, StoredInv, EffectsInv, [Next]_vars
  PROVE  EffectsInv'
<1>1. ASSUME NEW b \in Bundle, OfxSetBundleDirectory(b)
      PROVE  EffectsInv'
  BY <1>1 DEF OfxSetBundleDirectory, Broker, Effects, EffectsInv
<1>2. CASE OfxSetHost
  BY <1>2 DEF OfxSetHost, Locals, Broker, Effects,
    EffectsInv
<1>3. CASE SetupSockets
  <2>1. pc' = "thread" => m_effects = <<>>
    BY <1>3 DEF SetupSockets, Fail, OnceInv, StoredInv, EffectsInv
  <2>2. pc' \notin {"define", "files", "launch", "wait", "waiting", "notified"}
    BY <1>3 DEF SetupSockets, Fail
  <2>3. UNCHANGED <<m_plugin_definition, Effects>>
    BY <1>3 DEF SetupSockets, Fail
  <2>. QED
    BY <2>1, <2>2, <2>3 DEF Effects, EffectsInv
<1>4. CASE StartThread
  BY <1>4 DEF StartThread, Locals, Broker, Effects,
    EffectsInv
<1>5. CASE ReadBundle
  BY <1>5 DEF ReadBundle, Fail, Locals, Broker, Effects,
    EffectsInv
<1>6. CASE LaunchRemote
  BY <1>6 DEF LaunchRemote, Locals, Broker, Effects,
    EffectsInv
<1>7. CASE BeginWait
  BY <1>7 DEF BeginWait, Locals, Broker, Effects,
    EffectsInv
<1>8. CASE EndWait
  <2>1. CASE m_plugin_definition = None
    BY <1>8, <2>1 DEF EndWait, Wakes, Fail, Locals, Broker, Effects, EffectsInv
  <2>2. CASE m_plugin_definition # None
    <3>1. m_plugin_definition \in Nat
      BY <2>2, StartupAssumption DEF TypeOK
    <3>2. m_effects = <<>>
      BY <1>8 DEF EndWait, Wakes, EffectsInv
    <3>. QED
      BY <1>8, <2>2, <3>1, <3>2 DEF EndWait, Broker, EffectsInv
  <2>. QED
    BY <2>1, <2>2
<1>9. CASE DefineEffect
  BY <1>9, DefineEffectStep
<1>10. CASE Succeed
  BY <1>10 DEF Succeed, Locals, Broker, Effects,
    EffectsInv
<1>11. CASE WakeSpuriously
  BY <1>11 DEF WakeSpuriously, Locals, Broker, Effects,
    EffectsInv
<1>12. CASE RemoteHostStarted
  BY <1>12 DEF RemoteHostStarted, Locals, Broker, Effects,
    EffectsInv
<1>13. CASE RemoteExits
  BY <1>13 DEF RemoteExits, Locals, Broker, Effects,
    EffectsInv
<1>14. CASE BrokerReceive
  BY <1>14 DEF BrokerReceive, Locals, Broker, Effects,
    EffectsInv
<1>15. CASE BrokerStore
  <2>1. m_plugin_definition = None
    BY <1>15 DEF BrokerStore, StoredInv
  <2>2. m_plugin_definition' # None
    BY <1>15, StartupAssumption DEF BrokerStore, StoredInv, OnceInv, TypeOK, Bundle
  <2>3. m_effects' = <<>> /\ pc' # "define" /\ overrun' = {}
    BY <1>15, <2>1 DEF BrokerStore, Effects, EffectsInv
  <2>. QED
    BY <2>2, <2>3 DEF EffectsInv
<1>16. CASE UNCHANGED vars
  BY <1>16 DEF vars, EffectsInv
<1>. QED
  BY <1>1, <1>2, <1>3, <1>4, <1>5, <1>6, <1>7, <1>8,
    <1>9, <1>10, <1>11, <1>12, <1>13, <1>14, <1>15, <1>16
  DEF Next, HostStep, Finished

\* The loop ends when every plug-in has its effect.
LEMMA LoopEnds ==
  ASSUME TypeOK, StoredInv, EffectsInv, Succeed
  PROVE  Ready
<1>1. /\ i >= m_plugin_definition /\ i <= m_plugin_definition
      /\ Len(m_effects) = i
  BY DEF Succeed, EffectsInv
<1>2. /\ thread = "main loop" /\ launched # None
      /\ m_plugin_definition = launched.size
  BY DEF Succeed, EffectsInv, StoredInv
<1>3. i \in Int /\ m_plugin_definition \in Int
  <2>1. i \in Nat
    BY DEF TypeOK, EffectsTypeOK
  <2>2. m_plugin_definition # None
    BY DEF Succeed, EffectsInv
  <2>3. m_plugin_definition \in Nat
    BY <2>2, StartupAssumption DEF TypeOK
  <2>. QED
    BY <2>1, <2>3
<1>4. Len(m_effects) = m_plugin_definition
  BY <1>1, <1>3
<1>. QED
  BY <1>2, <1>4 DEF Ready, EffectsInv

\* A start is complete when the loop ends, and stays so.
LEMMA AllOrNothingStep ==
  ASSUME TypeOK, OnceInv, StoredInv, EffectsInv, AllOrNothing, [Next]_vars
  PROVE  AllOrNothing'
<1>. USE SameReady DEF AllOrNothing
<1>1. ASSUME NEW b \in Bundle, OfxSetBundleDirectory(b)
      PROVE  AllOrNothing'
  BY <1>1 DEF OfxSetBundleDirectory, Broker, Effects, OnceInv
<1>2. CASE OfxSetHost
  BY <1>2 DEF OfxSetHost, Locals, Broker, Effects,
    OnceInv
<1>3. CASE SetupSockets
  BY <1>3 DEF SetupSockets, Fail, Locals, Broker, Effects,
    OnceInv
<1>4. CASE StartThread
  <2>1. m_effects = <<>> /\ status # "OK"
    BY <1>4 DEF StartThread, OnceInv, EffectsInv
  <2>. QED
    BY <1>4, <2>1 DEF StartThread, Effects
<1>5. CASE ReadBundle
  BY <1>5 DEF ReadBundle, Fail, Locals, Broker, Effects,
    OnceInv
<1>6. CASE LaunchRemote
  <2>1. m_effects = <<>> /\ status # "OK"
    BY <1>6 DEF LaunchRemote, OnceInv, StoredInv, EffectsInv
  <2>. QED
    BY <1>6, <2>1 DEF LaunchRemote, Effects
<1>7. CASE BeginWait
  BY <1>7 DEF BeginWait, Locals, Broker, Effects,
    OnceInv
<1>8. CASE EndWait
  <2>1. m_effects = <<>>
    BY <1>8 DEF EndWait, Wakes, EffectsInv
  <2>2. m_effects' = <<>> /\ status' # "OK"
    BY <1>8, <2>1 DEF EndWait, Wakes, Fail, Effects, OnceInv
  <2>. QED
    BY <2>2
<1>9. CASE DefineEffect
  BY <1>9 DEF DefineEffect, OnceInv
<1>10. CASE Succeed
  <2>1. Ready
    BY <1>10, LoopEnds
  <2>. QED
    BY <1>10, <2>1 DEF Succeed, Broker, Effects
<1>11. CASE WakeSpuriously
  BY <1>11 DEF WakeSpuriously, Locals, Broker, Effects,
    OnceInv
<1>12. CASE RemoteHostStarted
  BY <1>12 DEF RemoteHostStarted, Locals, Broker, Effects,
    OnceInv
<1>13. CASE RemoteExits
  BY <1>13 DEF RemoteExits, Locals, Broker, Effects,
    OnceInv
<1>14. CASE BrokerReceive
  <2>1. m_effects = <<>> /\ status # "OK"
    BY <1>14 DEF BrokerReceive, Ready, StoredInv, EffectsInv
  <2>. QED
    BY <1>14, <2>1 DEF BrokerReceive, Effects
<1>15. CASE BrokerStore
  <2>1. m_effects = <<>> /\ status # "OK"
    BY <1>15 DEF BrokerStore, Ready, StoredInv, EffectsInv
  <2>. QED
    BY <1>15, <2>1 DEF BrokerStore, Effects
<1>16. CASE UNCHANGED vars
  BY <1>16 DEF vars, OnceInv
<1>. QED
  BY <1>1, <1>2, <1>3, <1>4, <1>5, <1>6, <1>7, <1>8,
    <1>9, <1>10, <1>11, <1>12, <1>13, <1>14, <1>15, <1>16
  DEF Next, HostStep, Finished

----------------------------------------------------------------------------
(* The theorems about the start.                                          *)

\* Before any call nothing has been set up.
LEMMA StartupInit ==
  ASSUME Init
  PROVE  StartupInv
<1>1. EffectsTypeOK
  BY EmptySeq DEF Init, EffectsTypeOK
<1>2. TypeOK
  BY <1>1, StartupAssumption DEF Init, TypeOK
<1>3. OnceInv /\ StoredInv
  BY DEF Init, OnceInv, StoredInv
<1>4. Len(m_effects) = 0
  BY DEF Init
<1>5. EffectsInv /\ AllOrNothing
  BY <1>4 DEF Init, EffectsInv, AllOrNothing
<1>. QED
  BY <1>2, <1>3, <1>5 DEF StartupInv

\* Every value a variable takes is one the code can give it, for bundles of
\* any size, those with too many plug-ins included.
THEOREM TypeCorrect == Spec => []TypeOK
<1>. DEFINE Inv == TypeOK /\ OnceInv /\ StoredInv
<1>1. Init => Inv
  BY StartupInit DEF StartupInv
<1>2. Inv /\ [Next]_vars => Inv'
  BY TypeStep, OnceStep, StoredStep
<1>3. Inv => TypeOK
  OBVIOUS
<1>. QED
  BY <1>1, <1>2, <1>3, PTL DEF Spec

\* OfxSetHost never assigns to a running std::thread, whatever the calls, their
\* failures and the sizes of the bundles are.
THEOREM NoTerminateHolds == Spec => []NoTerminate
<1>. DEFINE Inv == TypeOK /\ OnceInv /\ StoredInv /\ NoTerminate
<1>1. Init => Inv
  BY StartupInit DEF StartupInv, Init, NoTerminate
<1>2. ASSUME Inv, [Next]_vars
      PROVE  NoTerminate'
  <2>. USE <1>2 DEF NoTerminate
  <2>1. CASE StartThread
    BY <2>1 DEF StartThread, OnceInv
  <2>2. CASE UNCHANGED vars
    BY <2>2 DEF vars
  <2>3. ASSUME NEW b \in Bundle, OfxSetBundleDirectory(b)
        PROVE  NoTerminate'
    BY <2>3 DEF OfxSetBundleDirectory
  <2>4. CASE SetupSockets \/ ReadBundle \/ EndWait
    BY <2>4 DEF SetupSockets, ReadBundle, EndWait, Fail, Locals
  <2>5. CASE OfxSetHost \/ BeginWait \/ LaunchRemote \/ DefineEffect \/ Succeed
              \/ WakeSpuriously
    BY <2>5 DEF OfxSetHost, BeginWait, LaunchRemote, DefineEffect, Succeed,
      WakeSpuriously
  <2>6. CASE RemoteHostStarted \/ RemoteExits \/ BrokerReceive \/ BrokerStore
    BY <2>6 DEF RemoteHostStarted, RemoteExits, BrokerReceive, BrokerStore
  <2>. QED
    BY <2>1, <2>2, <2>3, <2>4, <2>5, <2>6 DEF Next, HostStep, Finished
<1>3. Inv /\ [Next]_vars => Inv'
  BY <1>2, TypeStep, OnceStep, StoredStep
<1>. QED
  BY <1>1, <1>3, PTL DEF Spec

\* One step of all the parts of the invariant.
LEMMA StartupStep ==
  ASSUME BundlesFit, StartupInv, [Next]_vars
  PROVE  StartupInv'
BY TypeStep, OnceStep, StoredStep, EffectsStep, AllOrNothingStep DEF StartupInv

\* With bundles that fit, the effects are all there or not at all between
\* calls, and each is reached through its own OfxPlugin struct.
THEOREM AllOrNothingHolds ==
  ASSUME BundlesFit
  PROVE  Spec => []AllOrNothing
<1>1. Init => StartupInv
  BY StartupInit
<1>2. StartupInv /\ [Next]_vars => StartupInv'
  BY StartupStep
<1>3. StartupInv => AllOrNothing
  BY DEF StartupInv
<1>. QED
  BY <1>1, <1>2, <1>3, PTL DEF Spec

\* With bundles that fit, nothing is written beyond the end of gOfxPlugins.
THEOREM PluginsFitHolds ==
  ASSUME BundlesFit
  PROVE  Spec => []PluginsFit
<1>1. Init => StartupInv
  BY StartupInit
<1>2. StartupInv /\ [Next]_vars => StartupInv'
  BY StartupStep
<1>3. ASSUME StartupInv
      PROVE  PluginsFit
  <2>. USE <1>3 DEF StartupInv
  <2>1. MaxPlugins \in Nat
    BY StartupAssumption
  <2>2. CASE m_plugin_definition = None
    <3>1. Len(m_effects) = 0 /\ overrun = {}
      BY <2>2 DEF EffectsInv
    <3>. QED
      BY <2>1, <3>1 DEF PluginsFit
  <2>3. CASE m_plugin_definition # None
    <3>1. /\ m_plugin_definition \in Nat /\ m_plugin_definition <= MaxPlugins
          /\ m_plugin_definition = launched.size
      BY <2>3, StartupAssumption DEF TypeOK, StoredInv, BundlesFit
    <3>2. Len(m_effects) <= m_plugin_definition
      <4>1. CASE pc = "define"
        BY <4>1 DEF EffectsInv
      <4>2. CASE m_effects = <<>>
        BY <3>1, <4>2
      <4>3. CASE Ready
        <5>1. Len(m_effects) = launched.size
          BY <4>3 DEF Ready
        <5>. QED
          BY <3>1, <5>1
      <4>. QED
        BY <4>1, <4>2, <4>3 DEF AllOrNothing
    <3>3. Len(m_effects) \in Nat
      BY LenProperties DEF TypeOK, EffectsTypeOK
    <3>4. Len(m_effects) <= MaxPlugins
      BY <2>1, <3>1, <3>2, <3>3
    <3>. QED
      BY <3>4 DEF PluginsFit, EffectsInv
  <2>. QED
    BY <2>2, <2>3
<1>4. StartupInv => PluginsFit
  BY <1>3
<1>. QED
  BY <1>1, <1>2, <1>4, PTL DEF Spec

\* With bundles that fit, no later call changes the plug-ins on offer.
THEOREM PluginsFixedHolds ==
  ASSUME BundlesFit
  PROVE  Spec => PluginsFixed
<1>1. Init => StartupInv
  BY StartupInit
<1>2. StartupInv /\ [Next]_vars => StartupInv'
  BY StartupStep
<1>3. ASSUME StartupInv, [Next]_vars, pc # "define"
      PROVE  UNCHANGED <<m_effects, slots>>
  <2>. USE <1>3 DEF Effects, Locals
  <2>1. ASSUME NEW b \in Bundle, OfxSetBundleDirectory(b)
        PROVE  UNCHANGED <<m_effects, slots>>
    BY <2>1 DEF OfxSetBundleDirectory
  <2>2. CASE SetupSockets \/ ReadBundle \/ EndWait
    BY <2>2 DEF SetupSockets, ReadBundle, EndWait, Fail
  <2>3. CASE OfxSetHost \/ StartThread \/ BeginWait \/ LaunchRemote
              \/ DefineEffect \/ Succeed \/ WakeSpuriously
    BY <2>3 DEF OfxSetHost, StartThread, BeginWait, LaunchRemote, DefineEffect,
      Succeed, WakeSpuriously
  <2>4. CASE RemoteHostStarted \/ RemoteExits \/ BrokerReceive \/ BrokerStore
    BY <2>4 DEF RemoteHostStarted, RemoteExits, BrokerReceive, BrokerStore
  <2>5. CASE UNCHANGED vars
    BY <2>5 DEF vars
  <2>. QED
    BY <2>1, <2>2, <2>3, <2>4, <2>5 DEF Next, HostStep, Finished
<1>4. StartupInv /\ [Next]_vars =>
        [pc # "define" /\ m_effects # <<>> => UNCHANGED <<m_effects, slots>>]_vars
  BY <1>3
<1>. QED
  BY <1>1, <1>2, <1>4, PTL DEF Spec, PluginsFixed

\* The call that launches a prompt remote host does not give up on it.
LEMMA WaitStep ==
  ASSUME StartupInv, WaitInv, [Next]_vars
  PROVE  WaitInv'
<1>. USE SameReady DEF WaitInv, StartupInv
<1>1. ASSUME NEW b \in Bundle, OfxSetBundleDirectory(b)
      PROVE  WaitInv'
  BY <1>1 DEF OfxSetBundleDirectory, Broker, Effects, OnceInv, StoredInv
<1>2. CASE OfxSetHost
  BY <1>2 DEF OfxSetHost, Locals, Broker, Effects,
    OnceInv, StoredInv
<1>3. CASE SetupSockets
  BY <1>3 DEF SetupSockets, Fail, Locals, Broker, Effects,
    OnceInv, StoredInv
<1>4. CASE StartThread
  BY <1>4 DEF StartThread, Locals, Broker, Effects,
    OnceInv, StoredInv
<1>5. CASE ReadBundle
  BY <1>5 DEF ReadBundle, Fail, Locals, Broker, Effects,
    OnceInv, StoredInv
<1>6. CASE LaunchRemote
  BY <1>6 DEF LaunchRemote, Locals, Broker, Effects,
    OnceInv, StoredInv
<1>7. CASE BeginWait
  BY <1>7 DEF BeginWait, Locals, Broker, Effects,
    OnceInv, StoredInv
<1>8. CASE EndWait
  <2>1. CASE m_plugin_definition = None
    <3>1. launched.fault # "none"
      BY <1>8, <2>1 DEF EndWait, Wakes, MayTimeOut
    <3>2. pc' # "notified" /\ launched' = launched
      BY <1>8, <2>1 DEF EndWait, Fail
    <3>. QED
      BY <3>1, <3>2
  <2>2. CASE m_plugin_definition # None
    BY <1>8, <2>2 DEF EndWait
  <2>. QED
    BY <2>1, <2>2
<1>9. CASE DefineEffect
  BY <1>9 DEF DefineEffect, Locals, Broker, Effects,
    OnceInv, StoredInv
<1>10. CASE Succeed
  <2>1. Ready
    BY <1>10, LoopEnds
  <2>2. Ready'
    BY <1>10, <2>1 DEF Succeed, Broker, Effects
  <2>. QED
    BY <1>10, <2>2 DEF Succeed, Broker
<1>11. CASE WakeSpuriously
  BY <1>11 DEF WakeSpuriously, Locals, Broker, Effects,
    OnceInv, StoredInv
<1>12. CASE RemoteHostStarted
  BY <1>12 DEF RemoteHostStarted, Locals, Broker, Effects,
    OnceInv, StoredInv
<1>13. CASE RemoteExits
  BY <1>13 DEF RemoteExits, Locals, Broker, Effects,
    OnceInv, StoredInv
<1>14. CASE BrokerReceive
  <2>1. ~Ready
    BY <1>14 DEF BrokerReceive, Ready
  <2>. QED
    BY <1>14, <2>1 DEF BrokerReceive
<1>15. CASE BrokerStore
  <2>1. ~Ready
    BY <1>15 DEF BrokerStore, Ready
  <2>2. m_plugin_definition' # None
    BY <1>15, StartupAssumption DEF BrokerStore, StoredInv, OnceInv, TypeOK, Bundle
  <2>3. UNCHANGED launched /\ pc' \in {pc, "notified"}
    BY <1>15 DEF BrokerStore
  <2>. QED
    BY <2>1, <2>2, <2>3
<1>16. CASE UNCHANGED vars
  BY <1>16 DEF vars, OnceInv, StoredInv
<1>. QED
  BY <1>1, <1>2, <1>3, <1>4, <1>5, <1>6, <1>7, <1>8,
    <1>9, <1>10, <1>11, <1>12, <1>13, <1>14, <1>15, <1>16
  DEF Next, HostStep, Finished

\* A remote host that answers within the 5000 ms, and bundles that fit, make
\* the call succeed that launches it: wait_for without a predicate loses
\* nothing as long as no wakeup is spurious.
THEOREM LaunchSucceedsHolds ==
  ASSUME BundlesFit
  PROVE  Spec => []LaunchSucceeds
<1>. DEFINE Inv == StartupInv /\ WaitInv
<1>1. Init => Inv
  BY StartupInit DEF Init, WaitInv
<1>2. Inv /\ [Next]_vars => Inv'
  BY StartupStep, WaitStep
<1>3. Inv => LaunchSucceeds
  BY DEF WaitInv, LaunchSucceeds
<1>. QED
  BY <1>1, <1>2, <1>3, PTL DEF Spec

----------------------------------------------------------------------------
(* What the start leaves to rely on.                                       *)

LEMMA Constants == MaxPlugins \in Nat /\ MaxCalls \in Nat /\ None \notin Nat
BY StartupAssumption

LEMMA Numbers ==
  ASSUME TypeOK
  PROVE  calls \in Nat /\ m_effects \in Seq(EffectObject) /\ Len(m_effects) \in Nat
<1>1. calls \in Nat
  <2>1. calls \in 0 .. MaxCalls
    BY DEF TypeOK
  <2>. QED
    BY <2>1, Constants
<1>2. m_effects \in Seq(EffectObject)
  BY DEF TypeOK, EffectsTypeOK, EffectObject
<1>. QED
  BY <1>1, <1>2, LenProperties

LEMMA GivenNumbers ==
  ASSUME SessionTypeOK, NEW n \in given
  PROVE  n \in Nat
<1>1. n \in 0 .. MaxPlugins - 1
  BY DEF SessionTypeOK
<1>. QED
  BY <1>1, Constants

\* A step of the session is a step of the start or none.
LEMMA SessionStep ==
  ASSUME SessionNext
  PROVE  [Next]_vars
BY DEF SessionNext, Faulted

\* Neither the number of calls nor that of the effects ever goes down.
LEMMA Grows ==
  ASSUME TypeOK, [Next]_vars
  PROVE  /\ calls \in Nat /\ calls' \in Nat /\ calls <= calls'
         /\ Len(m_effects) \in Nat /\ Len(m_effects') \in Nat
         /\ Len(m_effects) <= Len(m_effects')
<1>1. calls \in Nat /\ Len(m_effects) \in Nat
  BY Numbers
<1>2. calls' = calls \/ calls' = calls + 1
  BY DEF Next, vars, HostStep, OfxSetBundleDirectory, OfxSetHost, SetupSockets, Fail,
         StartThread, ReadBundle, LaunchRemote, BeginWait, EndWait, DefineEffect,
         Succeed, WakeSpuriously, RemoteHostStarted, RemoteExits, BrokerReceive,
         BrokerStore, Finished, Locals
<1>3. m_effects' = m_effects \/ DefineEffect
  BY DEF Next, vars, HostStep, OfxSetBundleDirectory, OfxSetHost, SetupSockets, Fail,
         StartThread, ReadBundle, LaunchRemote, BeginWait, EndWait,
         Succeed, WakeSpuriously, RemoteHostStarted, RemoteExits, BrokerReceive,
         BrokerStore, Finished, Effects
<1>4. Len(m_effects') = Len(m_effects) \/ Len(m_effects') = Len(m_effects) + 1
  <2>1. CASE m_effects' = m_effects
    BY <2>1
  <2>2. CASE DefineEffect /\ i > MaxPlugins
    BY <2>2 DEF DefineEffect
  <2>3. CASE DefineEffect /\ ~(i > MaxPlugins)
    BY <2>3, DefinedEffects DEF TypeOK
  <2>. QED
    BY <1>3, <2>1, <2>2, <2>3
<1>. QED
  BY <1>1, <1>2, <1>4

\* There are no more effects than structs.
LEMMA Room ==
  ASSUME BundlesFit, StartupInv
  PROVE  Len(m_effects) \in Nat /\ Len(m_effects) <= MaxPlugins
<1>1. Len(m_effects) \in Nat /\ MaxPlugins \in Nat
  BY Numbers, Constants DEF StartupInv
<1>2. CASE m_effects = <<>>
  BY <1>1, <1>2
<1>3. CASE m_effects # <<>>
  <2>1. m_plugin_definition \in Nat /\ m_plugin_definition <= MaxPlugins
    BY <1>3, StartupAssumption
    DEF StartupInv, EffectsInv, TypeOK, BundlesFit
  <2>2. CASE pc = "define"
    <3>1. i <= m_plugin_definition /\ Len(m_effects) = i
      BY <2>2 DEF StartupInv, EffectsInv
    <3>. QED
      BY <1>1, <2>1, <3>1
  <2>3. CASE pc # "define"
    BY <1>1, <1>3, <2>1, <2>3 DEF StartupInv, AllOrNothing, Ready, StoredInv
  <2>. QED
    BY <2>2, <2>3
<1>. QED
  BY <1>2, <1>3

----------------------------------------------------------------------------
(* Types.                                                                  *)

LEMMA SessionTypeInit ==
  ASSUME SessionInit
  PROVE  SessionTypeOK
BY DEF SessionInit, SessionTypeOK, NoInstance

LEMMA EntryFaults ==
  ASSUME NEW n
  PROVE  EntryFault(n) \in {"none", "null g_MfxProxyPlugin", "m_effects out of range"}
BY DEF EntryFault

\* Every step keeps the types.
LEMMA SessionTypeStep ==
  ASSUME TypeOK, SessionTypeOK, SessionNext
  PROVE  SessionTypeOK'
<1>. USE DEF SessionTypeOK
<1>1. CASE UNCHANGED sessionVars
  BY <1>1 DEF sessionVars
<1>2. CASE OfxGetNumberOfPlugins
  BY <1>2, Numbers DEF OfxGetNumberOfPlugins, NumberOfPlugins
<1>3. ASSUME NEW n \in -1 .. MaxPlugins, OfxGetPlugin(n)
      PROVE  SessionTypeOK'
  BY <1>3 DEF OfxGetPlugin
<1>4. ASSUME NEW n \in given, StaticOfxPluginSetHost(n)
      PROVE  SessionTypeOK'
  BY <1>4, EntryFaults DEF StaticOfxPluginSetHost
<1>5. ASSUME NEW n \in given, NEW x \in Instances, CreateInstance(n, x)
      PROVE  SessionTypeOK'
  <2>1. n \in Nat
    BY GivenNumbers
  <2>2. instance' \in [Instances -> [effect : Nat \cup {None}, data : {None}]]
    BY <1>5, <2>1 DEF CreateInstance
  <2>. QED
    BY <1>5, <2>2, EntryFaults DEF CreateInstance
<1>6. ASSUME NEW x \in Instances, DestroyInstance(x)
      PROVE  SessionTypeOK'
  BY <1>6, EntryFaults DEF DestroyInstance, NoInstance
<1>7. ASSUME NEW x \in Instances, UseInstance(x)
      PROVE  SessionTypeOK'
  BY <1>7, EntryFaults DEF UseInstance
<1>. QED
  BY <1>1, <1>2, <1>3, <1>4, <1>5, <1>6, <1>7 DEF SessionNext, Use, Faulted

----------------------------------------------------------------------------
(* What has been handed out stays.                                         *)

\* A step that hands out nothing takes nothing away.
LEMMA GivenKept ==
  ASSUME TypeOK, SessionTypeOK, GivenInv, [Next]_vars,
         UNCHANGED <<told, given, instance>>, careful' => careful
  PROVE  GivenInv'
<1>1. /\ calls \in Nat /\ calls' \in Nat /\ calls <= calls'
      /\ Len(m_effects) \in Nat /\ Len(m_effects') \in Nat
      /\ Len(m_effects) <= Len(m_effects')
  BY Grows
<1>2. told # None => told \in Nat
  BY DEF SessionTypeOK
<1>3. \A n \in given : n \in Nat
  BY GivenNumbers
<1>. QED
  BY <1>1, <1>2, <1>3 DEF GivenInv

\* A careful host has entry points of effects only.
LEMMA CarefulEntry ==
  ASSUME TypeOK, SessionTypeOK, GivenInv, careful, NEW n \in given
  PROVE  EntryFault(n) = "none"
<1>1. calls \in Nat /\ Len(m_effects) \in Nat /\ n \in Nat
  BY Numbers, GivenNumbers
<1>. QED
  BY <1>1 DEF GivenInv, EntryFault

\* Every step keeps the invariant.
LEMMA GivenStep ==
  ASSUME TypeOK, SessionTypeOK, GivenInv, SessionNext
  PROVE  GivenInv'
<1>1. [Next]_vars
  BY SessionStep
<1>2. Len(m_effects) \in Nat /\ calls \in Nat
  BY <1>1, Grows
<1>3. CASE UNCHANGED <<told, given, instance, careful>>
  BY <1>1, <1>3, GivenKept
<1>4. CASE OfxGetNumberOfPlugins /\ UNCHANGED vars
  <2>1. CASE calls = 0
    BY <1>1, <1>4, <2>1, GivenKept DEF OfxGetNumberOfPlugins
  <2>2. CASE calls # 0
    <3>1. calls > 0 /\ told' = Len(m_effects) /\ told' # None
      BY <1>2, <1>4, <2>2, Constants DEF OfxGetNumberOfPlugins, NumberOfPlugins
    <3>2. UNCHANGED <<calls, m_effects, given, instance>> /\ calls' > 0
      BY <1>4, <3>1 DEF OfxGetNumberOfPlugins, vars
    <3>3. Len(m_effects) <= Len(m_effects)
      BY <1>2
    <3>4. ASSUME careful', NEW k \in given
          PROVE  k < Len(m_effects)
      <4>1. careful
        BY <1>4, <3>4, Zenon DEF OfxGetNumberOfPlugins
      <4>. QED
        BY <4>1 DEF GivenInv
    <3>. QED
      BY <3>1, <3>2, <3>3, <3>4 DEF GivenInv
  <2>. QED
    BY <2>1, <2>2
<1>5. ASSUME NEW n \in -1 .. MaxPlugins, OfxGetPlugin(n), UNCHANGED vars
      PROVE  GivenInv'
  <2>1. ASSUME careful'
        PROVE  told # None /\ calls > 0 /\ n < Len(m_effects)
    <3>1. told # None /\ n \in 0 .. told - 1
      BY <1>5, <2>1 DEF OfxGetPlugin
    <3>2. told \in Nat /\ calls > 0 /\ told <= Len(m_effects)
      BY <3>1 DEF SessionTypeOK, GivenInv
    <3>. QED
      BY <1>2, <3>1, <3>2
  <2>. QED
    BY <1>5, <2>1 DEF OfxGetPlugin, vars, GivenInv
<1>6. ASSUME NEW n \in given, NEW x \in Instances, CreateInstance(n, x), UNCHANGED vars
      PROVE  GivenInv'
  <2>1. n \in Nat
    BY GivenNumbers
  <2>2. CASE EntryFault(n) = "none"
    <3>1. calls > 0 /\ n < Len(m_effects)
      BY <1>2, <2>1, <2>2 DEF EntryFault
    <3>2. \A y \in Instances :
            /\ y = x => instance'[y].effect = n
            /\ y # x => instance'[y] = instance[y]
      BY <1>6, <2>2 DEF CreateInstance, SessionTypeOK
    <3>. QED
      BY <1>6, <2>1, <3>1, <3>2 DEF CreateInstance, vars, GivenInv
  <2>3. CASE EntryFault(n) # "none"
    BY <1>1, <1>6, <2>3, GivenKept DEF CreateInstance
  <2>. QED
    BY <2>2, <2>3
<1>7. ASSUME NEW x \in Instances, DestroyInstance(x), UNCHANGED vars
      PROVE  GivenInv'
  <2>1. \A y \in Instances : instance'[y] # NoInstance => instance'[y] = instance[y]
    BY <1>7 DEF DestroyInstance, SessionTypeOK
  <2>. QED
    BY <1>7, <2>1 DEF DestroyInstance, vars, GivenInv
<1>. QED
  BY <1>3, <1>4, <1>5, <1>6, <1>7
  DEF SessionNext, Use, Faulted, sessionVars, StaticOfxPluginSetHost, UseInstance

----------------------------------------------------------------------------
(* The theorems about the session.                                        *)

SessionInv == StartupInv /\ SessionTypeOK /\ GivenInv

LEMMA SessionInvInit ==
  ASSUME SessionInit
  PROVE  SessionInv
<1>1. StartupInv
  BY StartupInit DEF SessionInit
<1>2. GivenInv
  BY DEF SessionInit, GivenInv
<1>. QED
  BY <1>1, <1>2, SessionTypeInit DEF SessionInv

LEMMA SessionInvStep ==
  ASSUME BundlesFit, SessionInv, [SessionNext]_<<vars, sessionVars>>
  PROVE  SessionInv'
<1>1. CASE SessionNext
  <2>1. StartupInv'
    BY <1>1, SessionStep, StartupStep DEF SessionInv
  <2>. QED
    BY <1>1, <2>1, SessionTypeStep, GivenStep DEF SessionInv, StartupInv
<1>2. CASE UNCHANGED <<vars, sessionVars>>
  <2>1. [Next]_vars /\ UNCHANGED sessionVars
    BY <1>2
  <2>2. StartupInv'
    BY <2>1, StartupStep DEF SessionInv
  <2>3. SessionTypeOK' /\ GivenInv'
    BY <2>1, GivenKept DEF SessionInv, StartupInv, sessionVars, SessionTypeOK
  <2>. QED
    BY <2>2, <2>3 DEF SessionInv
<1>. QED
  BY <1>1, <1>2

\* Every variable of the session keeps its type, for any bundles that fit.
THEOREM SessionTypeCorrect ==
  ASSUME BundlesFit
  PROVE  SessionSpec => []SessionTypeOK
<1>1. SessionInit => SessionInv
  BY SessionInvInit
<1>2. SessionInv /\ [SessionNext]_<<vars, sessionVars>> => SessionInv'
  BY SessionInvStep
<1>3. SessionInv => SessionTypeOK
  BY DEF SessionInv
<1>. QED
  BY <1>1, <1>2, <1>3, PTL DEF SessionSpec

\* The plug-ins an OFX host has been told of are there under their names.
LEMMA OfferedFromInv ==
  ASSUME BundlesFit, SessionInv
  PROVE  OfferedFilled
<1>1. /\ Len(m_effects) \in Nat /\ Len(m_effects) <= MaxPlugins
      /\ MaxPlugins \in Nat
  BY Room, Constants DEF SessionInv
<1>2. SUFFICES ASSUME told # None, NEW n \in 0 .. told - 1
               PROVE  /\ n \in DOMAIN slots /\ slots[n] = n
                      /\ n < Len(m_effects) /\ m_effects[n + 1].id = n
  BY DEF OfferedFilled
<1>3. told \in Nat /\ told <= Len(m_effects)
  BY <1>2 DEF SessionInv, SessionTypeOK, GivenInv
<1>4. n \in Nat /\ n < Len(m_effects) /\ n + 1 \in 1 .. Len(m_effects) /\ (n + 1) - 1 = n
  BY <1>1, <1>2, <1>3
<1>5. n \in DOMAIN slots
  <2>1. DOMAIN slots = 0 .. MaxPlugins - 1
    BY DEF SessionInv, StartupInv, TypeOK, EffectsTypeOK
  <2>. QED
    BY <1>1, <1>4, <2>1
<1>6. \A k \in 1 .. Len(m_effects) : m_effects[k].id = k - 1 /\ slots[k - 1] = k - 1
  BY DEF SessionInv, StartupInv, EffectsInv
<1>7. m_effects[n + 1].id = (n + 1) - 1 /\ slots[(n + 1) - 1] = (n + 1) - 1
  BY <1>4, <1>6
<1>. QED
  BY <1>4, <1>5, <1>7

\* With bundles that fit, the plug-ins an OFX host has been told of stay there
\* under their names, whatever calls follow and whatever is answered late.
THEOREM OfferedFilledHolds ==
  ASSUME BundlesFit
  PROVE  SessionSpec => []OfferedFilled
<1>1. SessionInit => SessionInv
  BY SessionInvInit
<1>2. SessionInv /\ [SessionNext]_<<vars, sessionVars>> => SessionInv'
  BY SessionInvStep
<1>3. SessionInv => OfferedFilled
  BY OfferedFromInv
<1>. QED
  BY <1>1, <1>2, <1>3, PTL DEF SessionSpec

\* No use a careful host makes of the plug-in meets a fault of the start.
LEMMA CarefulStep ==
  ASSUME BundlesFit, SessionInv, CarefulHostSafe, [SessionNext]_<<vars, sessionVars>>
  PROVE  CarefulHostSafe'
<1>. SUFFICES ASSUME careful'
              PROVE  fault' \in {"none", "null InstanceData"}
  BY DEF CarefulHostSafe
<1>0. careful
  BY DEF SessionNext, Use, OfxGetNumberOfPlugins, OfxGetPlugin, StaticOfxPluginSetHost,
         CreateInstance, DestroyInstance, UseInstance, Faulted, sessionVars, SessionInv,
         SessionTypeOK
<1>1. fault \in {"none", "null InstanceData"}
  BY <1>0 DEF CarefulHostSafe
<1>2. TypeOK /\ SessionTypeOK /\ GivenInv
  BY DEF SessionInv, StartupInv
<1>3. /\ calls \in Nat /\ MaxPlugins \in Nat
      /\ Len(m_effects) \in Nat /\ Len(m_effects) <= MaxPlugins
  BY <1>2, Room, Numbers, Constants DEF SessionInv
<1>4. CASE UNCHANGED fault
  BY <1>1, <1>4
<1>5. CASE OfxGetNumberOfPlugins
  <2>1. calls > 0
    BY <1>5 DEF OfxGetNumberOfPlugins
  <2>2. calls # 0
    BY <1>3, <2>1
  <2>3. UNCHANGED fault
    BY <1>5, <2>2 DEF OfxGetNumberOfPlugins
  <2>. QED
    BY <1>4, <2>3
<1>6. ASSUME NEW n \in -1 .. MaxPlugins, OfxGetPlugin(n)
      PROVE  UNCHANGED fault
  <2>1. told \in Nat /\ told <= Len(m_effects) /\ n \in 0 .. told - 1
    BY <1>2, <1>6 DEF OfxGetPlugin, SessionTypeOK, GivenInv
  <2>2. ~(n < 0) /\ ~(n >= MaxPlugins)
    BY <1>3, <2>1
  <2>. QED
    BY <1>6, <2>2 DEF OfxGetPlugin
<1>7. ASSUME NEW n \in given, StaticOfxPluginSetHost(n)
      PROVE  fault' = "none"
  BY <1>0, <1>2, <1>7, CarefulEntry DEF StaticOfxPluginSetHost
<1>8. ASSUME NEW n \in given, NEW x \in Instances, CreateInstance(n, x)
      PROVE  fault' = "none"
  BY <1>0, <1>2, <1>8, CarefulEntry DEF CreateInstance
<1>9. ASSUME NEW x \in Instances, instance[x] # NoInstance
      PROVE  EntryFault(instance[x].effect) = "none"
  BY <1>2, <1>3, <1>9 DEF GivenInv, EntryFault
<1>10. ASSUME NEW x \in Instances, DestroyInstance(x) \/ UseInstance(x)
       PROVE  fault' \in {"none", "null InstanceData"}
  BY <1>9, <1>10 DEF DestroyInstance, UseInstance
<1>. QED
  BY <1>4, <1>5, <1>6, <1>7, <1>8, <1>10 DEF SessionNext, Use, Faulted, sessionVars

\* With bundles that fit, an OFX host that goes by OfxGetNumberOfPlugins meets
\* no fault but those of its instances, in any order of its calls.
THEOREM CarefulHostSafeHolds ==
  ASSUME BundlesFit
  PROVE  SessionSpec => []CarefulHostSafe
<1>. DEFINE Inv == SessionInv /\ CarefulHostSafe
<1>1. SessionInit => Inv
  BY SessionInvInit DEF SessionInit, CarefulHostSafe
<1>2. Inv /\ [SessionNext]_<<vars, sessionVars>> => Inv'
  BY SessionInvStep, CarefulStep
<1>3. Inv => CarefulHostSafe
  OBVIOUS
<1>. QED
  BY <1>1, <1>2, <1>3, PTL DEF SessionSpec
============================================================================
