---------------------------- MODULE HostSession ----------------------------
(***************************************************************************)
(* What an OFX host does with the plug-in after, before and between its    *)
(* calls of OfxSetBundleDirectory and OfxSetHost: it asks for the number   *)
(* of plug-ins, takes OfxPlugin structs out of gOfxPlugins, and calls      *)
(* through the function pointers in them, which lead to                    *)
(* g_MfxProxyPlugin->m_effects.  The instances it creates are here too,    *)
(* with what becomes of their InstanceData.                                *)
(*                                                                         *)
(* fault names the first null pointer, failed assert or index out of range *)
(* the session meets; the model says nothing of what happens after it.     *)
(***************************************************************************)
EXTENDS PluginStartup, Integers

CONSTANTS
  Instances   \* handles of effect instances

VARIABLES
  told,       \* what OfxGetNumberOfPlugins returned last, None before
  given,      \* numbers of the OfxPlugin structs the OFX host has
  instance,   \* instance[x]: the instance with handle x
  careful,    \* so far the OFX host has gone by OfxGetNumberOfPlugins
  fault

sessionVars == <<told, given, instance, careful, fault>>

\* data is what the OFX host keeps as kOfxPropInstanceData.
NoInstance == [effect |-> None, data |-> None]

SessionInit ==
  /\ Init
  /\ told = None /\ given = {} /\ careful = TRUE /\ fault = "none"
  /\ instance = [x \in Instances |-> NoInstance]

----------------------------------------------------------------------------
\* Wrong variant: the plug-ins announced, whether or not they are set up.
NumberAnnounced == IF m_plugin_definition = None THEN 0 ELSE m_plugin_definition

NumberOfPlugins == Len(m_effects)

\* Before the first call that creates it, g_MfxProxyPlugin is null.
OfxGetNumberOfPlugins ==
  /\ pc = "idle"
  /\ careful' = (careful /\ calls > 0)
  /\ IF calls = 0
     THEN fault' = "null g_MfxProxyPlugin" /\ UNCHANGED told
     ELSE told' = NumberOfPlugins /\ UNCHANGED fault
  /\ UNCHANGED <<given, instance>>

\* A negative number is not looked for; assert(0) meets one that is too large,
\* and a build without asserts returns a null pointer.
OfxGetPlugin(n) ==
  /\ pc = "idle"
  /\ careful' = (careful /\ told # None /\ n \in 0 .. told - 1)
  /\ \/ n < 0 /\ fault' = "gOfxPlugins out of range" /\ UNCHANGED given
     \/ n >= MaxPlugins /\ UNCHANGED given
          /\ fault' = IF AssertsOn THEN "assert(0)" ELSE fault
     \/ n \in 0 .. MaxPlugins - 1 /\ given' = given \cup {n} /\ UNCHANGED fault
  /\ UNCHANGED <<told, instance>>

\* OfxPluginSetHost and OfxPluginMainEntry index m_effects, which they only
\* assert to be long enough.
EntryFault(n) ==
  IF calls = 0 THEN "null g_MfxProxyPlugin"
  ELSE IF n >= Len(m_effects) THEN "m_effects out of range" ELSE "none"

StaticOfxPluginSetHost(n) ==
  /\ pc = "idle" /\ n \in given
  /\ fault' = EntryFault(n)
  /\ UNCHANGED <<told, given, instance, careful>>

\* No InstanceData is made, and set_instance_data is not called.
CreateInstance(n, x) ==
  /\ pc = "idle" /\ n \in given /\ instance[x] = NoInstance
  /\ fault' = EntryFault(n)
  /\ instance' = IF EntryFault(n) = "none"
                 THEN [instance EXCEPT ![x].effect = n] ELSE instance
  /\ UNCHANGED <<told, given, careful>>

\* delete_instance_data: deleting a null pointer does nothing.  The handle may
\* be used again.
DestroyInstance(x) ==
  /\ pc = "idle" /\ instance[x] # NoInstance
  /\ fault' = EntryFault(instance[x].effect)
  /\ instance' = [instance EXCEPT ![x] = NoInstance]
  /\ UNCHANGED <<told, given, careful>>

\* Cook and IsIdentity read get_instance_data(instance)->instance_id.
UseInstance(x) ==
  /\ pc = "idle" /\ instance[x] # NoInstance
  /\ fault' = IF EntryFault(instance[x].effect) # "none"
              THEN EntryFault(instance[x].effect)
              ELSE IF instance[x].data = None THEN "null InstanceData" ELSE "none"
  /\ UNCHANGED <<told, given, instance, careful>>

----------------------------------------------------------------------------
Use ==
  \/ OfxGetNumberOfPlugins
  \/ \E n \in -1 .. MaxPlugins : OfxGetPlugin(n)
  \/ \E n \in given : StaticOfxPluginSetHost(n)
  \/ \E n \in given, x \in Instances : CreateInstance(n, x)
  \/ \E x \in Instances : DestroyInstance(x) \/ UseInstance(x)

Faulted == fault # "none" /\ UNCHANGED <<vars, sessionVars>>

SessionNext ==
  \/ fault = "none" /\ Next /\ UNCHANGED sessionVars
  \/ fault = "none" /\ Use /\ UNCHANGED vars
  \/ Faulted

SessionSpec == SessionInit /\ [][SessionNext]_<<vars, sessionVars>>

\* The three schedulers of the start keep running what can run, and a wait with
\* a timeout ends; the OFX host need not call, and no wakeup need be spurious.
FairSessionSpec ==
  /\ SessionSpec
  /\ WF_vars(fault = "none" /\ HostStep /\ UNCHANGED sessionVars)
  /\ WF_vars(fault = "none" /\ (RemoteHostStarted \/ RemoteExits) /\ UNCHANGED sessionVars)
  /\ WF_vars(fault = "none" /\ (BrokerReceive \/ BrokerStore) /\ UNCHANGED sessionVars)

----------------------------------------------------------------------------
(* Properties.                                                             *)

SessionTypeOK ==
  /\ told \in Nat \cup {None}
  /\ given \subseteq 0 .. MaxPlugins - 1
  /\ instance \in [Instances -> [effect : Nat \cup {None}, data : {None}]]
  /\ careful \in BOOLEAN
  /\ fault \in {"none", "null g_MfxProxyPlugin", "gOfxPlugins out of range", "assert(0)",
                "m_effects out of range", "null InstanceData"}

\* The plug-ins an OFX host has been told of are those of the remote bundle,
\* under their names, whatever later calls or late answers do.
OfferedFilled ==
  told # None => \A n \in 0 .. told - 1 :
    n \in DOMAIN slots /\ slots[n] = n /\ n < Len(m_effects) /\ m_effects[n + 1].id = n

\* An OFX host that calls nothing before OfxSetBundleDirectory or OfxSetHost,
\* and uses the plug-ins below OfxGetNumberOfPlugins only, meets no fault but
\* those of its instances, whether or not its start succeeded.
CarefulHostSafe == careful => fault \in {"none", "null InstanceData"}

----------------------------------------------------------------------------
(* The inductive invariant.                                                *)

\* What has been handed out was there, and stays.
GivenInv ==
  /\ told # None => calls > 0 /\ told <= Len(m_effects)
  /\ careful => \A n \in given : told # None /\ calls > 0 /\ n < Len(m_effects)
  /\ \A x \in Instances : instance[x] # NoInstance =>
       instance[x].effect \in Nat /\ calls > 0 /\ instance[x].effect < Len(m_effects)
============================================================================
