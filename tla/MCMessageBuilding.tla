-------------------------- MODULE MCMessageBuilding ------------------------
(* The schemas of the messages, as far as one run builds them.             *)
EXTENDS MessageBuilding

scalar(w) == [kind |-> "scalar", width |-> w, align |-> w, of |-> ""]
struct    == [kind |-> "struct", width |-> 4, align |-> 4, of |-> ""]
text      == [kind |-> "string", width |-> 4, align |-> 4, of |-> ""]
scalars(type) == [kind |-> "scalars", width |-> Widths[type], align |-> 4, of |-> type]
tables(T)     == [kind |-> "tables", width |-> 4, align |-> 4, of |-> T]
union(U)      == [kind |-> "union", width |-> 4, align |-> 4, of |-> U]

ScalarWidths == [int |-> 4, double |-> 8]

\* MfxFlatbuffersBasicTypes.fbs and MfxFlatbuffersMessages.fbs.
Schemas ==
  [OfxPropertyIntNValue   |-> <<scalars("int")>>,
   OfxPropertyFloatNValue |-> <<scalars("double")>>,
   OfxProperty       |-> <<text, scalar(1), union("OfxPropertyValue")>>,
   OfxPlugin         |-> <<scalar(4), text, scalar(4), scalar(4)>>,
   RemoteHostStarted |-> <<scalar(4), tables("OfxPlugin")>>,
   ActionLoadEnd     |-> <<struct>>,
   MessageEnvelope   |-> <<scalar(4), scalar(4), scalar(1), union("Message")>>]

Unions ==
  [OfxPropertyValue |-> <<"OfxPropertyIntNValue", "OfxPropertyFloatNValue">>,
   Message |-> <<"RemoteHostStarted", "ActionLoadEnd">>]

\* An envelope, a message, a plug-in or a property in it, and the value of that.
Depths ==
  [T \in DOMAIN Schema |->
     CASE T = "MessageEnvelope"                   -> 4
       [] T \in {"RemoteHostStarted"}             -> 3
       [] T \in {"OfxPlugin", "OfxProperty"}      -> 2
       [] OTHER                                   -> 1]

ASSUME DepthsAssumption == Nests(Depths)

PropertyLimits == [string |-> 2, scalars |-> 1, OfxPropertyFloatNValue |-> 1, OfxProperty |-> 2,
                   tables |-> 0]
MessageLimits  == [string |-> 1, scalars |-> 1, tables |-> 1, OfxPlugin |-> 2, RemoteHostStarted |-> 1,
                   ActionLoadEnd |-> 1]

OneBuffer  == <<5>>
TwoBuffers == <<2, 5>>

OneText   == {<<65, 66>>}
OneDouble == [double |-> {<<(<<1, 2, 3, 4, 5, 6, 7, 8>>)>>}]
NoStructs == {}
Statuses  == {<<3, 0, 0, 128>>}

PropertyTypes == {"OfxPropertyFloatNValue", "OfxProperty"}
MessageTypes  == {"OfxPlugin", "RemoteHostStarted", "ActionLoadEnd"}
============================================================================
