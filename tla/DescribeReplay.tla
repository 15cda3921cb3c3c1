-------------------------- MODULE DescribeReplay --------------------------
(***************************************************************************)
(* The second half of MfxProxyEffect::Describe: the remote effect has      *)
(* answered with the parameters and inputs that its plug-in defined, and   *)
(* the proxy defines the same parameters and inputs in the OFX host and    *)
(* sets their properties, one suite call after the other.  The OFX host    *)
(* may refuse a call.                                                      *)
(*                                                                         *)
(* pc = "undefined" stands for everything C++ leaves undefined, and for a  *)
(* failed assert: the model says nothing of what happens after it.         *)
(***************************************************************************)
EXTENDS Naturals, Sequences

CONSTANTS
  Replies,         \* the ActionDescribeEnd messages that may arrive
  Names,           \* names of properties
  Values,          \* values of properties
  None             \* a field that is absent from the message

Kinds == {"parameter", "input"}
Types == {"Int", "Float", "String", "Pointer"}

\* Every field of a table but the status may be absent.  A vector has no absent
\* elements.  Type "Pointer" stands for every property that is ignored.
Property == [name : Names \cup {None}, type : Types, values : Seq(Values) \cup {None}]
Item     == Seq(Property)   \* an OfxParameter or an OfxInput
List     == Seq(Item \cup {None}) \cup {None}

\* bare: the places of the inputs that have no attributes().
Reply == [status : {"OK", "Failed"}, parameter : List, input : List, bare : SUBSET Nat]

\* kOfxPropName and kOfxParamPropType, the properties that paramDefine and
\* inputDefine set from their arguments.
SetByDefine(k) == IF k = "parameter" THEN {"Name", "Type"} ELSE {"Name"}

ASSUME ReplayAssumption ==
  /\ {"Name", "Type"} \subseteq Names
  /\ Replies \subseteq Reply
  /\ None \notin Names \cup Seq(Values) \cup Item \cup Seq(Item \cup {None})

\* A property set holds a property of a name once.
ASSUME DistinctNames ==
  \A r \in Replies, k \in Kinds : r[k] # None =>
    \A n \in 1 .. Len(r[k]) : r[k][n] # None =>
      \A p, q \in 1 .. Len(r[k][n]) :
        r[k][n][p].name # None /\ r[k][n][p].name = r[k][n][q].name => p = q

VARIABLES
  pc,        \* where Describe is
  reply,     \* the message, None before it has arrived
  kind,      \* the list whose items are being defined
  item,      \* index of the item in it
  property,  \* index of the property of the item
  element,   \* index of the value of the property
  handle,    \* ofx_param_props or ofx_input_props
  defined,   \* defined[k]: what the OFX host has been told to define
  refused,   \* how many paramDefine and inputDefine the OFX host has refused
  status     \* what Describe returned

vars == <<pc, reply, kind, item, property, element, handle, defined, refused, status>>

Cursor == <<kind, item, property, element, handle>>

Init ==
  /\ pc = "receive" /\ reply = None /\ status = "none"
  /\ kind = "parameter" /\ item = 1 /\ property = 1 /\ element = 1
  /\ handle = <<"wild", 0>>
  /\ defined = [k \in Kinds |-> <<>>] /\ refused = 0

----------------------------------------------------------------------------
Return(s) == pc' = "done" /\ status' = s

\* Wrong variant: the remote status is not looked at before the replay.
ReceiveReplyUnchecked(r) ==
  /\ pc = "receive"
  /\ reply' = r
  /\ pc' = "define" /\ UNCHANGED <<Cursor, defined, refused, status>>

\* MFX_ENSURE returns the remote status when it is not kOfxStatOK.  The status
\* of getParamSet is not looked at: when it fails, paramDefine is called with a
\* wild handle, and refusing every parameter is one of the outcomes.
ReceiveReply(r) ==
  /\ pc = "receive"
  /\ reply' = r
  /\ IF r.status = "OK" THEN pc' = "define" /\ UNCHANGED status
                        ELSE Return(r.status)
  /\ UNCHANGED <<Cursor, defined, refused>>

Items   == reply[kind]
Current == Items[item]
AtItem  == pc = "define" /\ Items # None /\ item <= Len(Items) /\ Current # None

Nameless(it) == \E p \in 1 .. Len(it) : it[p].name = None

Has(it, name) == \E p \in 1 .. Len(it) : it[p].name = name

\* Wrong variant: only the first property is looked at.
NameForFirst(it, name) == IF Len(it) > 0 /\ it[1].name = name THEN name ELSE None

\* What paramName, paramType and inputName point at: the name, not the value,
\* of the property looked for.
NameFor(it, name) == IF Has(it, name) THEN name ELSE None

Handles == Kinds \X (1 .. Len(defined["parameter"]) + Len(defined["input"]))
Given   == {h \in Handles : h[2] <= Len(defined[h[1]])}

\* property->name() is dereferenced in the search.  assert(paramName),
\* assert(paramType), assert(inputName): without them a null pointer goes to the
\* OFX host.
MissingName ==
  /\ AtItem
  /\ Nameless(Current) \/ \E name \in SetByDefine(kind) : NameFor(Current, name) = None
  /\ pc' = "undefined"
  /\ UNCHANGED <<reply, Cursor, defined, refused, status>>

\* paramDefine or inputDefine; its status is not looked at.  When the call is
\* refused, the handle is an uninitialised variable: it may well hold what the
\* previous round left on the stack, a handle given out earlier.  After the call
\* input->attributes() is dereferenced.
Define ==
  /\ AtItem /\ ~Nameless(Current)
  /\ \A name \in SetByDefine(kind) : NameFor(Current, name) # None
  /\ \/ /\ defined' = [defined EXCEPT ![kind] =
              Append(@, [name |-> NameFor(Current, "Name"), values |-> {},
                         type |-> IF kind = "parameter"
                                  THEN NameFor(Current, "Type") ELSE None])]
        /\ handle' = <<kind, Len(defined[kind]) + 1>>
        /\ UNCHANGED refused
     \/ /\ handle' \in Given \cup {<<"wild", 0>>}
        /\ refused' = refused + 1
        /\ UNCHANGED defined
  /\ pc' = IF kind = "input" /\ item \in reply.bare THEN "undefined" ELSE "set"
  /\ property' = 1 /\ element' = 1
  /\ UNCHANGED <<reply, kind, item, status>>

\* The vectors of the message may be absent; *action->parameters(), or
\* *parameter->properties() of an item, is then a null pointer dereferenced.
MissingVector ==
  /\ pc = "define"
  /\ Items # None => item <= Len(Items) /\ Current = None
  /\ pc' = "undefined"
  /\ UNCHANGED <<reply, Cursor, defined, refused, status>>

EndList ==
  /\ pc = "define" /\ Items # None /\ item > Len(Items)
  /\ IF kind = "parameter"
     THEN /\ kind' = "input" /\ item' = 1
          /\ UNCHANGED <<pc, status>>
     ELSE Return(reply.status) /\ UNCHANGED <<kind, item>>
  /\ UNCHANGED <<reply, property, element, handle, defined, refused>>

EndItem ==
  /\ pc = "set" /\ property > Len(Current)
  /\ pc' = "define" /\ item' = item + 1
  /\ UNCHANGED <<reply, kind, property, element, handle, defined, refused, status>>

\* Wrong variant: inputs skip what parameters skip.
ToBeSetAlike(k, p) == p.name \notin {"Name", "Type"} /\ p.type # "Pointer"

\* Properties set by the definition itself are skipped, properties of another
\* type than int, double and string are ignored with a warning.
ToBeSet(k, p) == p.name \notin SetByDefine(k) /\ p.type # "Pointer"

NextProperty ==
  LET p == Current[property] IN
  /\ pc = "set" /\ property <= Len(Current)
  /\ ToBeSet(kind, p) => p.values # None /\ element > Len(p.values)
  /\ property' = property + 1 /\ element' = 1
  /\ UNCHANGED <<pc, reply, kind, item, handle, defined, refused, status>>

\* value_as_...() or its values() is absent, and dereferenced.
MissingValues ==
  /\ pc = "set" /\ property <= Len(Current)
  /\ ToBeSet(kind, Current[property]) /\ Current[property].values = None
  /\ pc' = "undefined"
  /\ UNCHANGED <<reply, Cursor, defined, refused, status>>

\* Wrong variant: the values are counted from 1.
PropSetFromOne(values, name, index, value) ==
  {v \in values : v.name # name \/ v.index # index + 1}
    \cup {[name |-> name, index |-> index + 1, value |-> value]}

\* propSetInt, propSetDouble or propSetString at an index of a property.
PropSet(values, name, index, value) ==
  {v \in values : v.name # name \/ v.index # index}
    \cup {[name |-> name, index |-> index, value |-> value]}

\* prop_set_from_flatbuffer, one value: MFX_ENSURE leaves Describe when the
\* OFX host refuses it.
SetElement ==
  LET p == Current[property] IN
  /\ pc = "set" /\ property <= Len(Current)
  /\ ToBeSet(kind, p) /\ p.values # None /\ element <= Len(p.values)
  /\ \/ /\ handle \in Given
        /\ defined' = [defined EXCEPT ![handle[1]][handle[2]].values =
                         PropSet(@, p.name, element - 1, p.values[element])]
        /\ element' = element + 1
        /\ UNCHANGED <<pc, status>>
     \/ /\ handle \notin Given
        /\ pc' = "undefined" /\ UNCHANGED <<defined, element, status>>
     \/ Return("Failed") /\ UNCHANGED <<defined, element>>
  /\ UNCHANGED <<reply, kind, item, property, handle, refused>>

Finished == pc \in {"done", "undefined"} /\ UNCHANGED vars

Next ==
  \/ \E r \in Replies : ReceiveReply(r)
  \/ MissingName \/ Define \/ MissingVector \/ EndList
  \/ EndItem \/ NextProperty \/ MissingValues \/ SetElement
  \/ Finished

Spec == Init /\ [][Next]_vars

----------------------------------------------------------------------------
(* Properties.                                                             *)

Assignment == [name : Names, index : Nat, value : Values]
Definition == [name : Names, type : Names \cup {None}, values : SUBSET Assignment]

TypeOK ==
  /\ pc \in {"receive", "define", "set", "done", "undefined"}
  /\ reply \in Replies \cup {None}
  /\ kind \in Kinds /\ item \in Nat \ {0}
  /\ property \in Nat \ {0} /\ element \in Nat \ {0}
  /\ handle \in (Kinds \cup {"wild"}) \X Nat
  /\ defined \in [Kinds -> Seq(Definition)]
  /\ refused \in Nat
  /\ status \in {"none", "OK", "Failed"}

\* What the properties of item it of a list of kind k come to in the OFX host:
\* numbers and strings, except for a name and for the type of a parameter.
Plain(k, p) ==
  /\ p.type \in {"Int", "Float", "String"} /\ p.values # None
  /\ p.name \notin {None, "Name"} /\ (k = "parameter" => p.name # "Type")

Assignments(p) ==
  {[name |-> p.name, index |-> v - 1, value |-> p.values[v]] : v \in 1 .. Len(p.values)}

Wanted(k, it) ==
  UNION {Assignments(it[p]) : p \in {q \in 1 .. Len(it) : Plain(k, it[q])}}

\* "replay received parameters": when Describe returns kOfxStatOK to an OFX host
\* that accepted the definitions, whatever properties it refused, that host has
\* been told of each parameter and input of the remote effect, in order, and
\* each of them has exactly the property values the remote effect gave it.
FaithfulReplay ==
  status = "OK" /\ refused = 0 => \A k \in Kinds :
    /\ Len(defined[k]) = Len(reply[k])
    /\ \A n \in 1 .. Len(reply[k]) : defined[k][n].values = Wanted(k, reply[k][n])

\* kOfxStatOK is returned for a description that the remote effect completed
\* only, and nothing is defined in the OFX host for one it did not.
FailureKept ==
  reply # None /\ reply.status # "OK" =>
    status # "OK" /\ \A k \in Kinds : defined[k] = <<>>

\* Whatever the OFX host refuses, even when a value lands on a handle left over
\* from an earlier item, no property gets a value that the description does not
\* give to a property of that name at that index.
NothingInvented ==
  \A k \in Kinds : \A n \in 1 .. Len(defined[k]) : \A v \in defined[k][n].values :
    \E l \in Kinds : reply[l] # None /\
      \E m \in 1 .. Len(reply[l]) : reply[l][m] # None /\ v \in Wanted(l, reply[l][m])

\* Nothing that Describe dereferences is absent from item it of list k.
CompleteItem(k, it) ==
  /\ it # None /\ ~Nameless(it)
  /\ \A name \in SetByDefine(k) : Has(it, name)
  /\ \A p \in 1 .. Len(it) : ToBeSet(k, it[p]) => it[p].values # None

Complete(r) ==
  /\ r.bare = {}
  /\ \A k \in Kinds : r[k] # None /\ \A n \in 1 .. Len(r[k]) : CompleteItem(k, r[k][n])

\* A complete message and an OFX host that accepts the definitions never lead
\* to undefined behaviour, also when the host refuses properties.
NoUndefined == pc = "undefined" => refused > 0 \/ ~Complete(reply)

\* Parameters are defined in the OFX host under the names the remote plug-in
\* gave them ("do nothing, already set by paramDefine").
NamesKept ==
  status = "OK" => \A k \in Kinds : \A n \in 1 .. Len(reply[k]) :
    \A p \in 1 .. Len(reply[k][n]) :
      reply[k][n][p].name = "Name" => defined[k][n].name = reply[k][n][p].values[1]

----------------------------------------------------------------------------
(* The inductive invariants.                                               *)

\* Where Describe is: for any OFX host.
CursorInv ==
  /\ pc = "receive" => reply = None /\ kind = "parameter" /\ item = 1
  /\ pc = "receive" => status = "none" /\ \A k \in Kinds : defined[k] = <<>>
  /\ pc # "receive" => reply \in Replies
  /\ pc \in {"define", "set"} => reply.status = "OK" /\ status = "none"
  /\ pc = "set" => Items # None /\ item <= Len(Items) /\ Current # None /\ ~Nameless(Current)
  /\ status = "OK" => pc = "done" /\ kind = "input"

CallInv == TypeOK /\ CursorInv /\ FailureKept

\* The values set once the cursor is at value e of property p of item it.
SetBefore(k, it, p, e) ==
  {a \in Wanted(k, it) : \E q \in 1 .. Len(it) :
     /\ it[q].name = a.name
     /\ q < p \/ (q = p /\ a.index + 1 < e)}

\* The items before item n of list k are replayed.
ReplayedBefore(k, n) ==
  \A m \in 1 .. Len(defined[k]) : m < n =>
    defined[k][m].values = Wanted(k, reply[k][m])

\* What has been replayed, as long as the OFX host accepts definitions.
ListInv ==
  pc \in {"define", "set"} \/ status = "OK" =>
    /\ kind = "input" => /\ reply["parameter"] # None
                         /\ Len(defined["parameter"]) = Len(reply["parameter"])
                         /\ ReplayedBefore("parameter", Len(reply["parameter"]) + 1)
    /\ kind = "parameter" => defined["input"] = <<>>
    /\ Items # None => item <= Len(Items) + 1
    /\ status = "OK" => Items # None /\ item = Len(Items) + 1
    /\ Len(defined[kind]) = IF pc = "set" THEN item ELSE item - 1
    /\ ReplayedBefore(kind, item)

ItemInv ==
  pc = "set" =>
    /\ handle = <<kind, item>>
    /\ property <= Len(Current) + 1
    /\ defined[kind][item].values = SetBefore(kind, Current, property, element)

UndefinedIncomplete == pc = "undefined" => ~Complete(reply)

ReplayInv == CallInv /\ ListInv /\ ItemInv /\ UndefinedIncomplete

DescribeInv == CallInv /\ (refused = 0 => ReplayInv)
============================================================================
