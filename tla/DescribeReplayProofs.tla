----------------------- MODULE DescribeReplayProofs -----------------------
(* Proofs about DescribeReplay, for any messages and values.               *)
EXTENDS DescribeReplay, TLAPS

Distinct(it) ==
  \A p, q \in 1 .. Len(it) : it[p].name # None /\ it[p].name = it[q].name => p = q

LEMMA ItemFacts ==
  ASSUME NEW r \in Replies, NEW k \in Kinds, r[k] # None,
         NEW n \in 1 .. Len(r[k]), r[k][n] # None
  PROVE  r[k] \in Seq(Item \cup {None}) /\ r[k][n] \in Item /\ Distinct(r[k][n])
<1>1. r[k] \in Seq(Item \cup {None})
  BY ReplayAssumption DEF Reply, List, Kinds
<1>2. r[k][n] \in Item
  BY <1>1
<1>3. Distinct(r[k][n])
  BY DistinctNames DEF Distinct
<1> QED BY <1>1, <1>2, <1>3

\* a is value v of property p of item it.
IsValue(k, it, a, p, v) ==
  /\ p \in 1 .. Len(it) /\ Plain(k, it[p])
  /\ v \in 1 .. Len(it[p].values)
  /\ a = [name |-> it[p].name, index |-> v - 1, value |-> it[p].values[v]]

LEMMA WantedMember ==
  ASSUME NEW k, NEW it, NEW a
  PROVE  a \in Wanted(k, it) <=> \E p, v : IsValue(k, it, a, p, v)
<1>1. a \in Wanted(k, it) <=>
        \E p \in 1 .. Len(it) : Plain(k, it[p]) /\ a \in Assignments(it[p])
  BY DEF Wanted
<1>2. ASSUME NEW p
      PROVE  a \in Assignments(it[p]) <=> \E v \in 1 .. Len(it[p].values) :
               a = [name |-> it[p].name, index |-> v - 1, value |-> it[p].values[v]]
  BY DEF Assignments
<1>3. QED
  BY <1>1, <1>2, Zenon DEF IsValue

LEMMA WantedTyped ==
  ASSUME NEW k, NEW it \in Item
  PROVE  Wanted(k, it) \in SUBSET Assignment
<1> SUFFICES ASSUME NEW a \in Wanted(k, it) PROVE a \in Assignment
  OBVIOUS
<1>1. PICK p, v : IsValue(k, it, a, p, v)
  BY WantedMember
<1>2. it[p] \in Property
  BY <1>1 DEF Item, IsValue
<1>3. it[p].name \in Names /\ it[p].values \in Seq(Values)
  BY <1>1, <1>2 DEF Property, IsValue, Plain
<1> QED BY <1>1, <1>3 DEF Assignment, IsValue

LEMMA PlainIsToBeSet ==
  ASSUME NEW k \in Kinds, NEW p \in Property, p.name # None
  PROVE  ToBeSet(k, p) /\ p.values # None <=> Plain(k, p)
  BY DEF ToBeSet, Plain, SetByDefine, Kinds, Property, Types

LEMMA NothingSetFirst ==
  ASSUME NEW k, NEW it \in Item
  PROVE  SetBefore(k, it, 1, 1) = {}
<1> SUFFICES ASSUME NEW a \in Wanted(k, it), NEW q \in 1 .. Len(it),
                    q < 1 \/ (q = 1 /\ a.index + 1 < 1)
             PROVE  FALSE
  BY DEF SetBefore
<1>1. a.index \in Nat
  BY WantedTyped DEF Assignment
<1> QED BY <1>1

LEMMA AllSetLast ==
  ASSUME NEW k, NEW it \in Item, NEW e
  PROVE  SetBefore(k, it, Len(it) + 1, e) = Wanted(k, it)
<1> SUFFICES ASSUME NEW a \in Wanted(k, it)
             PROVE  \E q \in 1 .. Len(it) : it[q].name = a.name /\ q < Len(it) + 1
  BY DEF SetBefore
<1>1. PICK p, v : IsValue(k, it, a, p, v)
  BY WantedMember
<1>2. Len(it) \in Nat
  BY DEF Item
<1> QED BY <1>1, <1>2 DEF IsValue

\* A property that is not set, or of which every value is.
LEMMA NextPropertySets ==
  ASSUME NEW k, NEW it \in Item, Distinct(it),
         NEW p \in 1 .. Len(it), NEW e \in Nat \ {0},
         ~Plain(k, it[p]) \/ e > Len(it[p].values)
  PROVE  SetBefore(k, it, p, e) = SetBefore(k, it, p + 1, 1)
<1>0. Len(it) \in Nat
  BY DEF Item
<1>1. ASSUME NEW a \in Wanted(k, it), NEW q \in 1 .. Len(it), it[q].name = a.name
      PROVE  (q < p \/ (q = p /\ a.index + 1 < e)) <=> (q < p + 1 \/ (q = p + 1 /\ a.index + 1 < 1))
  <2>1. PICK r, v : IsValue(k, it, a, r, v)
    BY WantedMember
  <2>2. r = q
    BY <1>1, <2>1 DEF Distinct, IsValue, Plain
  <2>3. it[r] \in Property
    BY <2>1 DEF Item, IsValue
  <2>4. Len(it[r].values) \in Nat
    BY <2>3 DEF Property
  <2>5. a.index = v - 1 /\ v \in Nat \ {0}
    BY <2>1, <2>4 DEF IsValue
  <2>6. q = p => e > v
    BY <2>1, <2>2, <2>4 DEF IsValue
  <2> QED BY <1>0, <2>5, <2>6
<1> QED BY <1>1 DEF SetBefore

\* One more value of a property.
LEMMA SetElementSets ==
  ASSUME NEW k, NEW it \in Item, Distinct(it),
         NEW p \in 1 .. Len(it), Plain(k, it[p]), NEW e \in 1 .. Len(it[p].values)
  PROVE  PropSet(SetBefore(k, it, p, e), it[p].name, e - 1, it[p].values[e])
           = SetBefore(k, it, p, e + 1)
<1> DEFINE new == [name |-> it[p].name, index |-> e - 1, value |-> it[p].values[e]]
<1>0. Len(it) \in Nat /\ Len(it[p].values) \in Nat
  <2>1. it[p] \in Property
    BY DEF Item
  <2> QED BY <2>1 DEF Item, Property
<1>1. new \in Wanted(k, it)
  BY WantedMember DEF IsValue
<1>2. new \in SetBefore(k, it, p, e + 1)
  <2>1. new.name = it[p].name /\ new.index + 1 < e + 1
    BY <1>0
  <2> QED BY <1>1, <2>1 DEF SetBefore
<1>3. ASSUME NEW a \in SetBefore(k, it, p, e), a.name # it[p].name \/ a.index # e - 1
      PROVE  a \in SetBefore(k, it, p, e + 1)
  <2>1. PICK q \in 1 .. Len(it) : it[q].name = a.name /\ (q < p \/ (q = p /\ a.index + 1 < e))
    BY DEF SetBefore
  <2>2. a \in Wanted(k, it)
    BY DEF SetBefore
  <2>3. a.index \in Nat
    BY <2>2, WantedTyped DEF Assignment
  <2>4. q < p \/ (q = p /\ a.index + 1 < e + 1)
    BY <1>0, <2>1, <2>3
  <2> QED BY <2>1, <2>2, <2>4 DEF SetBefore
<1>4. ASSUME NEW a \in SetBefore(k, it, p, e + 1), a # new
      PROVE  a \in SetBefore(k, it, p, e) /\ (a.name # it[p].name \/ a.index # e - 1)
  <2>1. PICK q \in 1 .. Len(it) : it[q].name = a.name /\ (q < p \/ (q = p /\ a.index + 1 < e + 1))
    BY DEF SetBefore
  <2>2. a \in Wanted(k, it)
    BY DEF SetBefore
  <2>3. PICK r, v : IsValue(k, it, a, r, v)
    BY <2>2, WantedMember
  <2>4. r = q
    BY <2>1, <2>3 DEF Distinct, IsValue, Plain
  <2>5. q = p => v # e
    BY <1>4, <2>3, <2>4 DEF IsValue
  <2>6. Len(it[r].values) \in Nat
    <3>1. it[r] \in Property
      BY <2>3 DEF Item, IsValue
    <3> QED BY <3>1 DEF Property
  <2>7. a.index = v - 1 /\ v \in Nat
    BY <2>3, <2>6 DEF IsValue
  <2>8. q < p \/ (q = p /\ a.index + 1 < e)
    BY <1>0, <2>1, <2>5, <2>7
  <2>9. q = p => a.index # e - 1
    BY <1>0, <2>5, <2>7
  <2>10. q # p => a.name # it[p].name
    BY <2>1, <2>3, <2>4 DEF Distinct, IsValue, Plain
  <2> QED BY <2>1, <2>2, <2>8, <2>9, <2>10 DEF SetBefore
<1> QED BY <1>2, <1>3, <1>4 DEF PropSet

----------------------------------------------------------------------------
(* Where Describe is, whatever the OFX host refuses.                       *)

\* The item at the cursor, while its properties are set.
LEMMA CurrentItem ==
  ASSUME TypeOK, CursorInv, pc = "set"
  PROVE  /\ reply \in Replies /\ kind \in Kinds /\ Items # None
         /\ item \in 1 .. Len(Items) /\ Items \in Seq(Item \cup {None})
         /\ Current \in Item /\ Current # None /\ Distinct(Current) /\ ~Nameless(Current)
         /\ Len(Items) \in Nat /\ Len(Current) \in Nat
<1>1. reply \in Replies /\ kind \in Kinds /\ Items # None /\ Current # None /\ ~Nameless(Current)
  BY DEF TypeOK, CursorInv
<1>2. Items \in Seq(Item \cup {None})
  BY <1>1, ReplayAssumption DEF Reply, List, Kinds, Items
<1>3. Len(Items) \in Nat
  BY <1>2
<1>4. item \in 1 .. Len(Items)
  BY <1>3 DEF TypeOK, CursorInv
<1>5. Current \in Item /\ Distinct(Current)
  BY <1>1, <1>4, ItemFacts DEF Current, Items
<1>6. Len(Current) \in Nat
  BY <1>5 DEF Item
<1> QED BY <1>1, <1>2, <1>3, <1>4, <1>5, <1>6

\* A handle that the OFX host has given out.
LEMMA GivenHandle ==
  ASSUME TypeOK, handle \in Given
  PROVE  handle[1] \in Kinds /\ handle[2] \in 1 .. Len(defined[handle[1]])
<1>1. handle \in Handles /\ handle[2] <= Len(defined[handle[1]])
  BY DEF Given
<1>2. handle[1] \in Kinds /\ handle[2] \in 1 .. Len(defined["parameter"]) + Len(defined["input"])
  BY <1>1 DEF Handles
<1>3. Len(defined["parameter"]) \in Nat /\ Len(defined["input"]) \in Nat
  BY DEF TypeOK, Kinds
<1> QED BY <1>1, <1>2, <1>3

\* The value SetElement sets is of its type.
LEMMA ElementValue ==
  ASSUME TypeOK, CursorInv, pc = "set", property <= Len(Current),
         Current[property].values # None, element <= Len(Current[property].values)
  PROVE  /\ property \in 1 .. Len(Current) /\ Current[property] \in Property
         /\ element \in 1 .. Len(Current[property].values)
         /\ element - 1 \in Nat
         /\ Current[property].name \in Names /\ Current[property].name # None
         /\ Current[property].values[element] \in Values
<1>1. property \in 1 .. Len(Current)
  BY CurrentItem DEF TypeOK
<1>2. Current[property] \in Property
  BY <1>1, CurrentItem DEF Item
<1>3. /\ Current[property].values \in Seq(Values)
      /\ Current[property].name \in Names /\ Current[property].name # None
  BY <1>1, <1>2, CurrentItem DEF Property, Nameless
<1>4. element \in 1 .. Len(Current[property].values)
  BY <1>3 DEF TypeOK
<1>5. element - 1 \in Nat
  BY DEF TypeOK
<1> QED BY <1>1, <1>2, <1>3, <1>4, <1>5

LEMMA HandlesTyped ==
  ASSUME TypeOK
  PROVE  Handles \subseteq Kinds \X Nat
<1>1. ASSUME NEW m \in Nat PROVE Kinds \X (1 .. m) \subseteq Kinds \X Nat
  OBVIOUS
<1>2. \A s, t \in Seq(Definition) : Len(s) + Len(t) \in Nat
  OBVIOUS
<1>3. Len(defined["parameter"]) + Len(defined["input"]) \in Nat
  BY <1>2 DEF TypeOK, Kinds
<1> QED BY <1>1, <1>3 DEF Handles

LEMMA DefinedItem ==
  ASSUME TypeOK, NEW it,
         \A name \in SetByDefine(kind) : NameFor(it, name) # None
  PROVE  [name |-> NameFor(it, "Name"), values |-> {},
          type |-> IF kind = "parameter" THEN NameFor(it, "Type") ELSE None] \in Definition
<1>1. kind \in Kinds
  BY DEF TypeOK
<1>2. NameFor(it, "Name") = "Name"
  BY <1>1 DEF SetByDefine, NameFor, Kinds
<1>3. kind = "parameter" => NameFor(it, "Type") = "Type"
  BY <1>1 DEF SetByDefine, NameFor, Kinds
<1>4. (IF kind = "parameter" THEN NameFor(it, "Type") ELSE None) \in Names \cup {None}
  BY <1>3, ReplayAssumption
<1>5. NameFor(it, "Name") \in Names /\ {} \in SUBSET Assignment
  BY <1>2, ReplayAssumption
<1> QED BY <1>4, <1>5 DEF Definition

LEMMA AppendedItem ==
  ASSUME TypeOK, NEW d \in Definition,
         defined' = [defined EXCEPT ![kind] = Append(@, d)]
  PROVE  /\ defined' \in [Kinds -> Seq(Definition)]
         /\ Len(defined'[kind]) = Len(defined[kind]) + 1
         /\ Len(defined[kind]) \in Nat
         /\ defined'[kind][Len(defined[kind]) + 1] = d
         /\ \A n \in 1 .. Len(defined[kind]) : defined'[kind][n] = defined[kind][n]
         /\ \A k \in Kinds \ {kind} : defined'[k] = defined[k]
<1>1. kind \in Kinds /\ defined \in [Kinds -> Seq(Definition)]
  BY DEF TypeOK
<1>2. defined[kind] \in Seq(Definition) /\ defined'[kind] = Append(defined[kind], d)
  BY <1>1
<1>3. \A k \in Kinds \ {kind} : defined'[k] = defined[k]
  BY <1>1
<1>4. Append(defined[kind], d) \in Seq(Definition)
  BY <1>2
<1>5. defined' \in [Kinds -> Seq(Definition)]
  BY <1>1, <1>2, <1>4
<1> QED BY <1>2, <1>3, <1>5

\* Setting a value on a handle that was given out.
LEMMA SetOnHandle ==
  ASSUME TypeOK, handle \in Given, NEW vs \in SUBSET Assignment,
         defined' = [defined EXCEPT ![handle[1]][handle[2]].values = vs]
  PROVE  /\ defined' \in [Kinds -> Seq(Definition)]
         /\ \A k \in Kinds : Len(defined'[k]) = Len(defined[k])
         /\ defined'[handle[1]][handle[2]].values = vs
         /\ \A k \in Kinds : \A n \in 1 .. Len(defined[k]) :
              k # handle[1] \/ n # handle[2] => defined'[k][n] = defined[k][n]
<1> DEFINE h == handle[1]
           n == handle[2]
           d == [defined[h][n] EXCEPT !.values = vs]
<1>1. h \in Kinds /\ n \in 1 .. Len(defined[h]) /\ defined \in [Kinds -> Seq(Definition)]
  BY GivenHandle DEF TypeOK
<1>2. defined[h] \in Seq(Definition) /\ defined[h][n] \in Definition
  BY <1>1
<1>3. d \in Definition /\ d.values = vs
  BY <1>2 DEF Definition
<1>4. defined' = [defined EXCEPT ![h] = [defined[h] EXCEPT ![n] = d]]
  OBVIOUS
<1>5. defined'[h] = [defined[h] EXCEPT ![n] = d] /\ \A k \in Kinds \ {h} : defined'[k] = defined[k]
  BY <1>1, <1>4
<1> HIDE DEF d, h, n
<1>6. /\ [defined[h] EXCEPT ![n] = d] \in Seq(Definition)
      /\ Len([defined[h] EXCEPT ![n] = d]) = Len(defined[h])
      /\ [defined[h] EXCEPT ![n] = d][n] = d
      /\ \A m \in 1 .. Len(defined[h]) : m # n => [defined[h] EXCEPT ![n] = d][m] = defined[h][m]
  BY <1>1, <1>2, <1>3
<1>7. defined' \in [Kinds -> Seq(Definition)]
  BY <1>1, <1>4, <1>6
<1>8. \A k \in Kinds : Len(defined'[k]) = Len(defined[k])
  BY <1>5, <1>6
<1>9. defined'[h][n].values = vs
  BY <1>3, <1>5, <1>6
<1>10. \A k \in Kinds : \A m \in 1 .. Len(defined[k]) :
         k # h \/ m # n => defined'[k][m] = defined[k][m]
  BY <1>5, <1>6
<1> QED BY <1>7, <1>8, <1>9, <1>10 DEF h, n

LEMMA CallInit == Init => CallInv
  BY DEF Init, CallInv, TypeOK, CursorInv, FailureKept, Kinds

LEMMA ReceiveReplyCall ==
  ASSUME CallInv, NEW r \in Replies, ReceiveReply(r)
  PROVE  CallInv'
<1>1. r.status \in {"OK", "Failed"}
  BY ReplayAssumption DEF Reply
<1>2. TypeOK'
  BY <1>1 DEF CallInv, ReceiveReply, TypeOK, Return, Cursor
<1>3. CursorInv'
  BY <1>1 DEF CallInv, CursorInv, ReceiveReply, TypeOK, Return, Cursor
<1>4. FailureKept'
  BY <1>1 DEF CallInv, CursorInv, FailureKept, ReceiveReply, Return, Cursor
<1> QED BY <1>2, <1>3, <1>4 DEF CallInv

LEMMA DefineCall ==
  ASSUME CallInv, Define
  PROVE  CallInv'
<1> USE DEF CallInv
<1> DEFINE d == [name |-> NameFor(Current, "Name"), values |-> {},
                 type |-> IF kind = "parameter" THEN NameFor(Current, "Type") ELSE None]
<1>1. d \in Definition
  BY DefinedItem DEF Define
<1>2. defined' = [defined EXCEPT ![kind] = Append(@, d)] \/ UNCHANGED defined
  BY DEF Define
<1>3. defined' \in [Kinds -> Seq(Definition)]
  <2>1. CASE defined' = [defined EXCEPT ![kind] = Append(@, d)]
    <3> HIDE DEF d
    <3> QED BY <1>1, <2>1, AppendedItem
  <2>2. CASE UNCHANGED defined
    BY <2>2 DEF TypeOK
  <2> QED BY <1>2, <2>1, <2>2
<1>4. handle' \in (Kinds \cup {"wild"}) \X Nat
  <2>1. Len(defined[kind]) + 1 \in Nat /\ kind \in Kinds
    BY DEF TypeOK
  <2>2. Given \subseteq Kinds \X Nat
    BY HandlesTyped DEF Given
  <2> QED BY <2>1, <2>2 DEF Define
<1>5. TypeOK'
  BY <1>3, <1>4 DEF TypeOK, Define
<1>6. CursorInv'
  BY DEF CursorInv, TypeOK, Define, AtItem, Items, Current
<1>7. FailureKept'
  BY DEF CursorInv, FailureKept, Define, AtItem
<1> QED BY <1>5, <1>6, <1>7

LEMMA UndefinedCall ==
  ASSUME CallInv, MissingName \/ MissingVector \/ MissingValues
  PROVE  CallInv'
<1>1. /\ pc \in {"define", "set"} /\ pc' = "undefined"
      /\ UNCHANGED <<reply, Cursor, defined, refused, status>>
  BY DEF MissingName, MissingVector, MissingValues, AtItem
<1> QED BY <1>1 DEF CallInv, TypeOK, CursorInv, FailureKept, Cursor

LEMMA EndListCall ==
  ASSUME CallInv, EndList
  PROVE  CallInv'
<1>1. reply.status = "OK" /\ pc = "define" /\ status = "none"
  BY DEF CallInv, CursorInv, EndList
<1>2. TypeOK'
  BY <1>1 DEF CallInv, TypeOK, EndList, Kinds, Return
<1>3. CursorInv'
  BY <1>1 DEF CallInv, CursorInv, TypeOK, EndList, Kinds, Return
<1>4. FailureKept'
  BY <1>1 DEF CallInv, FailureKept, EndList
<1> QED BY <1>2, <1>3, <1>4 DEF CallInv

LEMMA EndItemCall ==
  ASSUME CallInv, EndItem
  PROVE  CallInv'
  BY DEF CallInv, TypeOK, CursorInv, FailureKept, EndItem

LEMMA NextPropertyCall ==
  ASSUME CallInv, NextProperty
  PROVE  CallInv'
<1>1. CursorInv'
  BY DEF CallInv, CursorInv, NextProperty, Items, Current
<1> QED BY <1>1 DEF CallInv, TypeOK, FailureKept, NextProperty

\* What the value set by SetElement is, and where it goes.
LEMMA SetElementEffect ==
  ASSUME TypeOK, CursorInv, SetElement, handle \in Given
  PROVE  LET new == PropSet(defined[handle[1]][handle[2]].values, Current[property].name,
                            element - 1, Current[property].values[element])
         IN  new \in SUBSET Assignment
<1>1. /\ Current[property].name \in Names /\ element - 1 \in Nat
      /\ Current[property].values[element] \in Values
  BY ElementValue DEF SetElement
<1>2. defined[handle[1]][handle[2]].values \in SUBSET Assignment
  <2>1. handle[1] \in Kinds /\ handle[2] \in 1 .. Len(defined[handle[1]])
    BY GivenHandle
  <2>2. defined[handle[1]] \in Seq(Definition)
    BY <2>1 DEF TypeOK
  <2>3. defined[handle[1]][handle[2]] \in Definition
    BY <2>1, <2>2
  <2> QED BY <2>3 DEF Definition
<1> QED BY <1>1, <1>2 DEF PropSet, Assignment

LEMMA SetElementCall ==
  ASSUME CallInv, SetElement
  PROVE  CallInv'
<1> USE DEF CallInv
<1>1. /\ pc = "set" /\ reply.status = "OK"
      /\ UNCHANGED <<reply, kind, item, property, handle, refused>>
  BY DEF SetElement, CursorInv
<1>2. defined' \in [Kinds -> Seq(Definition)]
  <2>1. CASE handle \in Given /\ defined' # defined
    BY <2>1, SetElementEffect, SetOnHandle DEF SetElement
  <2>2. CASE defined' = defined
    BY <2>2 DEF TypeOK
  <2>3. handle \notin Given => defined' = defined
    BY DEF SetElement
  <2> QED BY <2>1, <2>2, <2>3
<1>3. /\ pc' \in {"set", "undefined", "done"}
      /\ element' \in {element, element + 1}
      /\ status' = status \/ (pc' = "done" /\ status' = "Failed")
      /\ pc' = "done" => status' = "Failed"
  BY <1>1 DEF SetElement, Return
<1>4. TypeOK'
  BY <1>1, <1>2, <1>3 DEF TypeOK
<1>5. CursorInv'
  BY <1>1, <1>3 DEF CursorInv, Items, Current
<1>6. FailureKept'
  BY <1>1 DEF FailureKept
<1> QED BY <1>4, <1>5, <1>6

LEMMA CallNext ==
  ASSUME CallInv, [Next]_vars
  PROVE  CallInv'
<1>1. CASE \E r \in Replies : ReceiveReply(r)
  BY <1>1, ReceiveReplyCall
<1>2. CASE MissingName \/ MissingVector \/ MissingValues
  BY <1>2, UndefinedCall
<1>3. CASE Define
  BY <1>3, DefineCall
<1>4. CASE EndList
  BY <1>4, EndListCall
<1>5. CASE EndItem
  BY <1>5, EndItemCall
<1>6. CASE NextProperty
  BY <1>6, NextPropertyCall
<1>7. CASE SetElement
  BY <1>7, SetElementCall
<1>8. CASE UNCHANGED vars
  <2>1. CursorInv'
    BY <1>8 DEF CallInv, CursorInv, vars, Items, Current
  <2> QED BY <1>8, <2>1 DEF vars, CallInv, TypeOK, FailureKept
<1> QED BY <1>1, <1>2, <1>3, <1>4, <1>5, <1>6, <1>7, <1>8 DEF Next, Finished

LEMMA CallInvariant == Spec => []CallInv
<1>1. CallInv /\ [Next]_vars => CallInv'
  BY CallNext
<1> QED BY CallInit, <1>1, PTL DEF Spec

\* Every variable of the replay keeps its type, whatever arrives and whatever
\* the OFX host refuses.
THEOREM TypeCorrect == Spec => []TypeOK
<1>1. CallInv => TypeOK
  BY DEF CallInv
<1> QED BY CallInvariant, <1>1, PTL

\* A description that the remote effect did not complete is not reported as
\* one, and defines nothing in the OFX host.
THEOREM FailureKeptHolds == Spec => []FailureKept
<1>1. CallInv => FailureKept
  BY DEF CallInv
<1> QED BY CallInvariant, <1>1, PTL

----------------------------------------------------------------------------
(* What has been replayed, for an OFX host that accepts definitions.       *)

LEMMA ReplayInit == Init => ReplayInv
  BY CallInit DEF Init, ReplayInv, ListInv, ItemInv, UndefinedIncomplete, Kinds

LEMMA ReceiveReplyReplay ==
  ASSUME ReplayInv, NEW r \in Replies, ReceiveReply(r)
  PROVE  ListInv' /\ ItemInv' /\ UndefinedIncomplete'
<1>1. /\ kind' = "parameter" /\ item' = 1 /\ \A k \in Kinds : defined'[k] = <<>>
      /\ pc' \in {"define", "done"} /\ status' # "OK"
  BY DEF ReplayInv, CallInv, CursorInv, ReceiveReply, Return, Cursor
<1>2. ListInv'
  <2>1. Len(<<>>) = 0
    OBVIOUS
  <2>2. Items' # None => Len(Items') \in Nat
    <3>1. reply' = r /\ r["parameter"] \in List
      BY ReplayAssumption DEF ReceiveReply, Reply
    <3> QED BY <1>1, <3>1 DEF Items, List
  <2> QED BY <1>1, <2>1, <2>2 DEF ListInv, ReplayedBefore, Kinds
<1> QED BY <1>1, <1>2 DEF ItemInv, UndefinedIncomplete

LEMMA DefineReplay ==
  ASSUME ReplayInv, refused \in Nat, refused' = 0, Define, pc' = "set"
  PROVE  ListInv' /\ ItemInv' /\ UndefinedIncomplete'
<1> USE DEF ReplayInv, CallInv
<1> DEFINE d == [name |-> NameFor(Current, "Name"), values |-> {},
                 type |-> IF kind = "parameter" THEN NameFor(Current, "Type") ELSE None]
<1>1. d \in Definition /\ d.values = {}
  BY DefinedItem DEF Define
<1>2. /\ defined' = [defined EXCEPT ![kind] = Append(@, d)]
      /\ handle' = <<kind, Len(defined[kind]) + 1>>
      /\ pc = "define" /\ pc' = "set" /\ property' = 1 /\ element' = 1
      /\ UNCHANGED <<reply, kind, item, status>>
      /\ Items # None /\ item <= Len(Items) /\ Current # None
  BY DEF Define, AtItem
<1> HIDE DEF d
<1>3. /\ Len(defined'[kind]) = Len(defined[kind]) + 1
      /\ Len(defined[kind]) \in Nat
      /\ defined'[kind][Len(defined[kind]) + 1] = d
      /\ \A n \in 1 .. Len(defined[kind]) : defined'[kind][n] = defined[kind][n]
      /\ \A k \in Kinds \ {kind} : defined'[k] = defined[k]
  BY <1>1, <1>2, AppendedItem
<1>4. Len(defined[kind]) = item - 1 /\ item \in Nat /\ kind \in Kinds
  BY <1>2 DEF ListInv, TypeOK
<1>5. Items' = Items /\ Current' = Current
  BY <1>2 DEF Items, Current
<1>7. Current' \in Item /\ Len(Current') \in Nat /\ Len(Items') \in Nat
  <2>1. reply \in Replies
    BY <1>2 DEF CursorInv
  <2>2. Items \in Seq(Item \cup {None})
    BY <1>2, <1>4, <2>1, ReplayAssumption DEF Reply, List, Kinds, Items
  <2>3. item \in 1 .. Len(Items) /\ Len(Items) \in Nat
    BY <1>2, <1>4, <2>2 DEF TypeOK
  <2>4. Current \in Item
    BY <1>2, <2>2, <2>3 DEF Current
  <2> QED BY <1>5, <2>3, <2>4 DEF Item
<1>8. ReplayedBefore(kind, item)'
  BY <1>2, <1>3, <1>4 DEF ListInv, ReplayedBefore
<1>9. ListInv'
  <2>1. kind = "input" => ReplayedBefore("parameter", Len(reply["parameter"]) + 1)'
    BY <1>2, <1>3 DEF ListInv, ReplayedBefore, Kinds
  <2>2. kind = "input" => defined'["parameter"] = defined["parameter"]
    BY <1>3 DEF Kinds
  <2>3. kind = "parameter" => defined'["input"] = defined["input"]
    BY <1>3 DEF Kinds
  <2>4. status' = "none"
    BY <1>2 DEF CursorInv
  <2>5. item <= Len(Items) + 1 /\ Len(defined'[kind]) = item
    BY <1>2, <1>3, <1>4, <1>5, <1>7
  <2> QED BY <1>2, <1>5, <1>8, <2>1, <2>2, <2>3, <2>4, <2>5 DEF ListInv
<1>10. ItemInv'
  <2>1. defined'[kind][item].values = {}
    BY <1>1, <1>3, <1>4
  <2>2. SetBefore(kind, Current', 1, 1) = {}
    BY <1>7, NothingSetFirst
  <2>3. handle' = <<kind, item>> /\ 1 <= Len(Current') + 1
    BY <1>2, <1>4, <1>7
  <2>4. SetBefore(kind, Current, property, element)' = SetBefore(kind, Current', 1, 1)
    BY <1>2 DEF SetBefore
  <2> QED BY <1>2, <2>1, <2>2, <2>3, <2>4 DEF ItemInv
<1> QED BY <1>2, <1>9, <1>10 DEF UndefinedIncomplete

\* An input without attributes().
LEMMA BareReplay ==
  ASSUME ReplayInv, Define, pc' # "set"
  PROVE  ListInv' /\ ItemInv' /\ UndefinedIncomplete'
<1>1. /\ pc' = "undefined" /\ item \in reply.bare /\ reply' = reply /\ status' = status
      /\ pc = "define"
  BY DEF Define, AtItem
<1>2. status' = "none"
  BY <1>1 DEF ReplayInv, CallInv, CursorInv
<1>3. ~Complete(reply)
  BY <1>1 DEF Complete
<1> QED BY <1>1, <1>2, <1>3 DEF ListInv, ItemInv, UndefinedIncomplete, Complete

LEMMA UndefinedReplay ==
  ASSUME ReplayInv, MissingName \/ MissingVector \/ MissingValues
  PROVE  ListInv' /\ ItemInv' /\ UndefinedIncomplete'
<1>1. /\ pc \in {"define", "set"} /\ pc' = "undefined" /\ status' = status
      /\ reply' = reply /\ kind \in Kinds /\ status = "none"
  BY DEF MissingName, MissingVector, MissingValues, AtItem, ReplayInv, CallInv, TypeOK, CursorInv
<1>2. ~Complete(reply)
  <2>1. SUFFICES ASSUME Complete(reply) PROVE FALSE
    OBVIOUS
  <2>2. Items # None /\ reply \in Replies
    BY <1>1, <2>1 DEF Complete, Items, ReplayInv, CallInv, CursorInv
  <2>3. Len(Items) \in Nat
    BY <1>1, <2>2, ReplayAssumption DEF Reply, List, Kinds, Items
  <2>4. item <= Len(Items) => item \in 1 .. Len(Items)
    BY <2>3 DEF ReplayInv, CallInv, TypeOK
  <2>5. item <= Len(Items) => CompleteItem(kind, Current)
    BY <1>1, <2>1, <2>4 DEF Complete, Items, Current
  <2>6. CASE MissingVector
    BY <2>2, <2>5, <2>6 DEF MissingVector, CompleteItem
  <2>7. CASE MissingName
    <3>1. ~Nameless(Current) /\ \A name \in SetByDefine(kind) : Has(Current, name)
      BY <2>5, <2>7 DEF MissingName, AtItem, CompleteItem
    <3>2. PICK name \in SetByDefine(kind) : NameFor(Current, name) = None
      BY <2>7, <3>1 DEF MissingName
    <3>3. NameFor(Current, name) = name
      BY <3>1, <3>2 DEF NameFor
    <3>4. name # None
      BY <1>1, <3>2, ReplayAssumption DEF SetByDefine, Kinds
    <3> QED BY <3>2, <3>3, <3>4
  <2>8. CASE MissingValues
    <3>1. /\ item \in 1 .. Len(Items) /\ property \in 1 .. Len(Current)
      BY <2>8, CurrentItem DEF MissingValues, ReplayInv, CallInv, TypeOK
    <3> QED BY <2>5, <2>8, <3>1 DEF MissingValues, CompleteItem
  <2> QED BY <2>6, <2>7, <2>8
<1>3. UndefinedIncomplete'
  BY <1>1, <1>2 DEF UndefinedIncomplete, Complete
<1> QED BY <1>1, <1>3 DEF ListInv, ItemInv

LEMMA EndListReplay ==
  ASSUME ReplayInv, EndList
  PROVE  ListInv' /\ ItemInv' /\ UndefinedIncomplete'
<1> USE DEF ReplayInv, CallInv
<1>1. /\ pc = "define" /\ Items # None /\ item > Len(Items)
      /\ UNCHANGED <<reply, defined>> /\ pc' \in {"define", "done"}
      /\ kind \in Kinds /\ item \in Nat \ {0} /\ status = "none"
  BY DEF EndList, Return, TypeOK, CursorInv
<1>2. Len(Items) \in Nat
  BY <1>1, ReplayAssumption DEF CursorInv, Reply, List, Kinds, Items
<1>3. item = Len(Items) + 1 /\ Len(defined[kind]) = Len(Items)
  BY <1>1, <1>2 DEF ListInv
<1>4. ReplayedBefore(kind, Len(reply[kind]) + 1)
  BY <1>1, <1>3 DEF ListInv, Items
<1>5. CASE kind = "parameter"
  <2>1. /\ kind' = "input" /\ item' = 1 /\ UNCHANGED <<pc, status>>
    BY <1>5 DEF EndList
  <2>2. defined["input"] = <<>>
    BY <1>1, <1>5 DEF ListInv
  <2>3. Items' # None => Len(Items') \in Nat
    BY <1>1, <2>1, ReplayAssumption DEF CursorInv, Reply, List, Kinds, Items
  <2>4. Len(<<>>) = 0
    OBVIOUS
  <2>5. ReplayedBefore("parameter", Len(reply["parameter"]) + 1)'
    BY <1>1, <1>4, <1>5 DEF ReplayedBefore
  <2>6. ReplayedBefore(kind, item)'
    BY <1>1, <2>1, <2>2, <2>4 DEF ReplayedBefore
  <2>7. ListInv'
    BY <1>1, <1>3, <1>5, <2>1, <2>2, <2>3, <2>4, <2>5, <2>6 DEF ListInv, Items
  <2> QED BY <1>1, <2>1, <2>7 DEF ItemInv, UndefinedIncomplete
<1>6. CASE kind = "input"
  <2>1. UNCHANGED <<kind, item>> /\ pc' = "done"
    BY <1>6 DEF EndList, Return
  <2>2. ReplayedBefore("parameter", Len(reply["parameter"]) + 1)'
    BY <1>1, <1>6 DEF ListInv, ReplayedBefore
  <2>3. ReplayedBefore(kind, item)'
    BY <1>1, <2>1 DEF ListInv, ReplayedBefore
  <2>4. ListInv'
    BY <1>1, <1>2, <1>3, <1>6, <2>1, <2>2, <2>3 DEF ListInv, Items
  <2> QED BY <2>1, <2>4 DEF ItemInv, UndefinedIncomplete
<1> QED BY <1>1, <1>5, <1>6 DEF Kinds

LEMMA EndItemReplay ==
  ASSUME ReplayInv, EndItem
  PROVE  ListInv' /\ ItemInv' /\ UndefinedIncomplete'
<1> USE DEF ReplayInv, CallInv
<1>1. /\ pc = "set" /\ property > Len(Current) /\ pc' = "define" /\ item' = item + 1
      /\ UNCHANGED <<reply, kind, defined, status>>
  BY DEF EndItem
<1>2. /\ Items # None /\ item \in 1 .. Len(Items) /\ Len(Items) \in Nat
      /\ Current \in Item /\ Len(Current) \in Nat /\ property \in Nat
  BY <1>1, CurrentItem DEF TypeOK
<1>3. property = Len(Current) + 1
  BY <1>1, <1>2 DEF ItemInv
<1>4. defined[kind][item].values = Wanted(kind, reply[kind][item])
  BY <1>1, <1>2, <1>3, AllSetLast DEF ItemInv, Current, Items
<1>5. ReplayedBefore(kind, item)
  BY <1>1 DEF ListInv
<1>6. Len(defined[kind]) = item
  BY <1>1 DEF ListInv
<1>7. ReplayedBefore(kind, item)'
  <2>1. \A m \in 1 .. Len(defined[kind]) : m < item + 1 => m < item \/ m = item
    BY <1>2, <1>6
  <2> QED BY <1>1, <1>4, <1>5, <2>1 DEF ReplayedBefore
<1>8. kind = "input" => ReplayedBefore("parameter", Len(reply["parameter"]) + 1)'
  BY <1>1 DEF ListInv, ReplayedBefore
<1>9. Items' = Items /\ item' <= Len(Items) + 1 /\ Len(defined[kind]) = item' - 1
  BY <1>1, <1>2, <1>6 DEF Items
<1>10. status' = "none"
  BY <1>1 DEF CursorInv
<1>11. ListInv'
  BY <1>1, <1>7, <1>8, <1>9, <1>10 DEF ListInv
<1> QED BY <1>1, <1>11 DEF ItemInv, UndefinedIncomplete

\* What stays of ListInv while the properties of an item are set.
LEMMA SettingList ==
  ASSUME ReplayInv, pc = "set", pc' \in {"set", "done"}, pc' = "set" => status' = status,
         status' \in {"none", "Failed"}, UNCHANGED <<reply, kind, item>>,
         \A k \in Kinds \ {kind} : defined'[k] = defined[k],
         Len(defined'[kind]) = Len(defined[kind]),
         \A n \in 1 .. Len(defined[kind]) : n # item => defined'[kind][n] = defined[kind][n]
  PROVE  ListInv'
<1> USE DEF ReplayInv, CallInv
<1>0. CASE pc' = "done"
  BY <1>0 DEF ListInv
<1>1. CASE pc' = "set"
  <2>1. kind \in Kinds /\ Items' = Items /\ Current' = Current
    BY DEF TypeOK, Items, Current
  <2>2. ReplayedBefore(kind, item)'
    BY <2>1 DEF ListInv, ReplayedBefore, TypeOK
  <2>3. kind = "input" => ReplayedBefore("parameter", Len(reply["parameter"]) + 1)'
    BY DEF ListInv, ReplayedBefore, Kinds
  <2>4. kind = "input" => defined'["parameter"] = defined["parameter"]
    BY DEF Kinds
  <2>5. kind = "parameter" => defined'["input"] = defined["input"]
    BY DEF Kinds
  <2> QED BY <1>1, <2>1, <2>2, <2>3, <2>4, <2>5 DEF ListInv
<1> QED BY <1>0, <1>1

\* The handle given out last for a list.
LEMMA LastHandle ==
  ASSUME TypeOK, NEW k \in Kinds, NEW n \in Nat \ {0}, n = Len(defined[k])
  PROVE  <<k, n>> \in Given
<1>1. ASSUME NEW a \in Nat, NEW b \in Nat, n = a \/ n = b
      PROVE  n \in 1 .. a + b
  BY <1>1
<1>2. \A s \in Seq(Definition) : Len(s) \in Nat
  OBVIOUS
<1>3. Len(defined["parameter"]) \in Nat /\ Len(defined["input"]) \in Nat
  BY <1>2 DEF TypeOK, Kinds
<1>4. n = Len(defined["parameter"]) \/ n = Len(defined["input"])
  BY DEF Kinds
<1>5. n \in 1 .. Len(defined["parameter"]) + Len(defined["input"])
  BY <1>1, <1>3, <1>4
<1> DEFINE h == <<k, n>>
<1>6. h \in Handles
  BY <1>5 DEF Handles
<1>7. h[1] = k /\ h[2] = n /\ n <= Len(defined[k])
  OBVIOUS
<1> HIDE DEF h
<1>8. h \in Given
  BY <1>6, <1>7 DEF Given
<1> QED BY <1>8 DEF h

LEMMA NextPropertyReplay ==
  ASSUME ReplayInv, NextProperty
  PROVE  ListInv' /\ ItemInv' /\ UndefinedIncomplete'
<1> USE DEF ReplayInv, CallInv
<1>1. /\ pc = "set" /\ pc' = "set" /\ property <= Len(Current)
      /\ property' = property + 1 /\ element' = 1
      /\ \/ ~(ToBeSet(kind, Current[property]) /\ Current[property].values # None)
         \/ element > Len(Current[property].values)
      /\ UNCHANGED <<reply, kind, item, handle, defined, status>>
  BY DEF NextProperty
<1>2. /\ kind \in Kinds /\ Current \in Item /\ Distinct(Current) /\ Len(Current) \in Nat
      /\ property \in Nat \ {0} /\ element \in Nat \ {0} /\ ~Nameless(Current)
  BY <1>1, CurrentItem DEF TypeOK
<1>3. /\ property \in 1 .. Len(Current) /\ Current[property] \in Property
      /\ Current[property].name # None
  BY <1>1, <1>2 DEF Item, Nameless
<1>4. ~Plain(kind, Current[property]) \/ element > Len(Current[property].values)
  BY <1>1, <1>2, <1>3, PlainIsToBeSet
<1>5. SetBefore(kind, Current, property, element) = SetBefore(kind, Current, property + 1, 1)
  BY <1>2, <1>3, <1>4, NextPropertySets
<1>6. Current' = Current
  BY <1>1 DEF Items, Current
<1>7. SetBefore(kind, Current, property, element)' = SetBefore(kind, Current, property + 1, 1)
  BY <1>1, <1>6 DEF SetBefore
<1>8. ItemInv'
  BY <1>1, <1>2, <1>3, <1>5, <1>6, <1>7 DEF ItemInv
<1>9. status' \in {"none", "Failed"}
  BY <1>1 DEF CursorInv
<1>10. ListInv'
  BY <1>1, <1>9, SettingList
<1> QED BY <1>1, <1>8, <1>10 DEF UndefinedIncomplete

LEMMA SetElementReplay ==
  ASSUME ReplayInv, SetElement
  PROVE  ListInv' /\ ItemInv' /\ UndefinedIncomplete'
<1> USE DEF ReplayInv, CallInv
<1> DEFINE p == Current[property]
           new == PropSet(defined[handle[1]][handle[2]].values, p.name, element - 1,
                          p.values[element])
<1>1. /\ pc = "set" /\ property <= Len(Current) /\ ToBeSet(kind, p)
      /\ p.values # None /\ element <= Len(p.values) /\ handle = <<kind, item>>
      /\ UNCHANGED <<reply, kind, item, property, handle>>
  BY DEF SetElement, ItemInv
<1>2. /\ kind \in Kinds /\ Current \in Item /\ Distinct(Current) /\ item \in Nat \ {0}
      /\ property \in 1 .. Len(Current) /\ p \in Property /\ element \in 1 .. Len(p.values)
      /\ p.name # None /\ status = "none"
  BY <1>1, CurrentItem, ElementValue DEF TypeOK, CursorInv
<1>3. Len(defined[kind]) = item
  BY <1>1 DEF ListInv
<1>4. handle \in Given
  BY <1>1, <1>2, <1>3, LastHandle
<1>5. Current' = Current
  BY <1>1 DEF Items, Current
<1>6. CASE pc' = "done"
  <2>1. defined' = defined /\ status' = "Failed"
    BY <1>1, <1>6 DEF SetElement, Return
  <2>2. ListInv'
    BY <1>1, <1>6, <2>1, SettingList
  <2> QED BY <1>6, <2>2 DEF ItemInv, UndefinedIncomplete
<1>7. CASE pc' # "done"
  <2>1. /\ pc' = "set" /\ element' = element + 1 /\ status' = status
        /\ defined' = [defined EXCEPT ![handle[1]][handle[2]].values = new]
    BY <1>4, <1>7 DEF SetElement, Return
  <2>2. new \in SUBSET Assignment
    BY <1>4, SetElementEffect
  <2>3. new = SetBefore(kind, Current, property, element + 1)
    <3>1. Plain(kind, p)
      BY <1>1, <1>2, PlainIsToBeSet
    <3>2. defined[handle[1]][handle[2]].values = SetBefore(kind, Current, property, element)
      BY <1>1 DEF ItemInv
    <3> QED BY <1>2, <3>1, <3>2, SetElementSets
  <2> HIDE DEF new
  <2>4. /\ \A k \in Kinds : Len(defined'[k]) = Len(defined[k])
        /\ defined'[kind][item].values = new
        /\ \A k \in Kinds : \A n \in 1 .. Len(defined[k]) :
             k # kind \/ n # item => defined'[k][n] = defined[k][n]
        /\ \A k \in Kinds \ {kind} : defined'[k] = defined[k]
    <3>1. \A k \in Kinds \ {kind} : defined'[k] = defined[k]
      BY <1>1, <2>1 DEF TypeOK
    <3>2. handle[1] = kind /\ handle[2] = item
      BY <1>1
    <3> HIDE DEF p
    <3>3. /\ \A k \in Kinds : Len(defined'[k]) = Len(defined[k])
          /\ defined'[handle[1]][handle[2]].values = new
          /\ \A k \in Kinds : \A n \in 1 .. Len(defined[k]) :
               k # handle[1] \/ n # handle[2] => defined'[k][n] = defined[k][n]
      BY <1>4, <2>1, <2>2, SetOnHandle
    <3> QED BY <3>1, <3>2, <3>3
  <2>5. ListInv'
    BY <1>1, <1>2, <2>1, <2>4, SettingList
  <2>6. SetBefore(kind, Current, property, element)'
          = SetBefore(kind, Current, property, element + 1)
    BY <1>1, <1>5, <2>1 DEF SetBefore
  <2>7. ItemInv'
    BY <1>1, <1>5, <2>1, <2>3, <2>4, <2>6 DEF ItemInv
  <2> QED BY <2>1, <2>5, <2>7 DEF UndefinedIncomplete
<1> QED BY <1>6, <1>7

LEMMA ReplayNext ==
  ASSUME ReplayInv, refused \in Nat, refused' = 0, [Next]_vars
  PROVE  ReplayInv'
<1>1. CASE \E r \in Replies : ReceiveReply(r)
  BY <1>1, ReceiveReplyReplay, CallNext DEF ReplayInv
<1>2. CASE MissingName \/ MissingVector \/ MissingValues
  BY <1>2, UndefinedReplay, CallNext DEF ReplayInv
<1>3. CASE Define
  BY <1>3, DefineReplay, BareReplay, CallNext DEF ReplayInv
<1>4. CASE EndList
  BY <1>4, EndListReplay, CallNext DEF ReplayInv
<1>5. CASE EndItem
  BY <1>5, EndItemReplay, CallNext DEF ReplayInv
<1>6. CASE NextProperty
  BY <1>6, NextPropertyReplay, CallNext DEF ReplayInv
<1>7. CASE SetElement
  BY <1>7, SetElementReplay, CallNext DEF ReplayInv
<1>8. CASE UNCHANGED vars
  <2>1. Items' = Items /\ Current' = Current
    BY <1>8 DEF vars, Items, Current
  <2>2. ListInv'
    BY <1>8, <2>1 DEF vars, ReplayInv, ListInv, ReplayedBefore
  <2>3. ItemInv'
    BY <1>8, <2>1 DEF vars, ReplayInv, ItemInv, SetBefore
  <2>4. UndefinedIncomplete'
    BY <1>8 DEF vars, ReplayInv, UndefinedIncomplete
  <2> QED BY <2>2, <2>3, <2>4, CallNext DEF ReplayInv
<1> QED BY <1>1, <1>2, <1>3, <1>4, <1>5, <1>6, <1>7, <1>8 DEF Next, Finished

LEMMA ReplayedAll ==
  ASSUME ReplayInv
  PROVE  FaithfulReplay
<1> USE DEF ReplayInv, CallInv
<1> SUFFICES ASSUME status = "OK", NEW k \in Kinds
             PROVE  /\ Len(defined[k]) = Len(reply[k])
                    /\ \A n \in 1 .. Len(reply[k]) :
                         defined[k][n].values = Wanted(k, reply[k][n])
  BY DEF FaithfulReplay
<1>1. kind = "input" /\ reply \in Replies /\ pc = "done"
  BY DEF CursorInv
<1>2. reply[k] # None
  BY <1>1 DEF ListInv, Kinds, Items
<1>3. Len(reply[k]) \in Nat
  BY <1>1, <1>2, ReplayAssumption DEF Reply, List, Kinds
<1>4. Len(defined[k]) = Len(reply[k])
  BY <1>1, <1>3 DEF ListInv, Kinds, Items, TypeOK
<1>5. ReplayedBefore(k, Len(reply[k]) + 1)
  BY <1>1 DEF ListInv, Kinds, Items
<1>6. \A n \in 1 .. Len(reply[k]) : n < Len(reply[k]) + 1
  BY <1>3
<1> QED BY <1>4, <1>5, <1>6 DEF ReplayedBefore

\* A refused definition stays refused.
LEMMA RefusedStays ==
  ASSUME refused \in Nat, [Next]_vars, refused' = 0
  PROVE  refused = 0
<1>1. CASE Define
  BY <1>1 DEF Define
<1>2. CASE UNCHANGED refused
  BY <1>2
<1> QED
  BY <1>1, <1>2 DEF Next, ReceiveReply, MissingName, MissingVector, MissingValues,
                    EndList, EndItem, NextProperty, SetElement, Finished, vars

LEMMA DescribeInvariant == Spec => []DescribeInv
<1>1. Init => DescribeInv
  BY ReplayInit DEF DescribeInv, ReplayInv
<1>2. ASSUME DescribeInv, [Next]_vars
      PROVE  DescribeInv'
  <2>1. CallInv /\ CallInv' /\ refused \in Nat
    BY <1>2, CallNext DEF DescribeInv, CallInv, TypeOK
  <2>2. ASSUME refused' = 0
        PROVE  ReplayInv'
    BY <1>2, <2>1, <2>2, ReplayNext, RefusedStays DEF DescribeInv
  <2> QED BY <2>1, <2>2 DEF DescribeInv
<1> QED BY <1>1, <1>2, PTL DEF Spec

\* An OFX host that accepts definitions, whatever properties it refuses:
\* Describe returns kOfxStatOK only when every value has been replayed to the
\* parameter or input it belongs to.
THEOREM FaithfulReplayHolds == Spec => []FaithfulReplay
<1>1. DescribeInv => FaithfulReplay
  BY ReplayedAll DEF DescribeInv, FaithfulReplay
<1> QED BY DescribeInvariant, <1>1, PTL

\* With such a host a complete message leads to no undefined behaviour.
THEOREM NoUndefinedHolds == Spec => []NoUndefined
<1>1. DescribeInv => NoUndefined
  BY DEF DescribeInv, ReplayInv, UndefinedIncomplete, NoUndefined, CallInv, TypeOK
<1> QED BY DescribeInvariant, <1>1, PTL

----------------------------------------------------------------------------
(* Values come from the description, whatever the OFX host refuses.        *)

\* The description r gives value v.
Gives(r, v) ==
  \E l \in Kinds : r[l] # None /\
    \E m \in 1 .. Len(r[l]) : r[l][m] # None /\ v \in Wanted(l, r[l][m])

LEMMA InventedDef ==
  NothingInvented <=>
    \A k \in Kinds : \A n \in 1 .. Len(defined[k]) :
      \A v \in defined[k][n].values : Gives(reply, v)
  BY DEF NothingInvented, Gives

LEMMA InventedNext ==
  ASSUME CallInv, NothingInvented, [Next]_vars
  PROVE  NothingInvented'
<1> USE DEF CallInv
<1>0. \A k \in Kinds : \A n \in 1 .. Len(defined[k]) :
        \A v \in defined[k][n].values : Gives(reply, v)
  BY InventedDef
<1> SUFFICES ASSUME NEW k \in Kinds, NEW n \in 1 .. Len(defined'[k]),
                    NEW v \in defined'[k][n].values
             PROVE  Gives(reply', v)
  BY DEF NothingInvented, Gives
<1>1. CASE \E r \in Replies : ReceiveReply(r)
  <2>1. defined'[k] = <<>>
    BY <1>1 DEF ReceiveReply, CursorInv
  <2> QED BY <2>1
<1>2. CASE UNCHANGED <<reply, defined>>
  BY <1>0, <1>2
<1>3. CASE Define
  <2> DEFINE d == [name |-> NameFor(Current, "Name"), values |-> {},
                   type |-> IF kind = "parameter" THEN NameFor(Current, "Type") ELSE None]
  <2>1. d \in Definition /\ d.values = {}
    BY <1>3, DefinedItem DEF Define
  <2>2. CASE defined' = [defined EXCEPT ![kind] = Append(@, d)]
    <3> HIDE DEF d
    <3>1. /\ Len(defined'[kind]) = Len(defined[kind]) + 1
          /\ Len(defined[kind]) \in Nat
          /\ defined'[kind][Len(defined[kind]) + 1] = d
          /\ \A m \in 1 .. Len(defined[kind]) : defined'[kind][m] = defined[kind][m]
          /\ \A l \in Kinds \ {kind} : defined'[l] = defined[l]
      BY <2>1, <2>2, AppendedItem
    <3>2. CASE k # kind
      <4>1. defined'[k] = defined[k]
        BY <3>1, <3>2
      <4> QED BY <1>0, <1>3, <4>1 DEF Define
    <3>3. CASE k = kind
      <4>1. n # Len(defined[kind]) + 1
        BY <2>1, <3>1, <3>3
      <4>2. n \in 1 .. Len(defined[k])
        BY <3>1, <3>3, <4>1
      <4>3. defined'[k][n] = defined[k][n]
        BY <3>1, <3>3, <4>2
      <4> QED BY <1>0, <1>3, <4>2, <4>3 DEF Define
    <3> QED BY <3>2, <3>3
  <2>3. CASE UNCHANGED defined
    BY <1>0, <1>3, <2>3 DEF Define
  <2> QED BY <1>3, <2>2, <2>3 DEF Define
<1>4. CASE SetElement /\ handle \in Given /\ defined' # defined
  <2> DEFINE p == Current[property]
             old == defined[handle[1]][handle[2]].values
             new == PropSet(old, p.name, element - 1, p.values[element])
  <2>1. /\ pc = "set" /\ property <= Len(Current) /\ ToBeSet(kind, p)
        /\ p.values # None /\ element <= Len(p.values) /\ reply' = reply
        /\ defined' = [defined EXCEPT ![handle[1]][handle[2]].values = new]
    BY <1>4 DEF SetElement
  <2>2. new \in SUBSET Assignment
    BY <1>4, SetElementEffect
  <2>3. handle[1] \in Kinds /\ handle[2] \in 1 .. Len(defined[handle[1]])
    BY <1>4, GivenHandle
  <2>4. Gives(reply, [name |-> p.name, index |-> element - 1, value |-> p.values[element]])
    <3>1. /\ kind \in Kinds /\ Items # None /\ item \in 1 .. Len(Items)
          /\ Current \in Item /\ Current # None
      BY <2>1, CurrentItem
    <3>2. /\ property \in 1 .. Len(Current) /\ p \in Property
          /\ element \in 1 .. Len(p.values) /\ p.name # None
      BY <2>1, ElementValue
    <3>3. Plain(kind, p)
      BY <2>1, <3>1, <3>2, PlainIsToBeSet
    <3>4. [name |-> p.name, index |-> element - 1, value |-> p.values[element]]
            \in Wanted(kind, Current)
      BY <3>2, <3>3, WantedMember DEF IsValue
    <3> HIDE DEF p
    <3> QED BY <3>1, <3>4 DEF Gives, Items, Current
  <2>5. \A a \in new : a \in old \/
          a = [name |-> p.name, index |-> element - 1, value |-> p.values[element]]
    BY DEF PropSet
  <2> HIDE DEF p, new
  <2>6. /\ Len(defined'[k]) = Len(defined[k])
        /\ defined'[handle[1]][handle[2]].values = new
        /\ k # handle[1] \/ n # handle[2] => defined'[k][n] = defined[k][n]
    BY <1>4, <2>1, <2>2, SetOnHandle
  <2>7. CASE k = handle[1] /\ n = handle[2]
    BY <1>0, <2>1, <2>3, <2>4, <2>5, <2>6, <2>7
  <2>8. CASE k # handle[1] \/ n # handle[2]
    BY <1>0, <2>1, <2>6, <2>8
  <2> QED BY <2>7, <2>8
<1>5. CASE SetElement /\ defined' = defined
  BY <1>0, <1>5 DEF SetElement
<1>6. SetElement /\ handle \notin Given => defined' = defined
  BY DEF SetElement
<1>7. MissingName \/ MissingVector \/ MissingValues \/ EndList \/ EndItem \/ NextProperty
        \/ UNCHANGED vars
        => UNCHANGED <<reply, defined>>
  BY DEF MissingName, MissingVector, MissingValues, EndList, EndItem, NextProperty, vars
<1> QED BY <1>1, <1>2, <1>3, <1>4, <1>5, <1>6, <1>7 DEF Next, Finished

\* Whatever the OFX host refuses, and whatever its refusals leave in the
\* handles, no value but those of the description is set.
THEOREM NothingInventedHolds == Spec => []NothingInvented
<1>1. Init => NothingInvented
  BY DEF Init, NothingInvented, Kinds
<1>2. CallInv /\ NothingInvented /\ [Next]_vars => NothingInvented'
  BY InventedNext
<1> QED BY CallInvariant, <1>1, <1>2, PTL DEF Spec
============================================================================
