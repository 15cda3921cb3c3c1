---------------------------- MODULE FlexBuffers ----------------------------
(***************************************************************************)
(* flexbuffers.h: a Builder, the values its caller puts together with it,  *)
(* and the changes made to the finished buffer in place.                   *)
(*                                                                         *)
(* The caller keeps to the asserts of the Builder.  What it put in is kept *)
(* in built, one item for each value on the stack, to compare with what is *)
(* read.                                                                   *)
(***************************************************************************)
EXTENDS FlexVerifier

CONSTANTS
  Menus,         \* what callers use: a set of records of sets of values, texts and flags
  MaxPuts,       \* bound on the values put into a buffer
  MaxBuffers,    \* bound on the buffers begun
  MaxMutations   \* bound on the changes made to a finished buffer

ASSUME FlexAssumption == {MaxPuts, MaxBuffers, MaxMutations} \subseteq Nat

VARIABLES
  menu,          \* what this caller uses
  buf,           \* buf_
  stack,         \* stack_
  finished,      \* finished_
  duplicates,    \* has_duplicate_keys_
  forced,        \* force_min_bit_width_
  key_pool,      \* offsets of keys
  string_pool,   \* offsets and lengths of strings
  open,          \* the vectors and maps begun, the innermost last
  built,         \* what the values on the stack are
  known,         \* the values and items that the caller can put in again
  puts, buffers, \* counters
  floor,         \* the least width that the vectors and maps were to have
  changes        \* changes made to the buffer: what was asked and whether it was done

builder == <<buf, stack, finished, duplicates, forced, key_pool, string_pool>>
caller  == <<menu, open, built, known, puts, buffers, floor, changes>>
vars    == <<builder, caller>>

\* An item: what a value is to the caller.
Item(kind, n) == [kind |-> kind, n |-> n, text |-> <<>>, parts |-> <<>>, pairs |-> {}]
TextItem(kind, text) == [Item(kind, 0) EXCEPT !.text = text]
VectorItem(parts)    == [Item("vector", Len(parts)) EXCEPT !.parts = parts]
MapItem(pairs)       == [Item("map", 0) EXCEPT !.pairs = pairs]

Value(u, type, width) == [u |-> u, type |-> type, width |-> width]

Init ==
  /\ menu \in Menus
  /\ buf = <<>> /\ stack = <<>>
  /\ finished = FALSE /\ duplicates = FALSE /\ forced = 0
  /\ key_pool = {} /\ string_pool = {}
  /\ open = <<>> /\ built = <<>> /\ known = {}
  /\ puts = 0 /\ buffers = 1 /\ floor = 3 /\ changes = <<>>

----------------------------------------------------------------------------
(* Values on the stack.                                                    *)

\* A wrong variant: the padding before the vector is forgotten.
UnpaddedElemWidth(v, size, index) ==
  LET offset(w) == size + index * Bytes(w) - v.u
  IN  IF IsInline(v.type) THEN v.width
                          ELSE Min({w \in 0 .. 3 : WidthU(offset(w)) = w})

\* ElemWidth: the first width in which the distance from where the element will
\* be, padding included, can be told.
ElemWidth(v, size, index) ==
  LET offset(w) == size + ((-size) % Bytes(w)) + index * Bytes(w) - v.u
  IN  IF IsInline(v.type) THEN v.width
                          ELSE Min({w \in 0 .. 3 : WidthU(offset(w)) = w})

StoredPackedType(v, parent) ==
  PackedType(IF IsInline(v.type) THEN Max({v.width, parent}) ELSE v.width, v.type)

\* The bytes of the value where it is written, at the end of a buffer of this size.
WriteAny(v, size, n) ==
  CASE v.type = FBT.FLOAT -> EncodedFloat(v.u, n)
    [] IsInline(v.type) /\ v.type # FBT.FLOAT -> Encoded(v.u, n)
    [] OTHER -> Encoded(size - v.u, n)

Align(b, w) == b \o [k \in 1 .. (-Len(b)) % Bytes(w) |-> 0]

Terminated(text) == text \o <<0>>

----------------------------------------------------------------------------
(* Where the caller is.                                                    *)

InMap  == open # <<>> /\ Last(open).map
KeyDue == InMap /\ (Len(stack) - Last(open).start) % 2 = 0

\* A value can be put here: asserts of EndMap and Finish.
Here == ~finished /\ ~KeyDue /\ (open = <<>> => stack = <<>>)

Putting == Here /\ puts < MaxPuts /\ puts' = puts + 1

Push(v, item) ==
  /\ stack' = Append(stack, v)
  /\ built' = Append(built, item)
  /\ known' = IF IsInline(v.type) THEN known ELSE known \cup {<<v, item>>}
  /\ UNCHANGED <<menu, finished, buffers, changes>>

----------------------------------------------------------------------------
(* Scalars, keys, strings and blobs.                                       *)

Kind(type) ==
  CASE type = FBT.NULL -> "null"
    [] type = FBT.BOOL -> "bool"
    [] type \in {FBT.INT, FBT.INDIRECT_INT} -> "int"
    [] type \in {FBT.UINT, FBT.INDIRECT_UINT} -> "uint"
    [] type \in {FBT.FLOAT, FBT.INDIRECT_FLOAT} -> "float"

NumberWidth(kind, n) ==
  CASE kind = "int" -> WidthI(n)
    [] kind = "uint" -> WidthU(n)
    [] kind = "float" -> WidthF(n)
    [] OTHER -> 0

\* Null, Int, UInt, Float, Double and Bool.
Scalar(type, n) ==
  /\ Putting
  /\ Push(Value(n, type, NumberWidth(Kind(type), n)), Item(Kind(type), n))
  /\ UNCHANGED <<buf, duplicates, forced, key_pool, string_pool, open, floor>>

PushIndirect(bytes, type, w, item) ==
  LET b == Align(buf, w)
  IN  /\ Putting
      /\ buf' = b \o bytes
      /\ Push(Value(Len(b), type, w), item)
      /\ UNCHANGED <<duplicates, forced, key_pool, string_pool, open, floor>>

\* IndirectInt, IndirectUInt and IndirectFloat.
IndirectScalar(type, n) ==
  LET w == NumberWidth(Kind(type), n)
      bytes == IF type = FBT.INDIRECT_FLOAT THEN EncodedFloat(n, Bytes(w)) ELSE Encoded(n, Bytes(w))
  IN  PushIndirect(bytes, type, w, Item(Kind(type), n))

\* The width is that of a float if a float holds the number, but what is
\* written are the first bytes of the double.
DoubleBytes(n) == SubSeq(EncodedFloat(n, 8), 1, Bytes(WidthF(n)))

IndirectDouble(n) ==
  PushIndirect(DoubleBytes(n), FBT.INDIRECT_FLOAT, WidthF(n), Item("indirect double", n))

\* KeyOffsetCompare and StringOffsetCompare compare what is at the offsets.
PooledKeys(text) == {at \in key_pool : CString(buf, at) = text}

\* A wrong variant: the offsets themselves are compared.
PooledOffsets(text) == {s \in string_pool : s = <<Len(buf), Len(text)>>}

PooledStrings(text) ==
  {s \in string_pool :
     s[2] = Len(text) /\ SubSeq(buf, s[1] + 1, s[1] + s[2] + 1) = Terminated(text)}

\* Key: it is written, and taken off again if the pool has it.
Key(text) ==
  LET pooled == PooledKeys(text)
      at     == IF "keys" \in menu.flags /\ pooled # {} THEN Min(pooled) ELSE Len(buf)
  IN  /\ ~finished
      /\ KeyDue \/ (Here /\ puts < MaxPuts)
      /\ puts' = IF KeyDue THEN puts ELSE puts + 1
      /\ buf' = IF at = Len(buf) THEN buf \o Terminated(text) ELSE buf
      /\ key_pool' = IF "keys" \in menu.flags THEN key_pool \cup {at} ELSE key_pool
      /\ Push(Value(at, FBT.KEY, 0), TextItem("key", text))
      /\ UNCHANGED <<duplicates, forced, string_pool, open, floor>>

\* CreateBlob: what is written, and where the bytes are in it.
CreateBlob(bytes, trailing) ==
  LET w == WidthU(Len(bytes))
      b == Align(buf, w) \o Encoded(Len(bytes), Bytes(w))
  IN  [buf |-> b \o bytes \o trailing, at |-> Len(b), width |-> w]

String(text) ==
  LET blob   == CreateBlob(text, <<0>>)
      pooled == PooledStrings(text)
      shared == "strings" \in menu.flags /\ pooled # {}
      at     == IF shared THEN (CHOOSE s \in pooled : TRUE)[1] ELSE blob.at
  IN  /\ Putting
      /\ buf' = IF shared THEN buf ELSE blob.buf
      /\ string_pool' = IF "strings" \in menu.flags THEN string_pool \cup {<<at, Len(text)>>}
                                                    ELSE string_pool
      /\ Push(Value(at, FBT.STRING, blob.width), TextItem("string", text))
      /\ UNCHANGED <<duplicates, forced, key_pool, open, floor>>

Blob(bytes) ==
  LET blob == CreateBlob(bytes, <<>>)
  IN  /\ Putting
      /\ buf' = blob.buf
      /\ Push(Value(blob.at, FBT.BLOB, blob.width), TextItem("blob", bytes))
      /\ UNCHANGED <<duplicates, forced, key_pool, string_pool, open, floor>>

\* ReuseValue(LastValue()), the value having been kept by the caller.
ReuseValue(k) ==
  /\ Putting
  /\ Push(k[1], k[2])
  /\ UNCHANGED <<buf, duplicates, forced, key_pool, string_pool, open, floor>>

ForceMinimumBitWidth(w) ==
  /\ ~finished /\ w # forced
  /\ forced' = w
  /\ UNCHANGED <<buf, stack, finished, duplicates, key_pool, string_pool, caller>>

----------------------------------------------------------------------------
(* Vectors and maps.                                                       *)

\* StartVector and StartMap.
Start(map) ==
  /\ Putting
  /\ open' = Append(open, [start |-> Len(stack), map |-> map])
  /\ UNCHANGED <<builder, menu, built, known, buffers, floor, changes>>

\* The width that a vector of this length has at least.
LeastWidth(len) == Max({forced, WidthU(len)})

\* CreateVector of these values, every step-th of the stack, in a buffer b: the
\* buffer it makes and the value for the vector.  keys is the sequence of the
\* value for the keys, if this is a map.
CreateVector(b, elems, step, typed, fixed, keys) ==
  LET prefix == IF keys = <<>> THEN 1 ELSE 3
      len    == Len(elems)
      width  == Max({LeastWidth(len)}
                    \cup {ElemWidth(keys[k], Len(b), 0) : k \in DOMAIN keys}
                    \cup {ElemWidth(elems[i], Len(b), (i - 1) * step + prefix) : i \in 1 .. len})
      n      == Bytes(width)
      begun  == Align(b, width)
      head   == (IF keys = <<>> THEN <<>>
                 ELSE Encoded(Len(begun) - keys[1].u, n) \o Encoded(Bytes(keys[1].width), n))
                \o (IF fixed THEN <<>> ELSE Encoded(len, n))
      at     == Len(begun) + Len(head)
      data   == FlattenSeq([i \in 1 .. len |-> WriteAny(elems[i], at + (i - 1) * n, n)])
      types  == IF typed THEN <<>>
                ELSE [i \in 1 .. len |-> StoredPackedType(elems[i], width)]
      elem   == IF len = 0 THEN FBT.KEY ELSE elems[1].type
      type   == IF keys # <<>> THEN FBT.MAP
                ELSE IF typed THEN ToTypedVector(elem, IF fixed THEN len ELSE 0)
                ELSE FBT.VECTOR
  IN  [buf |-> begun \o head \o data \o types, value |-> Value(at, type, width)]

Outer == SubSeq(open, 1, Len(open) - 1)
Since(seq) == SubSeq(seq, Last(open).start + 1, Len(seq))
Till(seq)  == SubSeq(seq, 1, Last(open).start)

\* The temporary elements make way for the vector or map.
Close(value, item) ==
  /\ stack' = Append(Till(stack), value)
  /\ built' = Append(Till(built), item)
  /\ known' = known \cup {<<value, item>>}
  /\ open' = Outer
  /\ floor' = Min({floor, forced})
  /\ UNCHANGED <<menu, finished, forced, key_pool, string_pool, puts, buffers, changes>>

\* EndVector, the elements being such that it does not assert.
EndVector(typed, fixed) ==
  LET elems == Since(stack)
      made  == CreateVector(buf, elems, 1, typed, fixed, <<>>)
  IN  /\ open # <<>> /\ ~InMap
      /\ fixed => typed /\ Len(elems) \in 2 .. 4
      /\ typed => \A i \in DOMAIN elems :
                    elems[i].type = elems[1].type /\ IsTypedVectorElementType(elems[i].type)
      /\ fixed => elems[1].type \in {FBT.INT, FBT.UINT, FBT.FLOAT}
      /\ buf' = made.buf
      /\ Close(made.value,
               [VectorItem(Since(built)) EXCEPT
                  !.kind = IF made.value.type = FBT.VECTOR_STRING_DEPRECATED THEN "strings" ELSE @])
      /\ UNCHANGED duplicates

\* EndMap: std::sort may leave equal keys in any order.
EndMap(order) ==
  LET elems == Since(stack)
      items == Since(built)
      len   == Len(elems) \div 2
      text(i) == CString(buf, elems[2 * i - 1].u)
      keys  == CreateVector(buf, [i \in 1 .. len |-> elems[2 * order[i] - 1]], 2, TRUE, FALSE, <<>>)
      made  == CreateVector(keys.buf, [i \in 1 .. len |-> elems[2 * order[i]]], 2, FALSE, FALSE,
                            <<keys.value>>)
  IN  /\ InMap /\ KeyDue
      /\ \A i, j \in 1 .. len : i < j => ~Before(text(order[j]), text(order[i]))
      /\ duplicates' = (duplicates \/ \E i, j \in 1 .. len : i # j /\ text(i) = text(j))
      /\ buf' = made.buf
      /\ Close(made.value,
               MapItem({<<items[2 * i - 1].text, items[2 * i]>> : i \in 1 .. len}))

Orders ==
  IF InMap THEN LET n == (Len(stack) - Last(open).start) \div 2
                IN  {p \in [1 .. n -> 1 .. n] : IsInjective(p)}
           ELSE {}

\* ScalarVector, for Vector and FixedTypedVector of n-byte scalars.
ScalarVector(type, elems, w, fixed) ==
  LET b     == Align(buf, w)
      head  == IF fixed THEN <<>> ELSE Encoded(Len(elems), Bytes(w))
      bytes == FlattenSeq([i \in DOMAIN elems |-> WriteAny(Value(elems[i], type, w), 0, Bytes(w))])
      value == Value(Len(b \o head), ToTypedVector(type, IF fixed THEN Len(elems) ELSE 0), w)
  IN  /\ Putting
      /\ WidthU(Len(elems)) <= w
      /\ buf' = b \o head \o bytes
      /\ Push(value, VectorItem([i \in DOMAIN elems |-> Item(Kind(type), elems[i])]))
      /\ floor' = Min({floor, w})
      /\ UNCHANGED <<duplicates, forced, key_pool, string_pool, open>>

----------------------------------------------------------------------------
(* The buffer.                                                             *)

\* Finish
Finish ==
  LET w == ElemWidth(stack[1], Len(buf), 0)
      b == Align(buf, w)
  IN  /\ ~finished /\ open = <<>> /\ Len(stack) = 1
      /\ buf' = b \o WriteAny(stack[1], Len(b), Bytes(w))
                  \o <<StoredPackedType(stack[1], 0), Bytes(w)>>
      /\ finished' = TRUE
      /\ UNCHANGED <<stack, duplicates, forced, key_pool, string_pool, caller>>

\* Clear, to use the builder again: has_duplicate_keys_ is not reset.
Clear ==
  /\ finished
  /\ buffers < MaxBuffers
  /\ buf' = <<>> /\ stack' = <<>> /\ finished' = FALSE /\ forced' = 0
  /\ key_pool' = {} /\ string_pool' = {}
  /\ open' = <<>> /\ built' = <<>> /\ known' = {} /\ puts' = 0 /\ floor' = 3 /\ changes' = <<>>
  /\ buffers' = buffers + 1
  /\ UNCHANGED <<duplicates, menu>>

----------------------------------------------------------------------------
(* What is in a buffer.                                                    *)

\* The size before the data, if there is one, and the data are in the buffer.
Legible(b, r) ==
  LET p == Indirect(b, r)
      n == r.byte_width
  IN  /\ r.data \in 0 .. Len(b) - 1
      /\ ~IsInline(r.type) => p \in 0 .. Len(b)
      /\ r.type \in {FBT.STRING, FBT.BLOB, FBT.MAP, FBT.VECTOR} \/ IsTypedVector(r.type) =>
           p >= n /\ p + Size(b, p, n) <= Len(b)

RECURSIVE ItemAt(_, _, _), Reachable(_, _, _)

\* The item that a reader finds, maps and vectors within each other depth deep.
ItemAt(b, r, depth) ==
  LET parts == [i \in DOMAIN Elements(b, r) |-> ItemAt(b, Elements(b, r)[i], depth - 1)]
      keys  == Keys(b, r)
  IN  CASE depth = 0 \/ ~Legible(b, r) -> Item("unreadable", 0)
        [] r.type = FBT.NULL -> Item("null", 0)
        [] r.type = FBT.BOOL -> Item("bool", IF AsBool(b, r) THEN 1 ELSE 0)
        [] r.type \in FBT.INT .. FBT.FLOAT \cup FBT.INDIRECT_INT .. FBT.INDIRECT_FLOAT ->
             Item(Kind(r.type), AsNumber(b, r))
        [] r.type = FBT.KEY -> TextItem("key", AsKey(b, r))
        [] r.type = FBT.STRING -> TextItem("string", AsString(b, r))
        [] r.type = FBT.BLOB -> TextItem("blob", AsString(b, r))
        [] r.type = FBT.VECTOR -> [VectorItem(parts) EXCEPT !.n = AsNumber(b, r)]
        [] IsTypedVector(r.type) \/ IsFixedTypedVector(r.type) -> VectorItem(parts)
        [] r.type = FBT.MAP ->
             MapItem({<<AsKey(b, keys[i]), parts[i]>> : i \in DOMAIN keys \cap DOMAIN parts})
        [] OTHER -> Item("unreadable", 0)

\* The references that a reader comes by, but for those to strings as keys.
Reachable(b, r, depth) ==
  {r} \cup
  IF depth = 0 \/ ~Legible(b, r) \/ r.type = FBT.VECTOR_STRING_DEPRECATED THEN {}
  ELSE IF r.type \in {FBT.MAP, FBT.VECTOR} \/ IsTypedVector(r.type) \/ IsFixedTypedVector(r.type)
  THEN UNION {Reachable(b, e, depth - 1) : e \in Range(Elements(b, r))}
       \cup IF r.type = FBT.MAP THEN Range(Keys(b, r)) ELSE {}
  ELSE {}

References(b) == Reachable(b, GetRoot(b), MaxPuts + 1)

----------------------------------------------------------------------------
(* Changes in place.                                                       *)

\* A wrong variant: the BitWidth is taken for the number of bytes.
FitsBitWidth(width, room) == width <= room

Fits(width, room) == Bytes(width) <= room

\* Mutate: nothing is written unless the value fits.
Mutate(r, item, width, bytes, fits) ==
  LET p == Place(buf, r)
  IN  /\ finished
      /\ Len(changes) < MaxMutations
      /\ buf' = IF fits THEN [k \in DOMAIN buf |-> IF k - p.at \in DOMAIN bytes
                                                   THEN bytes[k - p.at] ELSE buf[k]]
                        ELSE buf
      /\ changes' = Append(changes, [at |-> p.at, inline |-> IsInline(r.type), item |-> item,
                                     width |-> width, room |-> p.width, done |-> fits])
      /\ UNCHANGED <<stack, finished, duplicates, forced, key_pool, string_pool,
                     menu, open, built, known, puts, buffers, floor>>

\* MutateInt and MutateUInt.
MutateNumber(r, n) ==
  LET kind  == Kind(r.type)
      value == IF kind = "uint" THEN n % ByteValues^8 ELSE n
      width == NumberWidth(kind, value)
      room  == Place(buf, r).width
  IN  /\ r.type \in {FBT.INT, FBT.UINT, FBT.INDIRECT_INT, FBT.INDIRECT_UINT}
      /\ Mutate(r, Item(kind, value), width, Encoded(value, room), Fits(width, room))

\* MutateFloat
MutateFloat(r, n) ==
  LET room == Place(buf, r).width
  IN  /\ r.type \in {FBT.FLOAT, FBT.INDIRECT_FLOAT} /\ n >= 0
      /\ Mutate(r, Item("float", n), WidthF(n), EncodedFloat(n, room), Fits(WidthF(n), room))

\* MutateBool: of the bytes copied only the first is of the bool; what lies
\* behind it in memory is anything.
MutateBool(r, n) ==
  /\ r.type = FBT.BOOL
  /\ \E rest \in {0, 1} :
       LET room == Place(buf, r).width
       IN  Mutate(r, Item("bool", n), 0, <<n>> \o [k \in 1 .. room - 1 |-> rest], TRUE)

\* MutateString: a key can be changed too.
MutateString(r, text) ==
  /\ r.type \in {FBT.STRING, FBT.KEY}
  /\ Mutate(r, TextItem("string", text), 0, text, Len(text) = Len(AsString(buf, r)))

----------------------------------------------------------------------------
(* The specification.                                                      *)

Put ==
  \/ \E s \in menu.scalars : Scalar(s[1], s[2])
  \/ \E s \in menu.indirects : IndirectScalar(s[1], s[2])
  \/ \E n \in menu.doubles : IndirectDouble(n)
  \/ \E text \in menu.keys : Key(text)
  \/ \E text \in menu.strings : String(text)
  \/ \E bytes \in menu.blobs : Blob(bytes)
  \/ \E s \in menu.arrays : ScalarVector(s.type, s.elems, s.width, s.fixed)
  \/ "reuse" \in menu.flags /\ \E k \in known : ReuseValue(k)

Group ==
  \/ \E map \in menu.groups : Start(map)
  \/ \E typed, fixed \in BOOLEAN : EndVector(typed, fixed)
  \/ \E order \in Orders : EndMap(order)

\* A caller does not change keys, which would leave their maps out of order.
Change ==
  finished /\ \E r \in References(buf) :
    \/ \E n \in menu.numbers : MutateNumber(r, n) \/ MutateFloat(r, n)
    \/ \E n \in {0, 1} : MutateBool(r, n)
    \/ r.type = FBT.STRING /\ \E text \in menu.strings : MutateString(r, text)

Next ==
  \/ Put
  \/ Group
  \/ \E w \in menu.widths : ForceMinimumBitWidth(w)
  \/ Finish
  \/ Change
  \/ Clear

Spec == Init /\ [][Next]_vars

----------------------------------------------------------------------------
(* Properties.                                                             *)

RECURSIVE AsRead(_), Nesting(_, _), Visits(_, _)

\* The item that a reader is to find where this one was put.  It is the same
\* but for two things.  A number put by IndirectDouble that a float holds is
\* read as a float from the first four bytes of its double: 0, if the number has
\* few binary digits.  The strings of a typed vector of strings are read as
\* keys, up to the first null.
AsRead(item) ==
  LET parts == [i \in DOMAIN item.parts |-> AsRead(item.parts[i])]
  IN  CASE item.kind = "indirect double" ->
             Item("float", ReadDouble(DoubleBytes(item.n), 0, Bytes(WidthF(item.n))))
        [] item.kind = "strings" ->
             VectorItem([i \in DOMAIN parts |-> TextItem("key", CString(parts[i].text, 0))])
        [] item.kind = "vector" -> [item EXCEPT !.parts = parts]
        [] item.kind = "map" -> [item EXCEPT !.pairs = {<<q[1], AsRead(q[2])>> : q \in @}]
        [] OTHER -> item

\* What a reader finds in a finished buffer is what was put in, with the two
\* exceptions of AsRead: in the widths that CreateVector and Finish have chosen
\* every offset and every other number survives, wherever padding, sharing and
\* sorting have put it.
ReadBack ==
  finished /\ changes = <<>> => ItemAt(buf, GetRoot(buf), MaxPuts + 1) = AsRead(built[1])

\* Map::operator[] finds the value of every key that its map has once, and a
\* null for a key it has not, also after changes to the values.
KeysFound ==
  finished =>
    \A r \in References(buf) : r.type = FBT.MAP =>
      LET keys == Keys(buf, r)
          has(text) == {i \in DOMAIN keys : AsKey(buf, keys[i]) = text}
      IN  \A text \in menu.keys :
            /\ Cardinality(has(text)) = 1 =>
                 Lookup(buf, r, text) = Elements(buf, r)[CHOOSE i \in has(text) : TRUE]
            /\ has(text) = {} => Lookup(buf, r, text) = NullReference

\* What VerifyVector is called for.
Sized(type) == type \in {FBT.STRING, FBT.BLOB, FBT.MAP, FBT.VECTOR} \/ IsTypedVector(type)

\* The elements of a sized object, none of a string or a blob.
Within(b, r) == IF r.type \in {FBT.STRING, FBT.BLOB} THEN <<>> ELSE Elements(b, r)

\* How deep sized objects are in each other.
Nesting(b, r) ==
  IF Sized(r.type) THEN 1 + Max({0} \cup {Nesting(b, e) : e \in Range(Within(b, r))}) ELSE 0

\* How often one comes by them from here, and by the keys of a map.
Visits(b, r) ==
  IF Sized(r.type)
  THEN FoldSeq(LAMBDA e, sum : sum + Visits(b, e), IF r.type = FBT.MAP THEN 2 ELSE 1, Within(b, r))
  ELSE 0

\* How often one that looks at nothing twice comes by what it has seen: the
\* references to an object but one.
Revisits(b) ==
  LET sized == {r \in References(b) : Sized(r.type)}
      again(refs) == Cardinality(refs) - Cardinality({Indirect(b, r) : r \in refs})
  IN  again(sized) + again({r \in sized : r.type = FBT.MAP})

\* The Verifier accepts what the Builder has finished, also after changes in
\* place, but for what its limits refuse.  Without a reuse_tracker these are
\* max_depth_ and as many visits as the buffer has bytes.  With one every visit
\* to what it has seen counts towards the depth for good, as VerifyVector then
\* returns before it takes back what it has added: a buffer is accepted if its
\* depth and all such visits together are within max_depth_.
FinishedVerifies ==
  finished =>
    LET depth == Nesting(buf, GetRoot(buf))
    IN  /\ depth <= MaxDepth /\ Visits(buf, GetRoot(buf)) <= Len(buf) => VerifyBuffer(buf, FALSE)
        /\ depth + Revisits(buf) <= MaxDepth => VerifyBuffer(buf, TRUE)

\* With BUILDER_FLAG_SHARE_KEYS and _STRINGS no text is in the buffer twice, in
\* the second buffer of a builder no less than in the first.
SharedOnce ==
  finished /\ changes = <<>> =>
    \A r, q \in References(buf) :
      /\ r.type = q.type
      /\ \/ r.type = FBT.KEY /\ "keys" \in menu.flags
         \/ r.type = FBT.STRING /\ "strings" \in menu.flags
      /\ ItemAt(buf, r, 1) = ItemAt(buf, q, 1)
      => Indirect(buf, r) = Indirect(buf, q)

\* A change in place writes its value and no other, wherever it is referred to
\* from, and nothing if it reports failure.  A bool in more than a byte is
\* excepted: see MutateBool.  No change of an element of a vector or map fails
\* whose value is within the width that ForceMinimumBitWidth gave all of them.
MutationLocal ==
  [][Len(changes') > Len(changes) =>
       LET c == Last(changes')
       IN  /\ c.inline /\ c.at # GetRoot(buf).data /\ c.width <= floor => c.done
           /\ References(buf') = References(buf)
           /\ \A r \in References(buf) :
                LET before == ItemAt(buf, r, 1)
                    leaf   == r.type \notin {FBT.MAP, FBT.VECTOR} /\ ~IsTypedVector(r.type)
                                /\ ~IsFixedTypedVector(r.type)
                    meant  == c.done /\ Place(buf, r).at = c.at /\ before.kind = c.item.kind
                IN  leaf /\ ~(meant /\ c.item.kind = "bool" /\ c.room > 1) =>
                      ItemAt(buf', r, 1) = IF meant THEN c.item ELSE before]_vars
============================================================================
