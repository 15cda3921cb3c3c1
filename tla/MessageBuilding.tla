--------------------------- MODULE MessageBuilding -------------------------
(***************************************************************************)
(* Putting a message together: the calls that the two processes, and the   *)
(* code generated for their schemas, make of a FlatBufferBuilder; the      *)
(* message that make_message copies out of it; and the reading of it, in   *)
(* the process that receives it, through MfxProxyMessage.                  *)
(*                                                                         *)
(* Any objects of the schemas are built, in any legal order, and what they *)
(* were built from is kept in objects, to compare with what is read.       *)
(***************************************************************************)
EXTENDS FlatBufferBuilder, FlatBufferVerifier

CONSTANTS
  Envelope,    \* the table type MessageEnvelope
  Message,     \* the union in it
  Types,       \* table types that are built, other than the envelope
  Texts,       \* strings that are built, as sequences of bytes
  Vectors,     \* scalar type -> set of vectors of its scalars, as sequences of bytes
  Structs,     \* structs, as sequences of bytes
  Numbers,     \* scalars
  Ids,         \* ids of threads and messages
  EffectIds,   \* effect_id of a message
  Widths,      \* scalar type -> its width
  Whole,       \* table types of which every field is added
  AnyOrder,    \* the fields of a table are added in any order, or last to first
  Limits,      \* bound on the objects of each kind, and of each table type, in a buffer
  MaxObjects,  \* bound on the objects in the nth buffer
  MaxTables    \* bound on the length of a vector of tables

\* What is built is bytes that have been written, scalars of the sizes that C has
\* and strings that a buffer can hold.  The scalars in tables are bytes and ints,
\* and structs are made of them; a union's type is a byte; and every field's place
\* in a vtable is below the end that a voffset_t can have.
ASSUME MessageAssumption ==
  /\ Undefined \notin Byte
  /\ Texts \subseteq Seq(Byte) /\ \A str \in Texts : Len(str) < MaxBufferSize
  /\ Structs \subseteq Seq(Byte)
  /\ \A n \in Numbers \cup Ids \cup EffectIds : IsInt32(n)
  /\ \A type \in DOMAIN Vectors :
       /\ Widths[type] \in {1, 2, 4, 8}
       /\ Vectors[type] \subseteq Seq([1 .. Widths[type] -> Byte])
  /\ MaxTables \in Nat

ASSUME TablesAssumption ==
  /\ Types \subseteq DOMAIN Schema
  /\ \A T \in DOMAIN Schema : \A i \in DOMAIN Schema[T] :
       LET f == Schema[T][i]
       IN  /\ i \in Nat \ {0} /\ IsVoffset(Voffset(i) + 2)
           /\ f.kind = "scalar" => f.width \in {1, 4} /\ f.align = f.width
           /\ f.kind = "struct" => /\ f.align \in {1, 4} /\ f.width % f.align = 0
                                   /\ \A struct \in Structs : Len(struct) = f.width
           /\ f.kind = "scalars" => f.width = Widths[f.of]
           /\ f.kind = "union" => Schema[T][i - 1].width = 1
  /\ Envelope \in DOMAIN Schema /\ DOMAIN Schema[Envelope] = {1, 2, 3, 4}
  /\ \A i \in {1, 2} : Schema[Envelope][i].kind = "scalar" /\ Schema[Envelope][i].width = 4
  /\ Schema[Envelope][3].kind = "scalar" /\ Schema[Envelope][3].width = 1
  /\ Schema[Envelope][4].kind = "union" /\ Schema[Envelope][4].of = Message
  /\ DOMAIN UnionTypes[Message] \subseteq Byte

VARIABLES
  bld,      \* the FlatBufferBuilder
  objects,  \* what has been built and where: offset, kind, type and value
  open,     \* the table between StartTable and EndTable, if any
  builds,   \* buffers begun
  sent      \* the message made of the buffer, and what it was made from

vars == <<bld, objects, open, builds, sent>>

Nothing == [made |-> FALSE]
NoTable == [started |-> FALSE]

Init ==
  /\ bld = NewBuilder
  /\ objects = {}
  /\ open = NoTable
  /\ builds = 1
  /\ sent = Nothing

----------------------------------------------------------------------------
(* Objects other than tables.                                              *)

Idle == ~open.started /\ ~bld.finished

\* There is room for another object.
Room(kind) ==
  /\ Cardinality({o \in objects : kind \in {o.kind, o.type}}) < Limits[kind]
  /\ Cardinality(objects) < MaxObjects[builds]

Record(b, kind, type, value) ==
  /\ bld' = b
  /\ objects' = objects \cup {[off |-> b.ret, kind |-> kind, type |-> type, value |-> value]}
  /\ UNCHANGED <<builds, sent>>

CreateText(str) ==
  /\ Idle /\ Room("string") /\ UNCHANGED open
  /\ \/ Record(CreateString(bld, str), "string", "", str)
     \/ Record(CreateSharedString(bld, str), "string", "shared", str)

CreateScalars(type, elements) ==
  /\ Idle /\ Room("scalars") /\ UNCHANGED open
  /\ Record(CreateVector(bld, elements, Widths[type]), "scalars", type, elements)

OffsetsOf(T) == {o.off : o \in {p \in objects : p.kind = "table" /\ p.type = T}}

CreateTables(T) ==
  /\ Idle /\ Room("tables") /\ UNCHANGED open
  /\ \E n \in 0 .. MaxTables : \E offs \in [1 .. n -> OffsetsOf(T)] :
       Record(CreateVectorOfOffsets(bld, offs), "tables", T, offs)

----------------------------------------------------------------------------
(* Tables.                                                                 *)

\* What a field that was never added reads as.
Default(f) == IF f.kind = "struct" THEN <<>> ELSE 0

Begin(T) ==
  /\ Idle /\ Room(T)
  /\ bld' = StartTable(bld)
  /\ open' = [started |-> TRUE, type |-> T, start |-> bld'.ret, added |-> {},
              value |-> [i \in DOMAIN Schema[T] |-> Default(Schema[T][i])]]
  /\ UNCHANGED <<objects, builds, sent>>

Refers(f, o) ==
  IF f.kind = "union"
  THEN o.kind = "table" /\ o.type \in Range(UnionTypes[f.of])
  ELSE o.kind = f.kind /\ (f.kind # "string" => o.type = f.of)

FieldValues(f) ==
  CASE f.kind = "scalar" -> {n \in Numbers : f.width = 1 => n \in Byte}
    [] f.kind = "struct" -> Structs
    [] OTHER -> {o.off : o \in {p \in objects : Refers(f, p)}}

\* The Add functions generated for a table's builder.
AddTo(b, f, voffset, value) ==
  CASE f.kind = "scalar" -> AddElement(b, voffset, value, f.width, 0)
    [] f.kind = "struct" -> AddStruct(b, voffset, value, f.align)
    [] OTHER             -> AddOffset(b, voffset, value)

Add(i, value) ==
  LET f == Schema[open.type][i]
  IN  /\ bld' = AddTo(bld, f, Voffset(i), value)
      /\ open' = [open EXCEPT !.added = @ \cup {i}, !.value[i] = value]
      /\ UNCHANGED <<objects, builds, sent>>

AddField ==
  /\ open.started
  /\ \E i \in DOMAIN Schema[open.type] \ open.added :
       /\ AnyOrder \/ \A j \in open.added : i < j
       /\ \E value \in FieldValues(Schema[open.type][i]) : Add(i, value)

\* A union is set together with its type.
UnionsAgree ==
  \A i \in DOMAIN Schema[open.type] :
    LET f == Schema[open.type][i]
        tag == open.value[i - 1]
    IN  f.kind = "union" =>
          IF open.value[i] = 0 THEN tag = 0
          ELSE /\ tag \in DOMAIN UnionTypes[f.of]
               /\ open.value[i] \in OffsetsOf(UnionTypes[f.of][tag])

End ==
  /\ open.started /\ UnionsAgree
  /\ open.type \in Whole => open.added = DOMAIN Schema[open.type]
  /\ Record(EndTable(bld, open.start), "table", open.type, open.value)
  /\ open' = NoTable

----------------------------------------------------------------------------
(* The message.                                                            *)

\* CreateMessageEnvelope, as generated: the widest fields first.
AddIds(b, threadId, id) ==
  AddElement(AddElement(b, Voffset(2), id, 4, 0), Voffset(1), threadId, 4, 0)

FillEnvelope(b, threadId, id, tag, message) ==
  EndTable(AddElement(AddIds(AddOffset(b, Voffset(4), message), threadId, id),
                      Voffset(3), tag, 1, 0),
           b.ret)

CreateMessageEnvelope(b, threadId, id, tag, message) ==
  FillEnvelope(StartTable(b), threadId, id, tag, message)

\* Wrong variant: the flatbuffer is copied over the effect id's upper half.
CopyOut(b, effectId) == Bytes(effectId, 2) \o Data(b.buf)

\* The zmq message: the effect id, for the subscriptions, and the flatbuffer.
CopyBuffer(b, effectId) == Bytes(effectId, 4) \o Data(b.buf)

TagOf(T) == CHOOSE k \in DOMAIN UnionTypes[Message] : UnionTypes[Message][k] = T

make_message(o, effectId, threadId, id) ==
  /\ Idle
  /\ o.kind = "table" /\ o.type \in Range(UnionTypes[Message])
  /\ bld' = GetBufferPointer(FinishLast(
                CreateMessageEnvelope(bld, threadId, id, TagOf(o.type), o.off)))
  /\ sent' = [made |-> TRUE, msg |-> CopyBuffer(bld', effectId), effectId |-> effectId,
              threadId |-> threadId, id |-> id, message |-> o]
  /\ UNCHANGED <<objects, open, builds>>

\* Clear, which may also come in the middle of a table.
ClearForReuse ==
  /\ builds < Len(MaxObjects)
  /\ builds' = builds + 1
  /\ bld' = ClearBuilder(bld)
  /\ objects' = {} /\ open' = NoTable /\ sent' = Nothing

ResetForReuse ==
  /\ builds < Len(MaxObjects)
  /\ builds' = builds + 1
  /\ bld' = ResetBuilder(bld)
  /\ objects' = {} /\ open' = NoTable /\ sent' = Nothing

Next ==
  \/ \E str \in Texts : CreateText(str)
  \/ \E type \in DOMAIN Vectors : \E elements \in Vectors[type] : CreateScalars(type, elements)
  \/ \E T \in Types : CreateTables(T) \/ Begin(T)
  \/ AddField
  \/ End
  \/ \E o \in objects, e \in EffectIds, t, n \in Ids : make_message(o, e, t, n)
  \/ ClearForReuse
  \/ ResetForReuse

Spec == Init /\ [][Next]_vars

----------------------------------------------------------------------------
(* Reading.                                                                *)

ReadField(mem, table, f, i) ==
  LET p == GetStruct(mem, table, Voffset(i))
  IN  CASE f.kind = "scalar" -> GetField(mem, table, Voffset(i), f.width, 0)
        [] f.kind = "struct" -> IF p = Nullptr THEN <<>> ELSE SubSeq(mem, p + 1, p + f.width)
        [] OTHER -> IF p = Nullptr THEN 0 ELSE FromEnd(mem, Indirect(mem, p))

ReadObject(mem, o) ==
  LET p == Position(mem, o.off)
  IN  CASE o.kind = "string"  -> StringBytes(mem, p)
        [] o.kind = "scalars" -> Elements(mem, p, Widths[o.type])
        [] o.kind = "tables"  -> [k \in 1 .. VectorSize(mem, p) |-> FromEnd(mem, GetAll(mem, p)[k])]
        [] o.kind = "strings" -> [k \in 1 .. VectorSize(mem, p) |-> StringBytes(mem, GetAll(mem, p)[k])]
        [] o.kind = "struct"  -> SubSeq(mem, p + 1, p + Widths[o.type])
        [] o.kind = "table"   -> [i \in DOMAIN Schema[o.type] |->
                                    ReadField(mem, p, Schema[o.type][i], i)]

\* MfxProxyMessage's accessors of a received message.
MessageEnvelope(msg)   == SubSeq(msg, 5, Len(msg))
effect_id(msg)         == ReadScalar(msg, 0, 4)
EnvelopeField(msg, i)  ==
  LET mem == MessageEnvelope(msg) IN ReadField(mem, GetRoot(mem), Schema[Envelope][i], i)
message_thread_id(msg) == EnvelopeField(msg, 1)
message_id(msg)        == EnvelopeField(msg, 2)
message_type(msg)      == EnvelopeField(msg, 3)

\* The table of the type asked for, or the exception "type mismatch".
Mismatch == [off |-> 0, type |-> "mismatch"]
message_as(msg, T) ==
  IF \E tag \in DOMAIN UnionTypes[Message] :
       message_type(msg) = tag /\ UnionTypes[Message][tag] = T
  THEN [off |-> EnvelopeField(msg, 4), type |-> T]
  ELSE Mismatch

----------------------------------------------------------------------------
(* Properties.                                                             *)

\* The builder's limits: 2 GiB for a buffer, and 64 KiB for a table, from where
\* it starts to where the offset of its vtable comes to be.
LimitsKept ==
  /\ Size(bld) < MaxBufferSize
  /\ open.started => IsVoffset(PushElement(bld, 0, 4).ret - open.start)

\* Whatever has been built can be read back in place, at any time: after the
\* memory has grown, after a vtable or a shared string was taken back, and
\* while the next table is being built.
ReadBack ==
  LET mem == Data(bld.buf) IN \A o \in objects : ReadObject(mem, o) = o.value

\* Legal calls fail none of the builder's asserts: no object is begun in
\* another, no field is set twice, every reference is to what is there.
NoAssertFails == bld.ok

\* All that is sent has been written: no memory of the process leaves it.
NothingUninitialised ==
  LET mem == Data(bld.buf) IN \A k \in DOMAIN mem : mem[k] # Undefined

\* Tables with equal layouts share a vtable, and shared strings a string.
\* Equal layouts are equal in the vtable that each table has.
SharedOnce ==
  LET mem == Data(bld.buf)
      vtable(o) == GetVTable(mem, Position(mem, o.off))
      layout(o) == SubSeq(mem, vtable(o) + 1, vtable(o) + ReadScalar(mem, vtable(o), 2))
  IN  \A o, p \in objects :
        /\ o.kind = "table" /\ p.kind = "table" /\ layout(o) = layout(p)
             => vtable(o) = vtable(p)
        /\ o.kind = "string" /\ p.kind = "string" /\ o.type = "shared" /\ p.type = "shared"
             /\ o.value = p.value => o.off = p.off

\* The receiver reads what make_message was given, down to every object of
\* the message, and message_as refuses every other type.
MessageIntact ==
  sent.made =>
    /\ effect_id(sent.msg) = sent.effectId
    /\ message_thread_id(sent.msg) = sent.threadId
    /\ message_id(sent.msg) = sent.id
    /\ \A T \in Range(UnionTypes[Message]) :
         message_as(sent.msg, T) =
           IF T = sent.message.type THEN [off |-> sent.message.off, type |-> T] ELSE Mismatch
    /\ \A o \in objects : ReadObject(MessageEnvelope(sent.msg), o) = o.value

\* What the builder builds the Verifier accepts.
SentVerifies == sent.made => VerifyBuffer(MessageEnvelope(sent.msg), Envelope)
============================================================================
