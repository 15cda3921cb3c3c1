-------------------------- MODULE FlatBufferBuilder ------------------------
(***************************************************************************)
(* FlatBufferBuilder, which the program puts every message together with.  *)
(*                                                                         *)
(* A builder is a record, and each of its operations an operator from      *)
(* builders to builders; ret is what the last operation returned and ok is *)
(* FALSE once one of its asserts has failed.  Objects are written from the *)
(* end of the buffer towards its start, children before parents, and an    *)
(* offset counts from the end.  The scratch pad of the buffer holds the    *)
(* offsets of the vtables there are and, over them, a FieldLoc for each    *)
(* field of the table that is being built.                                 *)
(*                                                                         *)
(* Left out: the limit of 64 KiB on a table and 2 GiB on a buffer, and     *)
(* moving and swapping builders.  FlatBufferVectors has the vectors that   *)
(* this program makes no use of.                                           *)
(***************************************************************************)
EXTENDS VectorDownward, FlatBufferReader

CONSTANTS
  ForceDefaults,  \* force_defaults_, which is FALSE unless it is set
  DedupVtables    \* dedup_vtables_, which is TRUE unless it is set

ASSUME BuilderAssumption == ForceDefaults \in BOOLEAN /\ DedupVtables \in BOOLEAN

FieldLocSize == 8
KeptOffsetSize == 4

NewBuilder ==
  [buf |-> Empty, num_field_loc |-> 0, max_voffset |-> 0, nested |-> FALSE,
   finished |-> FALSE, minalign |-> 1, string_pool |-> {}, ret |-> 0, ok |-> TRUE]

Asserting(b, p) == [b EXCEPT !.ok = @ /\ p]
Size(b)      == b.buf.size
Returning(b) == [b EXCEPT !.ret = Size(b)]

----------------------------------------------------------------------------
(* Scalars and alignment.                                                  *)

PaddingBytes(size, n) == (-size) % n

Pad(b, n) == [b EXCEPT !.buf = Fill(@, n)]

TrackMinAlign(b, n) == [b EXCEPT !.minalign = IF n > @ THEN n ELSE @]

\* Wrong variant: the first scalar of an alignment is not padded.
AlignTrackingOnly(b, n) == TrackMinAlign(b, n)

Align(b, n) == Pad(TrackMinAlign(b, n), PaddingBytes(Size(b), n))

PreAlign(b, len, n) ==
  IF len = 0 THEN b ELSE Pad(TrackMinAlign(b, n), PaddingBytes(Size(b) + len, n))

PushBytes(b, bytes) == [b EXCEPT !.buf = Push(@, bytes)]

PushElement(b, value, width) ==
  Returning(PushBytes(Align(b, width), Bytes(value, width)))

\* PushElement(ReferTo(off)): the distance to an object, from where it is stored.
PushDistance(b, off) ==
  PushElement(Asserting(b, off # 0 /\ off <= Size(b)), Size(b) - off + 4, 4)

PushOffset(b, off) == PushDistance(Align(b, 4), off)

NotNested(b) == Asserting(b, ~b.nested /\ b.num_field_loc = 0)

----------------------------------------------------------------------------
(* Strings and vectors.                                                    *)

CreateString(b, str) ==
  LET begun == Pad(PreAlign(NotNested(b), Len(str) + 1, 4), 1)
  IN  PushElement(PushBytes(begun, str), Len(str), 4)

StringAt(b, off) ==
  StringBytes(Data(b.buf), Size(b) - off)

\* string_pool->find, by what the strings in the buffer hold.
SameString(b, off) == {o \in b.string_pool : StringAt(b, o) = StringAt(b, off)}

\* The string just written gives way to an equal one or is remembered; the
\* buffer had the given size before it.
ShareString(b, found, size) ==
  IF found = {} THEN [b EXCEPT !.string_pool = @ \cup {b.ret}]
  ELSE [b EXCEPT !.buf = Pop(@, Size(b) - size), !.ret = CHOOSE o \in found : TRUE]

ShareLast(b, size) == ShareString(b, SameString(b, b.ret), size)

CreateSharedString(b, str) == ShareLast(CreateString(b, str), Size(b))

StartVector(b, len, width, align) ==
  LET c == [NotNested(b) EXCEPT !.nested = TRUE]
  IN  PreAlign(PreAlign(c, len * width, 4), len * width, align)

EndVector(b, len) ==
  PushElement([Asserting(b, b.nested) EXCEPT !.nested = FALSE], len, 4)

\* Of scalars, given as sequences of width bytes.
CreateVector(b, elements, width) ==
  EndVector(PushBytes(StartVector(b, Len(elements), width, width), FlattenSeq(elements)),
            Len(elements))

\* Of tables or strings, given by their offsets, the last first.
PushOffsets(b, offs) ==
  LET after[n \in 0 .. Len(offs)] ==
        IF n = 0 THEN b ELSE PushOffset(after[n - 1], offs[Len(offs) - n + 1])
  IN  after[Len(offs)]

CreateVectorOfOffsets(b, offs) ==
  EndVector(PushOffsets(StartVector(b, Len(offs), 4, 4), offs), Len(offs))

----------------------------------------------------------------------------
(* Tables.                                                                 *)

\* A FieldLoc has two bytes of padding, which nobody writes.
TrackField(b, field, off) ==
  [b EXCEPT !.buf = ScratchPush(@, Bytes(off, 4) \o Bytes(field, 2)
                                    \o <<Undefined, Undefined>>),
            !.num_field_loc = @ + 1,
            !.max_voffset = IF field > @ THEN field ELSE @]

TrackLast(b, field) == TrackField(b, field, Size(b))

AddElement(b, field, value, width, default) ==
  IF value = default /\ ~ForceDefaults THEN b
  ELSE TrackLast(PushElement(b, value, width), field)

AddOffset(b, field, off) ==
  IF off = 0 THEN b ELSE TrackLast(PushOffset(b, off), field)

AddStruct(b, field, bytes, align) == TrackLast(PushBytes(Align(b, align), bytes), field)

StartTable(b) == Returning([NotNested(b) EXCEPT !.nested = TRUE])

FieldLoc(mem, p) == [off |-> ReadScalar(mem, p, 4), id |-> ReadScalar(mem, p + 4, 2)]

FieldLocs(mem, num_field_loc) ==
  [k \in 1 .. num_field_loc |->
     FieldLoc(mem, Len(mem) - (num_field_loc - k + 1) * FieldLocSize)]

ClearOffsets(b) ==
  [b EXCEPT !.buf = ScratchPop(@, b.num_field_loc * FieldLocSize),
            !.num_field_loc = 0, !.max_voffset = 0]

\* The offsets of the vtables in the buffer, oldest first.
VtableOffsets(mem) ==
  [k \in 1 .. Len(mem) \div KeptOffsetSize |->
     ReadScalar(mem, (k - 1) * KeptOffsetSize, 4)]

VtableAt(mem, p) == SubSeq(mem, p + 1, p + ReadScalar(mem, p, 2))

\* The vtable of the table that starts at start and whose own offset is loc.
\* Of two locations of one field, against which it asserts, the last stays.
LocsOf(locs, id) == {k \in DOMAIN locs : locs[k].id = id}

LastOffset(locs, which, loc) == IF which = {} THEN 0 ELSE loc - locs[Max(which)].off

VtableSlot(id, locs, size, start, loc) ==
  CASE id = 0 -> size
    [] id = 2 -> loc - start
    [] OTHER  -> LastOffset(locs, LocsOf(locs, id), loc)

VtableSlots(locs, size, start, loc) ==
  FlattenSeq([k \in 1 .. size \div 2 |-> Bytes(VtableSlot(2 * (k - 1), locs, size, start, loc), 2)])

VtableFrom(b, locs, size, start, loc) ==
  PushBytes(Asserting(b, \A k \in DOMAIN locs : LocsOf(locs, locs[k].id) = {k}),
            VtableSlots(locs, size, start, loc))

WriteVtable(b, start, loc) ==
  VtableFrom(b, FieldLocs(Scratch(b.buf), b.num_field_loc),
             Max({b.max_voffset + 2, FieldIndexToOffset(0)}), start, loc)

\* Wrong variant: vtables of equal size are taken to be equal.
SameLayoutBySize(vt1, vt2) == Len(vt1) = Len(vt2)

SameLayout(vt1, vt2) == vt1 = vt2

\* Wrong variant: a new vtable is not remembered.
UseVtableForgetting(b, loc) == [b EXCEPT !.ret = Size(b)]

\* The vtable just written gives way to an equal one or is remembered.
UseVtable(b, loc) ==
  LET mem  == Data(b.buf)
      same == {o \in Range(VtableOffsets(Scratch(b.buf))) :
                 DedupVtables /\ SameLayout(VtableAt(mem, 0), VtableAt(mem, Position(mem, o)))}
  IN  IF same # {}
      THEN [b EXCEPT !.buf = Pop(@, Size(b) - loc), !.ret = Min(same)]
      ELSE [b EXCEPT !.buf = ScratchPush(@, Bytes(Size(b), 4)), !.ret = Size(b)]

\* ret is the vtable of the table at loc.
PointToVtable(b, loc) ==
  [b EXCEPT !.buf.buf = WriteAt(@, DataAt(b.buf, loc), Bytes(b.ret - loc, 4)),
            !.nested = FALSE, !.ret = loc]

EndTableAt(b, start, loc) ==
  PointToVtable(UseVtable(ClearOffsets(WriteVtable(b, start, loc)), loc), loc)

EndPlaced(b, start) == EndTableAt(b, start, b.ret)

EndTable(b, start) == EndPlaced(PushElement(Asserting(b, b.nested), 0, 4), start)

----------------------------------------------------------------------------
(* The whole buffer.                                                       *)

\* The front of the buffer, of len bytes and the length of the identifier.
FrontAligned(b, len, identifier) ==
  PreAlign([NotNested(b) EXCEPT !.buf = ClearScratch(@)], len + Len(identifier), b.minalign)

Prefixed(b, size_prefix) == IF size_prefix THEN PushElement(b, Size(b), 4) ELSE b

FinishAligned(b, root, identifier, size_prefix) ==
  [Prefixed(PushOffset(PushBytes(b, identifier), root), size_prefix) EXCEPT !.finished = TRUE]

\* Wrong variant: the prefix is not counted when the buffer is aligned.
FinishUnprefixed(b, root, identifier, size_prefix) ==
  FinishAligned(FrontAligned(b, 4, identifier), root, identifier, size_prefix)

\* With a file identifier, of 4 bytes, unless it is empty, and perhaps a prefix.
FinishWith(b, root, identifier, size_prefix) ==
  FinishAligned(FrontAligned(b, IF size_prefix THEN 8 ELSE 4, identifier),
                root, identifier, size_prefix)

\* As all of this program's buffers.
Finish(b, root) == FinishWith(b, root, <<>>, FALSE)

\* Of the table that was built last.
FinishLast(b) == Finish(b, b.ret)

\* Wrong variant: a table that was being built still counts as open.
ClearKeepingNested(b) ==
  [ClearOffsets(b) EXCEPT !.buf = Clear(@), !.finished = FALSE, !.minalign = 1,
                          !.string_pool = {}]

ClearBuilder(b) ==
  [ClearOffsets(b) EXCEPT !.buf = Clear(@), !.nested = FALSE, !.finished = FALSE,
                          !.minalign = 1, !.string_pool = {}]

ResetBuilder(b) == [ClearBuilder(b) EXCEPT !.buf = Reset(@)]

GetBufferPointer(b) == Asserting(b, b.finished)
============================================================================
