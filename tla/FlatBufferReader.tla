-------------------------- MODULE FlatBufferReader -------------------------
(***************************************************************************)
(* Reading a flatbuffer in place: the accessors with which both processes  *)
(* read each other's messages.                                             *)
(*                                                                         *)
(* A buffer is a sequence of bytes and a pointer into it a position, the   *)
(* first byte at 0.  What an offset in the buffer means depends only on    *)
(* the distance to its end, which is how objects are named everywhere:     *)
(* Position and FromEnd convert.                                           *)
(***************************************************************************)
EXTENDS Integers, Sequences, SequencesExt, FiniteSetsExt

Nullptr == -1

Position(mem, off) == Len(mem) - off
FromEnd(mem, p)    == Len(mem) - p

----------------------------------------------------------------------------
(* Scalars.                                                                *)

Byte == 0 .. 255

\* Little-endian, two's complement; of at most 4 bytes.
Place == <<1, 256, 65536, 16777216>>
Bytes(value, width) == [k \in 1 .. width |-> (value \div Place[k]) % 256]

\* A 4-byte scalar is read with its sign: what is written is below 2^31.
ReadScalar(mem, p, width) ==
  CASE width = 1 -> mem[p + 1]
    [] width = 2 -> mem[p + 1] + 256 * mem[p + 2]
    [] width = 4 -> mem[p + 1] + 256 * (mem[p + 2] + 256 * (mem[p + 3] + 256 *
                      (IF mem[p + 4] >= 128 THEN mem[p + 4] - 256 ELSE mem[p + 4])))

----------------------------------------------------------------------------
(* Tables.                                                                 *)

FieldIndexToOffset(i) == 4 + 2 * i

\* What a voffset_t can hold, and a soffset_t or an int; a buffer is smaller
\* than FLATBUFFERS_MAX_BUFFER_SIZE.
IsVoffset(n) == n \in Nat /\ n < 65536

MaxBufferSize == 2147483647
IsInt32(n) == n \in Int /\ n <= MaxBufferSize /\ n >= -MaxBufferSize - 1

\* The i-th field of a table, as the schema counts them.
Voffset(i) == FieldIndexToOffset(i - 1)

GetVTable(mem, table) == table - ReadScalar(mem, table, 4)

VtableEntry(mem, vtable, field) ==
  IF field < ReadScalar(mem, vtable, 2) THEN ReadScalar(mem, vtable + field, 2) ELSE 0

GetOptionalFieldOffset(mem, table, field) == VtableEntry(mem, GetVTable(mem, table), field)

AddressAt(table, off) == IF off = 0 THEN Nullptr ELSE table + off

GetStruct(mem, table, field) == AddressAt(table, GetOptionalFieldOffset(mem, table, field))

ScalarAt(mem, p, width, default) == IF p = Nullptr THEN default ELSE ReadScalar(mem, p, width)

GetField(mem, table, field, width, default) ==
  ScalarAt(mem, GetStruct(mem, table, field), width, default)

Indirect(mem, p)   == p + ReadScalar(mem, p, 4)
IndirectAt(mem, p) == IF p = Nullptr THEN Nullptr ELSE Indirect(mem, p)

GetPointer(mem, table, field) == IndirectAt(mem, GetStruct(mem, table, field))

GetRoot(mem) == Indirect(mem, 0)

----------------------------------------------------------------------------
(* Vectors and strings.                                                    *)

VectorSize(mem, vec)  == ReadScalar(mem, vec, 4)

VectorData(vec) == vec + 4

\* The elements, of some width; and the tables, of a vector of offsets.
Elements(mem, vec, width) ==
  [i \in 1 .. VectorSize(mem, vec) |->
     [k \in 1 .. width |-> mem[VectorData(vec) + (i - 1) * width + k]]]
GetAll(mem, vec) ==
  [i \in 1 .. VectorSize(mem, vec) |-> Indirect(mem, VectorData(vec) + (i - 1) * 4)]

StringBytes(mem, str) == SubSeq(mem, str + 5, str + 4 + VectorSize(mem, str))
============================================================================
