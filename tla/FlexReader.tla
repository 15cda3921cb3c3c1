----------------------------- MODULE FlexReader ----------------------------
(***************************************************************************)
(* flexbuffers.h: types, widths, and the classes that read a FlexBuffer.   *)
(*                                                                         *)
(* A buffer is a sequence of bytes and a pointer into it a number, 0 for   *)
(* its first byte.  A byte of a number has ByteValues values: with fewer   *)
(* than 256, short buffers need wide offsets.  A byte that holds a packed  *)
(* type or a width is not cut down.  A floating point number is a natural: *)
(* those that a float holds are below ByteValues^4.  The bytes of a double *)
(* differ from those of the same number as a float.                        *)
(***************************************************************************)
EXTENDS Integers, Sequences, SequencesExt, FiniteSetsExt

CONSTANT ByteValues  \* values of a byte of a number

ASSUME ByteAssumption == ByteValues \in {4, 8}  \* so that 8 bytes are within TLC's integers

----------------------------------------------------------------------------
(* Types and widths.                                                       *)

FBT == [NULL |-> 0, INT |-> 1, UINT |-> 2, FLOAT |-> 3, KEY |-> 4, STRING |-> 5,
        INDIRECT_INT |-> 6, INDIRECT_UINT |-> 7, INDIRECT_FLOAT |-> 8, MAP |-> 9,
        VECTOR |-> 10, VECTOR_INT |-> 11, VECTOR_UINT |-> 12, VECTOR_FLOAT |-> 13,
        VECTOR_KEY |-> 14, VECTOR_STRING_DEPRECATED |-> 15, VECTOR_INT2 |-> 16,
        VECTOR_FLOAT4 |-> 24, BLOB |-> 25, BOOL |-> 26, VECTOR_BOOL |-> 36, MAX_TYPE |-> 37]

IsInline(t) == t <= FBT.FLOAT \/ t = FBT.BOOL
IsTypedVectorElementType(t) == t \in FBT.INT .. FBT.STRING \/ t = FBT.BOOL
IsTypedVector(t) == t \in FBT.VECTOR_INT .. FBT.VECTOR_STRING_DEPRECATED \/ t = FBT.VECTOR_BOOL
IsFixedTypedVector(t) == t \in FBT.VECTOR_INT2 .. FBT.VECTOR_FLOAT4

\* fixed_len is 0 for a vector that stores its length.
ToTypedVector(t, fixed_len) ==
  t - FBT.INT + IF fixed_len = 0 THEN FBT.VECTOR_INT
                                 ELSE FBT.VECTOR_INT2 + 3 * (fixed_len - 2)

ToTypedVectorElementType(t) == t - FBT.VECTOR_INT + FBT.INT

ToFixedTypedVectorElementType(t) == [type |-> ((t - FBT.VECTOR_INT2) % 3) + FBT.INT,
                                     len  |-> ((t - FBT.VECTOR_INT2) \div 3) + 2]

\* A BitWidth is the exponent of the number of bytes.
Bytes(w) == 2^w

WidthU(u) == Min({w \in 0 .. 2 : u < ByteValues^Bytes(w)} \cup {3})
WidthI(i) == WidthU(IF i >= 0 THEN 2 * i ELSE -2 * i - 1)
WidthF(f) == IF f < ByteValues^4 THEN 2 ELSE 3

PackedType(w, t) == 4 * t + w

----------------------------------------------------------------------------
(* Numbers in a buffer.                                                    *)

\* The first n bytes of a number, in little-endian order and two's complement.
Encoded(v, n) == [k \in 1 .. n |-> (v \div ByteValues^(k - 1)) % ByteValues]

\* static_cast to float or double: the last bytes of a double tell it.
EncodedFloat(f, n) == Encoded(IF n = 8 THEN f * ByteValues^3 ELSE f, n)

\* What lies outside a buffer no reader relies on.
ByteAt(buf, p) == IF p \in 0 .. Len(buf) - 1 THEN buf[p + 1] ELSE 0

ReadUInt64(buf, p, n) ==
  LET sum[k \in 0 .. n] ==
        IF k = 0 THEN 0 ELSE sum[k - 1] + ByteAt(buf, p + k - 1) * ByteValues^(k - 1)
  IN  sum[n]

ReadInt64(buf, p, n) ==
  LET top == ByteAt(buf, p + n - 1)
  IN  ReadUInt64(buf, p, n - 1)
      + (IF 2 * top >= ByteValues THEN top - ByteValues ELSE top) * ByteValues^(n - 1)

ReadDouble(buf, p, n) == ReadUInt64(buf, p, n) \div IF n = 8 THEN ByteValues^3 ELSE 1

IndirectFrom(buf, p, n) == p - ReadUInt64(buf, p, n)

----------------------------------------------------------------------------
(* References.                                                             *)

Reference(data, parent_width, byte_width, type) ==
  [data |-> data, parent_width |-> parent_width, byte_width |-> byte_width, type |-> type]

PackedReference(data, parent_width, packed_type) ==
  Reference(data, parent_width, Bytes(packed_type % 4), packed_type \div 4)

NullReference == PackedReference(0, 1, PackedType(0, FBT.NULL))

Indirect(buf, r) == IndirectFrom(buf, r.data, r.parent_width)

GetRoot(buf) ==
  LET byte_width == ByteAt(buf, Len(buf) - 1)
  IN  PackedReference(Len(buf) - 2 - byte_width, byte_width, ByteAt(buf, Len(buf) - 2))

\* Where the value of a scalar is, and its width in bytes.
Place(buf, r) == IF IsInline(r.type) THEN [at |-> r.data, width |-> r.parent_width]
                                     ELSE [at |-> Indirect(buf, r), width |-> r.byte_width]

\* What AsInt64, AsUInt64 and AsDouble convert to their own types; strings are
\* not parsed here.
AsNumber(buf, r) ==
  LET p == Place(buf, r)
  IN  CASE r.type \in {FBT.INT, FBT.INDIRECT_INT, FBT.BOOL} -> ReadInt64(buf, p.at, p.width)
        [] r.type \in {FBT.UINT, FBT.INDIRECT_UINT} -> ReadUInt64(buf, p.at, p.width)
        [] r.type \in {FBT.FLOAT, FBT.INDIRECT_FLOAT} -> ReadDouble(buf, p.at, p.width)
        [] r.type = FBT.VECTOR -> ReadUInt64(buf, p.at - p.width, p.width)
        [] OTHER -> 0

AsBool(buf, r) == IF r.type = FBT.BOOL THEN ReadUInt64(buf, r.data, r.parent_width) # 0
                                      ELSE AsNumber(buf, r) # 0

\* The text up to the terminator.
CString(buf, p) ==
  LET ends == {q \in p .. Len(buf) - 1 : buf[q + 1] = 0}
  IN  SubSeq(buf, p + 1, IF ends = {} THEN Len(buf) ELSE Min(ends))

AsKey(buf, r) == CString(buf, Indirect(buf, r))

----------------------------------------------------------------------------
(* Sized objects.                                                          *)

\* The size stored before the data.
Size(buf, p, n) == ReadUInt64(buf, p - n, n)

\* Of a string or a blob, and of a key.
AsString(buf, r) ==
  LET p == Indirect(buf, r)
  IN  IF r.type = FBT.KEY THEN CString(buf, p) ELSE SubSeq(buf, p + 1, p + Size(buf, p, r.byte_width))

\* Elements are numbered from 0; there is a null beyond the end.
VectorElement(buf, p, n, i) ==
  LET len == Size(buf, p, n)
  IN  IF i >= len THEN NullReference
                  ELSE PackedReference(p + i * n, n, ByteAt(buf, p + len * n + i))

TypedElement(p, n, len, type, i) ==
  IF i >= len THEN NullReference ELSE Reference(p + i * n, n, 1, type)

\* Strings without a known width for their size are read as keys.
AccessType(type) ==
  IF ToTypedVectorElementType(type) = FBT.STRING THEN FBT.KEY ELSE ToTypedVectorElementType(type)

\* The elements of any kind of vector, and of a map its values.
Elements(buf, r) ==
  LET p     == Indirect(buf, r)
      n     == r.byte_width
      len   == Size(buf, p, n)
      fixed == ToFixedTypedVectorElementType(r.type)
  IN  IF r.type \in {FBT.VECTOR, FBT.MAP}
      THEN [i \in 1 .. len |-> VectorElement(buf, p, n, i - 1)]
      ELSE IF IsTypedVector(r.type)
      THEN [i \in 1 .. len |-> TypedElement(p, n, len, AccessType(r.type), i - 1)]
      ELSE [i \in 1 .. fixed.len |-> TypedElement(p, n, fixed.len, fixed.type, i - 1)]

----------------------------------------------------------------------------
(* Maps.                                                                   *)

\* Map::Keys: the keys are a vector of their own, found through two of the
\* three prefixed fields of the values.  A width is a uint8_t.
Keys(buf, r) ==
  LET keys_offset == Indirect(buf, r) - 3 * r.byte_width
      p == IndirectFrom(buf, keys_offset, r.byte_width)
      n == ReadUInt64(buf, keys_offset + r.byte_width, r.byte_width) % 256
      len == Size(buf, p, n)
  IN  [i \in 1 .. len |-> TypedElement(p, n, len, FBT.KEY, i - 1)]

\* A wrong variant: the shorter of two keys with the same beginning is not before
\* the longer.
BeforeWithin(s, t) ==
  \E k \in 1 .. Len(t) \cap DOMAIN s : s[k] < t[k] /\ \A j \in 1 .. k - 1 : s[j] = t[j]

\* strcmp(s, t) < 0
Before(s, t) ==
  \E k \in 1 .. Len(t) :
    /\ k <= Len(s) + 1
    /\ \A j \in 1 .. k - 1 : s[j] = t[j]
    /\ k <= Len(s) => s[k] < t[k]

\* std::bsearch over the elements l .. u - 1; the number of keys if there is none.
BinarySearch(texts, key) ==
  LET search[l \in Nat, u \in Nat] ==
        LET mid == (l + u) \div 2
        IN  IF l >= u THEN Len(texts)
            ELSE IF key = texts[mid + 1] THEN mid
            ELSE IF Before(key, texts[mid + 1]) THEN search[l, mid]
            ELSE search[mid + 1, u]
  IN  search[0, Len(texts)]

\* Map::operator[]
Lookup(buf, r, key) ==
  LET keys == Keys(buf, r)
      i    == BinarySearch([k \in DOMAIN keys |-> AsKey(buf, keys[k])], key)
  IN  IF i = Len(keys) THEN NullReference
                       ELSE VectorElement(buf, Indirect(buf, r), r.byte_width, i)
============================================================================
