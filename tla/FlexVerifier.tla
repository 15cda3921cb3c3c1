---------------------------- MODULE FlexVerifier ---------------------------
(***************************************************************************)
(* flexbuffers.h: class Verifier, with or without a reuse_tracker.         *)
(*                                                                         *)
(* Verification goes through the buffer in one order and counts on the way *)
(* how deep it is and how many vectors it has met; that, what the tracker  *)
(* has seen, and whether all was well so far, is its state.                *)
(***************************************************************************)
EXTENDS FlexReader

CONSTANT MaxDepth  \* max_depth_

ASSUME DepthAssumption == MaxDepth \in Nat

\* seen is the tracker: the packed type found at each byte, or 0.
NewVerifier(buf, tracking) ==
  [ok |-> TRUE, depth |-> 0, vectors |-> 0, tracking |-> tracking,
   seen |-> [p \in 0 .. Len(buf) - 1 |-> 0]]

Failed(s) == [s EXCEPT !.ok = FALSE]
Checked(s, check) == IF check THEN s ELSE Failed(s)

VerifyFrom(buf, elem, len) == elem >= 0 /\ len < Len(buf) /\ elem <= Len(buf) - len
VerifyBefore(elem, len)    == len <= elem
VerifyByteWidth(width)     == width \in {1, 2, 4, 8}
VerifyType(type)           == type \in 0 .. FBT.MAX_TYPE - 1

\* A wrong variant: what is at the start of the buffer is not accepted.
VerifyInnerOffset(buf, off, p) == off < Len(buf) /\ off < p

VerifyOffset(buf, off, p)  == off <= Len(buf) /\ off <= p
VerifyAlignment(p, width)  == p % width = 0

\* FLEX_CHECK_VERIFIED: what has been seen as the same type is not looked at
\* again, and nothing is two things.
Known(s, p, packed) == s.tracking /\ s.seen[p] = packed
Clash(s, p, packed) == s.tracking /\ s.seen[p] \notin {0, packed}
Seen(s, p, packed)  == IF s.tracking THEN [s EXCEPT !.seen[p] = packed] ELSE s

\* Only that some byte from p on is not 0.
VerifyKey(buf, p, s) ==
  LET packed == PackedType(0, FBT.KEY)
  IN  IF Known(s, p, packed) THEN s
      ELSE Checked(Seen(s, p, packed),
                   ~Clash(s, p, packed) /\ \E q \in p .. Len(buf) - 1 : buf[q + 1] # 0)

RECURSIVE VerifyRef(_, _, _), VerifyRefs(_, _, _, _)

VerifyRefs(buf, refs, i, s) ==
  IF i > Len(refs) \/ ~s.ok THEN s
  ELSE VerifyRefs(buf, refs, i + 1, VerifyRef(buf, refs[i], s))

VerifyVector(buf, r, p, elem_type, s) ==
  LET n       == r.byte_width
      entered == [s EXCEPT !.depth = @ + 1, !.vectors = @ + 1]
      packed  == PackedType(CHOOSE w \in 0 .. 3 : Bytes(w) = n, r.type)
      len     == Size(buf, p, n)
      size    == len * IF r.type \in {FBT.STRING, FBT.BLOB} THEN 1 ELSE n
      refs    == [i \in 1 .. len |-> IF elem_type = FBT.NULL
                                     THEN VectorElement(buf, p, n, i - 1)
                                     ELSE TypedElement(p, n, len, FBT.KEY, i - 1)]
  IN  IF \/ entered.depth > MaxDepth \/ entered.vectors > Len(buf)
         \/ ~VerifyBefore(p, n)
      THEN Failed(s)
      ELSE IF Known(s, p - n, packed) THEN entered
      ELSE IF \/ Clash(s, p - n, packed)
              \/ ~VerifyFrom(buf, p, size)
              \/ elem_type = FBT.NULL /\ ~VerifyFrom(buf, p + size, len)
      THEN Failed(s)
      ELSE LET after == VerifyRefs(buf, IF elem_type \in {FBT.NULL, FBT.KEY} THEN refs ELSE <<>>,
                                   1, Seen(entered, p - n, packed))
           IN  [after EXCEPT !.depth = @ - 1]

VerifyKeys(buf, p, n, s) ==
  LET at    == p - 3 * n
      off   == ReadUInt64(buf, at, n)
      width == ReadUInt64(buf, at + n, n) % 256  \* a uint8_t
  IN  IF VerifyBefore(p, 3 * n) /\ VerifyOffset(buf, off, at) /\ VerifyByteWidth(width)
      THEN VerifyVector(buf, Reference(at, n, width, FBT.VECTOR_KEY), at - off, FBT.KEY, s)
      ELSE Failed(s)

\* The elements of a vector of this type, as VerifyVector is told of them.
ElementType(type) ==
  CASE type \in {FBT.MAP, FBT.VECTOR} -> FBT.NULL
    [] type \in {FBT.VECTOR_KEY, FBT.VECTOR_STRING_DEPRECATED} -> FBT.KEY
    [] OTHER -> FBT.UINT

VerifyTarget(buf, r, p, s) ==
  LET fixed  == ToFixedTypedVectorElementType(r.type)
      vector == VerifyVector(buf, r, p, ElementType(r.type), s)
  IN  CASE r.type \in {FBT.INDIRECT_INT, FBT.INDIRECT_UINT, FBT.INDIRECT_FLOAT} ->
             Checked(s, VerifyFrom(buf, p, r.byte_width))
        [] r.type = FBT.KEY -> VerifyKey(buf, p, s)
        [] r.type = FBT.MAP ->
             IF vector.ok THEN VerifyKeys(buf, p, r.byte_width, vector) ELSE vector
        [] r.type = FBT.STRING ->
             IF vector.ok
             THEN Checked(vector, VerifyFrom(buf, p, Size(buf, p, r.byte_width) + 1))
             ELSE vector
        [] IsFixedTypedVector(r.type) -> Checked(s, VerifyFrom(buf, p, r.byte_width * fixed.len))
        [] r.type \in {FBT.VECTOR, FBT.BLOB} \/ IsTypedVector(r.type) -> vector
        [] OTHER -> Failed(s)

VerifyRef(buf, r, s) ==
  LET off == ReadUInt64(buf, r.data, r.parent_width)
  IN  IF ~VerifyByteWidth(r.byte_width) \/ ~VerifyType(r.type) THEN Failed(s)
      ELSE IF IsInline(r.type) THEN s
      ELSE IF VerifyOffset(buf, off, r.data) /\ VerifyAlignment(r.data - off, r.byte_width)
      THEN VerifyTarget(buf, r, r.data - off, s)
      ELSE Failed(s)

VerifyBuffer(buf, tracking) ==
  LET byte_width == ByteAt(buf, Len(buf) - 1)
  IN  /\ Len(buf) >= 3
      /\ VerifyByteWidth(byte_width)
      /\ Len(buf) - 2 >= byte_width
      /\ VerifyRef(buf, GetRoot(buf), NewVerifier(buf, tracking)).ok
============================================================================
