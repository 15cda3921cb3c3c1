-------------------------- MODULE FlatBufferVectors ------------------------
(***************************************************************************)
(* The rest of FlatBufferBuilder's vectors, of strings, structs and sorted *)
(* tables, and the readers of these and of finished buffers.               *)
(*                                                                         *)
(* The key of a table or struct is what the generated KeyCompareLessThan   *)
(* and KeyCompareWithValue compare: the first field.                       *)
(***************************************************************************)
EXTENDS FlatBufferBuilder, FlatBufferVerifier

----------------------------------------------------------------------------
(* Vectors.                                                                *)

\* One element after the other, as of bools, or of scalars that are converted.
CreateVectorOfEach(b, values, width) ==
  EndVector(FoldRight(LAMBDA value, c : PushElement(c, value, width), values,
                      StartVector(b, Len(values), width, width)),
            Len(values))

ForceVectorAlignment(b, len, width, align) == PreAlign(b, len * width, align)

\* The offsets wait on the scratch pad, over the vtables, until all strings are
\* there; each is read where the scratch pad is by then.
CreateVectorOfStrings(b, strs) ==
  LET n      == Len(strs)
      keep(c, str) == LET d == CreateString(c, str)
                      IN  [d EXCEPT !.buf = ScratchPush(@, Bytes(d.ret, 4))]
      placed == FoldLeft(keep, [b EXCEPT !.buf = EnsureSpace(@, 4 * n)], strs)
      push(c, i) == LET mem == Scratch(c.buf)
                    IN  PushOffset(c, ReadScalar(mem, Len(mem) - 4 * i, 4))
      filled == FoldLeft(push, StartVector(placed, n, 4, 4), [i \in 1 .. n |-> i])
  IN  EndVector([filled EXCEPT !.buf = ScratchPop(@, 4 * n)], n)

\* StartVector is told of the length in units of the alignment, and of the size
\* of the whole struct.
StartStructs(b, n, size, align) == StartVector(b, (n * size) \div align, size, align)

CreateVectorOfStructs(b, structs, size, align) ==
  EndVector(PushBytes(StartStructs(b, Len(structs), size, align), FlattenSeq(structs)),
            Len(structs))

\* Space is made for the structs first, and they are written in place.
CreateVectorOfNativeStructs(b, structs, size, align) ==
  LET begun == StartStructs(b, Len(structs), size, align)
      c     == [begun EXCEPT !.buf = MakeSpace(@, Len(structs) * size)]
  IN  EndVector([c EXCEPT !.buf.buf = WriteAt(@, c.buf.cur, FlattenSeq(structs))], Len(structs))

\* The caller writes the elements before anything else is built.
CreateUninitializedVector(b, elements, width) ==
  LET begun == StartVector(NotNested(b), Len(elements), width, width)
      c     == [begun EXCEPT !.buf = MakeSpace(@, Len(elements) * width)]
      ended == EndVector(c, Len(elements))
  IN  [ended EXCEPT !.buf.buf = WriteAt(@, DataAt(ended.buf, Size(c)), FlattenSeq(elements))]

CreateStruct(b, bytes, align) == Returning(PushBytes(Align(NotNested(b), align), bytes))

----------------------------------------------------------------------------
(* Keys.                                                                   *)

\* std::stable_sort, less being the pairs of indices of which the first is less.
StableSort(seq, less) ==
  LET before(i, j) == <<i, j>> \in less \/ (<<j, i>> \notin less /\ i < j)
      rank(i) == 1 + Cardinality({j \in DOMAIN seq : j # i /\ before(j, i)})
  IN  [k \in DOMAIN seq |-> seq[CHOOSE i \in DOMAIN seq : rank(i) = k]]

Pairs(seq) == (DOMAIN seq) \X (DOMAIN seq)

StructKey(struct) == ReadScalar(struct, 0, 2)

SortByKey(structs) ==
  StableSort(structs, {p \in Pairs(structs) : StructKey(structs[p[1]]) < StructKey(structs[p[2]])})

CreateVectorOfSortedStructs(b, structs, size, align) ==
  CreateVectorOfStructs(b, SortByKey(structs), size, align)

\* Native structs are sorted in the buffer, once they are packed.
CreateVectorOfSortedNativeStructs(b, structs, size, align) ==
  CreateVectorOfNativeStructs(b, SortByKey(structs), size, align)

TableKey(mem, table) == GetField(mem, table, Voffset(1), 4, 0)

\* Wrong variant: it is the offsets that are compared.
OffsetLess(b, off1, off2) == off1 < off2

TableKeyLess(b, off1, off2) ==
  LET mem == Data(b.buf)
  IN  TableKey(mem, Position(mem, off1)) < TableKey(mem, Position(mem, off2))

CreateVectorOfSortedTables(b, offs) ==
  LET less == {p \in Pairs(offs) : TableKeyLess(b, offs[p[1]], offs[p[2]])}
  IN  CreateVectorOfOffsets(b, StableSort(offs, less))

\* std::bsearch: the index of an element with this key, or 0.
LookupByKey(keys, key) ==
  LET search[p \in (0 .. Len(keys)) \X (0 .. Len(keys))] ==
        LET l   == p[1]
            u   == p[2]
            mid == (l + u) \div 2
        IN  IF l >= u THEN 0
            ELSE IF key = keys[mid + 1] THEN mid + 1
            ELSE IF key < keys[mid + 1] THEN search[<<l, mid>>]
            ELSE search[<<mid + 1, u>>]
  IN  search[<<0, Len(keys)>>]

----------------------------------------------------------------------------
(* The whole buffer.                                                       *)

Start(size_prefixed) == IF size_prefixed THEN 4 ELSE 0

BufferHasIdentifier(mem, identifier, size_prefixed) ==
  SubSeq(mem, Start(size_prefixed) + 5, Start(size_prefixed) + 8) = identifier

GetSizePrefixedRoot(mem) == Indirect(mem, 4)

VerifyFinished(mem, T, identifier, size_prefixed) ==
  LET start == Start(size_prefixed)
  IN  /\ Len(mem) >= MinBufferSize
      /\ size_prefixed => ReadScalar(mem, 0, 4) = Len(mem) - 4
      /\ identifier # <<>> => /\ Len(mem) >= 8
                              /\ BufferHasIdentifier(mem, identifier, size_prefixed)
      /\ VerifyOffsetAt(mem, start)
      /\ VerifyRoot(mem, T, Indirect(mem, start))

\* A buffer in a vector of bytes.
VerifyNestedFlatBuffer(bytes, T) == VerifyBuffer(bytes, T)
============================================================================
