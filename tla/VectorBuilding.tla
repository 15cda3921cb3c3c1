--------------------------- MODULE VectorBuilding --------------------------
(***************************************************************************)
(* Buffers of the vectors that no schema of this program has, and that its *)
(* FlatBufferBuilder offers: of strings, structs, bools and nested         *)
(* buffers, and sorted ones, which are searched by key; finished with a    *)
(* file identifier or a size prefix.                                       *)
(*                                                                         *)
(* A behaviour is about these or about MessageBuilding's own objects.  The *)
(* tables are of one type, Entry, with nothing but a key of 4 bytes.       *)
(***************************************************************************)
EXTENDS MessageBuilding, FlatBufferVectors

CONSTANTS
  Entry,        \* the table type
  Keys,         \* keys of its tables; 0 is the default of the field
  StringLists,  \* sequences of strings
  StructLists,  \* sequences of structs, as sequences of bytes; their key comes first
  Flags,        \* sequences of bools, as 0 and 1
  Identifiers,  \* file identifiers, and <<>> for none
  MaxVectors,   \* bound on the objects in a buffer that are not tables
  MaxBuilt      \* bound on all of them

VARIABLES
  concern,  \* what the buffers are of: "messages" or "vectors"
  finish    \* what the buffer was finished with

vectorVars == <<vars, concern, finish>>

VectorInit == Init /\ concern \in {"messages", "vectors"} /\ finish = Nothing

StructAlign == 2

----------------------------------------------------------------------------
(* One vector more.                                                        *)

RecordVector(b, kind, type, value) ==
  /\ Idle /\ Cardinality(objects) < MaxBuilt
  /\ kind # "table" => Cardinality({o \in objects : o.kind # "table"}) < MaxVectors
  /\ Record(b, kind, type, value) /\ UNCHANGED open

CreateStrings(strs) == RecordVector(CreateVectorOfStrings(bld, strs), "strings", "", strs)

CreateStructs(structs) ==
  LET size == Widths["pair"]
      sorted == SortByKey(structs)
  IN  \/ RecordVector(CreateVectorOfStructs(bld, structs, size, StructAlign),
                      "scalars", "pair", structs)
      \/ RecordVector(CreateVectorOfNativeStructs(bld, structs, size, StructAlign),
                      "scalars", "pair", structs)
      \/ RecordVector(CreateVectorOfSortedStructs(bld, structs, size, StructAlign),
                      "scalars", "sorted", sorted)
      \/ RecordVector(CreateVectorOfSortedNativeStructs(bld, structs, size, StructAlign),
                      "scalars", "sorted", sorted)

CreateOneStruct(struct) ==
  RecordVector(CreateStruct(bld, struct, StructAlign), "struct", "pair", struct)

CreateFlags(flags) ==
  RecordVector(CreateVectorOfEach(bld, flags, 1), "scalars", "bool",
               [k \in DOMAIN flags |-> <<flags[k]>>])

CreateUninitialised(type, elements) ==
  RecordVector(CreateUninitializedVector(bld, elements, Widths[type]), "scalars", type, elements)

\* The generated CreateEntry.
FillEntry(b, key) == EndTable(AddElement(b, Voffset(1), key, 4, 0), b.ret)

CreateEntry(b, key) == FillEntry(StartTable(b), key)

AddEntry(key) == RecordVector(CreateEntry(bld, key), "table", Entry, <<key>>)

KeyOf(off) == (CHOOSE o \in objects : o.kind = "table" /\ o.off = off).value[1]

CreateSortedTables(offs) ==
  RecordVector(CreateVectorOfSortedTables(bld, offs), "tables", Entry,
               StableSort(offs, {p \in Pairs(offs) : KeyOf(offs[p[1]]) < KeyOf(offs[p[2]])}))

\* A whole buffer of its own, put where it can be read in place.
BytesOf(mem) == [k \in DOMAIN mem |-> <<mem[k]>>]

NestedEntry == BytesOf(Data(FinishLast(CreateEntry(NewBuilder, Max(Keys))).buf))

Nest(nested) ==
  RecordVector(CreateVector(ForceVectorAlignment(bld, Len(nested), 1, BufferMinAlign), nested, 1),
               "scalars", "nested", nested)

CreateNested == Nest(NestedEntry)

----------------------------------------------------------------------------
(* The whole buffer.                                                       *)

FinishBuffer(o, identifier, size_prefix) ==
  /\ Idle
  /\ o.kind = "table"
  /\ bld' = GetBufferPointer(FinishWith(bld, o.off, identifier, size_prefix))
  /\ finish' = [made |-> TRUE, root |-> o, identifier |-> identifier, prefixed |-> size_prefix]
  /\ UNCHANGED <<objects, open, builds, sent>>

CreateVectors ==
  \/ \E strs \in StringLists : CreateStrings(strs)
  \/ \E structs \in StructLists : CreateStructs(structs)
  \/ \E struct \in UNION {Range(structs) : structs \in StructLists} : CreateOneStruct(struct)
  \/ \E flags \in Flags : CreateFlags(flags)
  \/ \E type \in DOMAIN Vectors : \E elements \in Vectors[type] :
       CreateUninitialised(type, elements)
  \/ \E key \in Keys : AddEntry(key)
  \/ CreateNested
  \/ \E offs \in SetToAllKPermutations(OffsetsOf(Entry)) : CreateSortedTables(offs)

VectorNext ==
  /\ UNCHANGED concern
  /\ \/ concern = "messages" /\ Next /\ UNCHANGED finish
     \/ concern = "vectors" /\ CreateVectors /\ UNCHANGED finish
     \/ /\ concern = "vectors"
        /\ \E o \in objects, identifier \in Identifiers, size_prefix \in BOOLEAN :
             FinishBuffer(o, identifier, size_prefix)

VectorSpec == VectorInit /\ [][VectorNext]_vectorVars

----------------------------------------------------------------------------
(* Properties.                                                             *)

\* What is in a sorted vector, of structs or of tables, is found by its key,
\* and nothing else is: the order in the buffer is that of the keys in the
\* buffer, also of keys that are not stored because they are the default.
KeyedFound ==
  LET mem == Data(bld.buf)
      found(keys) == \A key \in Keys : (LookupByKey(keys, key) # 0) = (key \in Range(keys))
  IN  \A o \in objects :
        LET p == Position(mem, o.off)
        IN  /\ o.kind = "tables" /\ o.type = Entry =>
                 found([k \in 1 .. VectorSize(mem, p) |-> TableKey(mem, GetAll(mem, p)[k])])
            /\ o.type = "sorted" =>
                 LET structs == Elements(mem, p, Widths["sorted"])
                 IN  found([k \in DOMAIN structs |-> StructKey(structs[k])])

\* A finished buffer passes for what it was finished as and for nothing else,
\* its root is where the reader looks, and when the whole of it is aligned,
\* size prefix and all, so are the scalars and the nested buffers in it.
FinishedFound ==
  finish.made =>
    LET mem  == Data(bld.buf)
        root == IF finish.prefixed THEN GetSizePrefixedRoot(mem) ELSE GetRoot(mem)
        first(o) == VectorData(Position(mem, o.off))
    IN  /\ bld.ok
        /\ FromEnd(mem, root) = finish.root.off
        /\ \A identifier \in Identifiers :
             VerifyFinished(mem, Entry, identifier, finish.prefixed) <=>
               identifier \in {<<>>, finish.identifier}
        /\ bld.buf.cur % bld.minalign = 0
        /\ \A o \in objects : o.kind = "scalars" /\ o.value # <<>> =>
             /\ o.type \in DOMAIN Vectors => first(o) % Widths[o.type] = 0
             /\ o.type = "nested" =>
                  /\ first(o) % BufferMinAlign = 0
                  /\ VerifyNestedFlatBuffer(FlattenSeq(Elements(mem, Position(mem, o.off), 1)), Entry)
============================================================================
