----------------------- MODULE MessageBuildingProofs -----------------------
(***************************************************************************)
(* Proofs about the builder and MessageBuilding, for any schemas, contents *)
(* and alignments, and however the memory grows.                           *)
(*                                                                         *)
(* First two forms of induction and what the operators on numbers, bytes   *)
(* and sequences yield; then a lemma for each operation of the builder,    *)
(* that it keeps the builder well formed and only adds to the front of its *)
(* data; then the invariant BuildInv, that every action keeps.             *)
(***************************************************************************)
EXTENDS MessageBuilding, VectorDownwardProofs, NaturalsInduction, FiniteSetTheorems

----------------------------------------------------------------------------
(* Induction, with a set where the library has an operator.                *)

LEMMA SetInduction ==
  ASSUME NEW S, 0 \in S, \A n \in Nat : n \in S => n + 1 \in S
  PROVE  Nat \subseteq S
<1>. DEFINE R == {p \in Nat \X Nat : p[1] < p[2]}
            T == Nat \ S
<1>. SUFFICES ASSUME T # {} PROVE FALSE
  OBVIOUS
<1>1. PICK x \in T : \A y \in T : <<y, x>> \notin R
  <2>1. IsWellFoundedOn(R, Nat) /\ T \subseteq Nat /\ T # {}
    BY NatLessThanWellFounded DEF OpToRel
  <2>. HIDE DEF R, T
  <2>. QED
    BY <2>1, WFMin
<1>2. x \in Nat /\ x # 0
  BY <1>1
<1>3. x - 1 \in Nat /\ x = (x - 1) + 1 /\ x - 1 < x
  BY <1>2
<1>4. <<x - 1, x>> \in R
  BY <1>2, <1>3
<1>5. x - 1 \notin T
  BY <1>1, <1>4
<1>6. (x - 1) + 1 \in S
  BY <1>3, <1>5
<1>. QED
  BY <1>1, <1>3, <1>6

\* A definition by recursion: F[<<x, g>>] may ask g for values of lower rank only.
Ranked(S, U, F, rank, top) ==
  /\ F \in [S \X [S -> U] -> U] /\ rank \in [S -> Nat]
  /\ top \in Nat /\ \A x \in S : rank[x] < top
  /\ \A x \in S : \A g, h \in [S -> U] :
       (\A y \in S : rank[y] < rank[x] => g[y] = h[y]) => F[<<x, g>>] = F[<<x, h>>]

Solvable(S, U, F) == \E g \in [S -> U] : \A x \in S : g[x] = F[<<x, g>>]

LEMMA Recursion ==
  ASSUME NEW S, NEW U, NEW F, NEW u \in U, NEW rank, NEW top, Ranked(S, U, F, rank, top)
  PROVE  Solvable(S, U, F)
<1>0. /\ F \in [S \X [S -> U] -> U] /\ rank \in [S -> Nat]
      /\ top \in Nat /\ \A x \in S : rank[x] < top
      /\ \A x \in S : \A g, h \in [S -> U] :
           (\A y \in S : rank[y] < rank[x] => g[y] = h[y]) => F[<<x, g>>] = F[<<x, h>>]
  BY DEF Ranked
<1>. DEFINE Upto(g, n) == \A x \in S : rank[x] < n => g[x] = F[<<x, g>>]
            Reached == {n \in Nat : \E g \in [S -> U] : Upto(g, n)}
<1>1. 0 \in Reached
  <2>1. [x \in S |-> u] \in [S -> U]
    OBVIOUS
  <2>2. \A x \in S : ~(rank[x] < 0)
    BY <1>0
  <2>. QED
    BY <2>1, <2>2
<1>2. ASSUME NEW n \in Nat, n \in Reached
      PROVE  n + 1 \in Reached
  <2>1. PICK g \in [S -> U] : Upto(g, n)
    BY <1>2
  <2>. DEFINE h == [x \in S |-> IF rank[x] = n THEN F[<<x, g>>] ELSE g[x]]
  <2>2. h \in [S -> U]
    BY <1>0
  <2>3. \A x \in S : rank[x] < n => h[x] = g[x]
    BY <1>0
  <2>4. ASSUME NEW x \in S, rank[x] < n + 1
        PROVE  h[x] = F[<<x, h>>]
    <3>1. \A y \in S : rank[y] < rank[x] => rank[y] < n
      <4>1. rank[x] \in Nat /\ \A y \in S : rank[y] \in Nat
        BY <1>0
      <4>2. \A i, j \in Nat : j < n + 1 /\ i < j => i < n
        OBVIOUS
      <4>. QED
        BY <2>4, <4>1, <4>2
    <3>2. F[<<x, g>>] = F[<<x, h>>]
      <4>1. \A y \in S : rank[y] < rank[x] => g[y] = h[y]
        BY <2>3, <3>1
      <4>. HIDE DEF h
      <4>. QED
        BY <1>0, <2>2, <4>1
    <3>3. rank[x] = n \/ rank[x] < n
      <4>1. rank[x] \in Nat
        BY <1>0
      <4>2. \A r \in Nat : r < n + 1 => r = n \/ r < n
        OBVIOUS
      <4>. QED
        BY <2>4, <4>1, <4>2
    <3>4. CASE rank[x] = n
      BY <3>2, <3>4
    <3>5. CASE rank[x] < n
      <4>1. h[x] = g[x] /\ g[x] = F[<<x, g>>]
        BY <2>1, <2>3, <3>5
      <4>. QED
        BY <3>2, <4>1
    <3>. QED
      BY <3>3, <3>4, <3>5
  <2>. HIDE DEF h
  <2>. QED
    BY <2>2, <2>4
<1>3. top \in Reached
  <2>. HIDE DEF Reached
  <2>. QED
    BY <1>0, <1>1, <1>2, SetInduction
<1>. QED
  BY <1>0, <1>3 DEF Solvable

\* Sets of integers that are finite have a least and a greatest element.
LEMMA Extremes ==
  ASSUME NEW T, IsFiniteSet(T), T \subseteq Int, T # {}
  PROVE  /\ Min(T) \in T /\ \A y \in T : Min(T) <= y
         /\ Max(T) \in T /\ \A y \in T : Max(T) >= y
<1>. DEFINE Bounded(W) == /\ \E x \in W : \A y \in W : x <= y
                          /\ \E x \in W : \A y \in W : x >= y
            Reached == {n \in Nat : \A W \in SUBSET Int :
                          IsFiniteSet(W) /\ Cardinality(W) = n /\ W # {} => Bounded(W)}
<1>1. 0 \in Reached
  BY FS_EmptySet
<1>2. ASSUME NEW n \in Nat, n \in Reached
      PROVE  n + 1 \in Reached
  <2>. SUFFICES ASSUME NEW W \in SUBSET Int, IsFiniteSet(W), Cardinality(W) = n + 1, W # {}
                PROVE  Bounded(W)
    OBVIOUS
  <2>1. PICK w \in W : TRUE
    OBVIOUS
  <2>. DEFINE V == W \ {w}
  <2>2. IsFiniteSet(V) /\ Cardinality(V) = n
    <3>1. IsFiniteSet(W \ {w}) /\ Cardinality(W \ {w}) = Cardinality(W) - 1
      BY <2>1, FS_RemoveElement
    <3>. QED
      BY <3>1
  <2>3. CASE V = {}
    <3>1. \A y \in W : y = w
      BY <2>3
    <3>. QED
      BY <3>1
  <2>4. CASE V # {}
    <3>1. Bounded(V)
      BY <1>2, <2>2, <2>4
    <3>2. PICK lo \in V : \A y \in V : lo <= y
      BY <3>1
    <3>3. PICK hi \in V : \A y \in V : hi >= y
      BY <3>1
    <3>4. \A y \in W : y = w \/ y \in V
      OBVIOUS
    <3>5. \E x \in W : \A y \in W : x <= y
      <4>1. CASE w <= lo
        BY <3>2, <3>4, <4>1
      <4>2. CASE ~(w <= lo)
        BY <3>2, <3>4, <4>2
      <4>. QED
        BY <4>1, <4>2
    <3>6. \E x \in W : \A y \in W : x >= y
      <4>1. CASE w >= hi
        BY <3>3, <3>4, <4>1
      <4>2. CASE ~(w >= hi)
        BY <3>3, <3>4, <4>2
      <4>. QED
        BY <4>1, <4>2
    <3>. QED
      BY <3>5, <3>6
  <2>. QED
    BY <2>3, <2>4
<1>3. Cardinality(T) \in Reached
  <2>1. Cardinality(T) \in Nat
    BY FS_CardinalityType
  <2>. HIDE DEF Reached
  <2>. QED
    BY <1>1, <1>2, <2>1, SetInduction
<1>4. Bounded(T)
  BY <1>3
<1>. QED
  BY <1>4 DEF Min, Max

----------------------------------------------------------------------------
(* Bytes.                                                                  *)

LEMMA BytesFacts ==
  ASSUME NEW value \in Int, NEW width \in 0 .. 4
  PROVE  /\ Bytes(value, width) \in Seq(Byte) /\ Len(Bytes(value, width)) = width
         /\ \A k \in 1 .. width : Bytes(value, width)[k] = (value \div Place[k]) % 256
<1>1. \A k \in 1 .. width : Place[k] \in Nat \ {0}
  BY DEF Place
<1>2. \A k \in 1 .. width : (value \div Place[k]) % 256 \in Byte
  <2>1. \A p \in Nat \ {0} : value \div p \in Int
    OBVIOUS
  <2>2. \A q \in Int : q % 256 \in Byte
    BY DEF Byte
  <2>. QED
    BY <1>1, <2>1, <2>2
<1>. DEFINE s == Bytes(value, width)
<1>3. s = [k \in 1 .. width |-> (value \div Place[k]) % 256]
  BY DEF Bytes
<1>4. s \in [1 .. width -> Byte]
  BY <1>2, <1>3
<1>. HIDE DEF s
<1>5. s \in Seq(Byte) /\ Len(s) = width
  BY <1>4, SeqDef, LenProperties
<1>. QED
  BY <1>3, <1>5 DEF s

LEMMA FourBytes == \A i \in Int : Bytes(i, 4) \in Seq(Byte) /\ Len(Bytes(i, 4)) = 4
<1>. TAKE i \in Int
<1>1. 4 \in 0 .. 4
  OBVIOUS
<1>. QED
  BY <1>1, BytesFacts

\* What is written is read, if it is small enough.
LEMMA TwoBytes ==
  ASSUME NEW v \in Nat, v < 65536
  PROVE  ((v \div 1) % 256) + (256 * ((v \div 256) % 256)) = v
  OBVIOUS

LEMMA Padding ==
  ASSUME NEW size \in Int, NEW n \in Nat \ {0}
  PROVE  PaddingBytes(size, n) \in Nat /\ PaddingBytes(size, n) < n
  BY DEF PaddingBytes

\* A sequence of sequences, one after the other: f[i] is the first i of them.
FlattenedBy(S, seqs, f) ==
  /\ FlattenSeq(seqs) = f[Len(seqs)]
  /\ \A i \in 1 .. Len(seqs) :
       f[i] \in Seq(S) /\ f[i] = IF i = 1 THEN seqs[i] ELSE f[i - 1] \o seqs[i]

LEMMA FlattenSteps ==
  ASSUME NEW S, NEW seqs \in Seq(Seq(S)), Len(seqs) # 0
  PROVE  \E f : FlattenedBy(S, seqs, f)
<1>. DEFINE n == Len(seqs)
            D == 1 .. n
            U == Seq(S)
            Solves(f) == f = [i \in D |-> IF i = 1 THEN seqs[i] ELSE f[i - 1] \o seqs[i]]
            F == [p \in D \X [D -> U] |-> IF p[1] = 1 THEN seqs[p[1]]
                                          ELSE p[2][p[1] - 1] \o seqs[p[1]]]
            rank == [i \in D |-> i]
<1>1. n \in Nat /\ \A i \in D : seqs[i] \in U
  BY LenProperties
<1>3. n # 0
  OBVIOUS
<1>4. F \in [D \X [D -> U] -> U]
  <2>1. ASSUME NEW i \in D, NEW g \in [D -> U], i # 1
        PROVE  g[i - 1] \o seqs[i] \in U
    <3>1. i - 1 \in D
      BY <1>1, <2>1
    <3>. HIDE DEF D, n
    <3>2. g[i - 1] \in U /\ seqs[i] \in U
      BY <1>1, <3>1
    <3>. QED
      BY <3>2, ConcatProperties
  <2>. HIDE DEF U, D
  <2>. QED
    BY <1>1, <2>1
<1>5. Solvable(D, U, F)
  <2>. DEFINE top == n + 1
  <2>1. rank \in [D -> Nat] /\ \A i \in D : rank[i] < top
    BY <1>1
  <2>2. ASSUME NEW i \in D, NEW g \in [D -> U], NEW h \in [D -> U],
               \A j \in D : rank[j] < rank[i] => g[j] = h[j]
        PROVE  F[<<i, g>>] = F[<<i, h>>]
    <3>1. i # 1 => i - 1 \in D /\ g[i - 1] = h[i - 1]
      BY <1>1, <2>2
    <3>2. /\ F[<<i, g>>] = IF i = 1 THEN seqs[i] ELSE g[i - 1] \o seqs[i]
          /\ F[<<i, h>>] = IF i = 1 THEN seqs[i] ELSE h[i - 1] \o seqs[i]
      BY DEF U
    <3>. QED
      BY <3>1, <3>2
  <2>3. top \in Nat /\ <<>> \in U
    BY <1>1, EmptySeq
  <2>4. Ranked(D, U, F, rank, top)
    <3>. HIDE DEF F, rank, U, D, top
    <3>. QED
      BY <1>4, <2>1, <2>2, <2>3 DEF Ranked
  <2>. HIDE DEF F, rank, U, D, top
  <2>. QED
    BY <2>3, <2>4, Recursion
<1>6. \E f : Solves(f)
  <2>1. PICK g \in [D -> U] : \A i \in D : g[i] = F[<<i, g>>]
    BY <1>5 DEF Solvable
  <2>2. \A i \in D : F[<<i, g>>] = IF i = 1 THEN seqs[i] ELSE g[i - 1] \o seqs[i]
    BY DEF U
  <2>. HIDE DEF U, D, F
  <2>3. Solves(g)
    BY <2>1, <2>2
  <2>. QED
    BY <2>3
<1>. DEFINE f == CHOOSE x : Solves(x)
<1>7. FlattenSeq(seqs) = f[n]
  BY <1>3 DEF FlattenSeq
<1>8. Solves(f)
  <2>. HIDE DEF Solves
  <2>. QED
    BY <1>6
<1>. HIDE DEF f
<1>9. \A i \in D : f[i] = IF i = 1 THEN seqs[i] ELSE f[i - 1] \o seqs[i]
  BY <1>8
<1>. DEFINE Reached == {i \in Nat : i \in D => f[i] \in U}
<1>10. 0 \in Reached
  BY <1>1
<1>11. ASSUME NEW i \in Nat, i \in Reached
      PROVE  i + 1 \in Reached
  <2>1. SUFFICES ASSUME i + 1 \in D PROVE f[i + 1] \in U
    OBVIOUS
  <2>2. CASE i = 0
    BY <1>1, <1>9, <2>1, <2>2
  <2>3. CASE i # 0
    <3>1. i \in D /\ (i + 1) - 1 = i /\ i + 1 # 1
      BY <1>1, <2>1, <2>3
    <3>2. f[i + 1] = f[i] \o seqs[i + 1]
      BY <1>9, <2>1, <3>1
    <3>3. f[i] \in U /\ seqs[i + 1] \in U
      BY <1>1, <1>11, <2>1, <3>1
    <3>. QED
      BY <3>2, <3>3, ConcatProperties
  <2>. QED
    BY <2>2, <2>3
<1>12. ASSUME NEW i \in D
       PROVE  f[i] \in U
  <2>1. i \in Reached
    <3>1. i \in Nat
      BY <1>1
    <3>2. Nat \subseteq Reached
      <4>. HIDE DEF Reached
      <4>. QED
        BY <1>10, <1>11, SetInduction
    <3>. QED
      BY <3>1, <3>2
  <2>. QED
    BY <2>1
<1>13. FlattenedBy(S, seqs, f)
  BY <1>7, <1>9, <1>12 DEF FlattenedBy
<1>. QED
  BY <1>13

LEMMA Flattened ==
  ASSUME NEW S, NEW seqs \in Seq(Seq(S))
  PROVE  FlattenSeq(seqs) \in Seq(S)
<1>1. CASE Len(seqs) = 0
  <2>1. seqs = <<>> /\ FlattenSeq(seqs) = seqs
    BY <1>1 DEF FlattenSeq
  <2>. QED
    BY <2>1, EmptySeq
<1>2. CASE Len(seqs) # 0
  <2>1. PICK f : FlattenedBy(S, seqs, f)
    BY <1>2, FlattenSteps
  <2>2. Len(seqs) \in 1 .. Len(seqs)
    BY <1>2, LenProperties
  <2>. QED
    BY <2>1, <2>2 DEF FlattenedBy
<1>. QED
  BY <1>1, <1>2

----------------------------------------------------------------------------
(* Builders.                                                               *)

Cell == Byte \cup {Undefined}

\* What every builder is between two operations.
Fine(b) ==
  /\ b \in [buf : {b.buf}, num_field_loc : Nat, max_voffset : Nat, nested : BOOLEAN,
            finished : BOOLEAN, minalign : Nat \ {0}, string_pool : SUBSET Nat, ret : Int,
            ok : BOOLEAN]
  /\ Good(b.buf, Cell) /\ Data(b.buf) \in Seq(Byte)

\* From b to c the data has grown, and nothing else has changed but ret and minalign.
Grown(b, c) ==
  /\ Fine(c) /\ Scratch(c.buf) = Scratch(b.buf)
  /\ \E bytes \in Seq(Byte) : Data(c.buf) = bytes \o Data(b.buf)
  /\ c.num_field_loc = b.num_field_loc /\ c.max_voffset = b.max_voffset
  /\ c.nested = b.nested /\ c.finished = b.finished /\ c.string_pool = b.string_pool
  /\ c.ok = b.ok

LEMMA Cells == Undefined \in Cell /\ Byte \subseteq Cell
  BY DEF Cell

LEMMA BytesAreCells ==
  ASSUME NEW bytes \in Seq(Byte)
  PROVE  bytes \in Seq(Cell)
  BY Cells, SeqMonotonic

LEMMA SizeFacts ==
  ASSUME NEW b, Fine(b)
  PROVE  Size(b) \in Nat /\ Len(Data(b.buf)) = Size(b)
  BY Cells, GoodStacks DEF Fine, Size, Good

WithBuf(b, v) == [b EXCEPT !.buf = v]

LEMMA FineWithBuf ==
  ASSUME NEW b, Fine(b), NEW v, Good(v, Cell), Data(v) \in Seq(Byte),
         NEW c, c = WithBuf(b, v)
  PROVE  /\ Fine(c) /\ c.buf = v
         /\ c.num_field_loc = b.num_field_loc /\ c.max_voffset = b.max_voffset
         /\ c.nested = b.nested /\ c.finished = b.finished /\ c.minalign = b.minalign
         /\ c.string_pool = b.string_pool /\ c.ret = b.ret /\ c.ok = b.ok
<1>1. c \in [buf : {v}, num_field_loc : {b.num_field_loc}, max_voffset : {b.max_voffset},
             nested : {b.nested}, finished : {b.finished}, minalign : {b.minalign},
             string_pool : {b.string_pool}, ret : {b.ret}, ok : {b.ok}]
  BY DEF Fine, WithBuf
<1>2. /\ b.num_field_loc \in Nat /\ b.max_voffset \in Nat /\ b.nested \in BOOLEAN
      /\ b.finished \in BOOLEAN /\ b.minalign \in Nat \ {0} /\ b.string_pool \in SUBSET Nat
      /\ b.ret \in Int /\ b.ok \in BOOLEAN
  BY DEF Fine
<1>3. /\ c.buf = v
      /\ c.num_field_loc = b.num_field_loc /\ c.max_voffset = b.max_voffset
      /\ c.nested = b.nested /\ c.finished = b.finished /\ c.minalign = b.minalign
      /\ c.string_pool = b.string_pool /\ c.ret = b.ret /\ c.ok = b.ok
  BY <1>1
<1>4. c \in [buf : {c.buf}, num_field_loc : Nat, max_voffset : Nat, nested : BOOLEAN,
             finished : BOOLEAN, minalign : Nat \ {0}, string_pool : SUBSET Nat, ret : Int,
             ok : BOOLEAN]
  BY <1>1, <1>2
<1>5. Fine(c)
  BY <1>3, <1>4 DEF Fine
<1>. QED
  BY <1>3, <1>5

LEMMA GrownSelf ==
  ASSUME NEW b, Fine(b)
  PROVE  Grown(b, b)
<1>1. <<>> \in Seq(Byte) /\ Data(b.buf) = <<>> \o Data(b.buf)
  BY EmptySeq, ConcatEmptySeq DEF Fine
<1>. QED
  BY <1>1 DEF Grown

LEMMA GrownOn ==
  ASSUME NEW a, NEW b, NEW c, Fine(a), Grown(a, b), Grown(b, c)
  PROVE  Grown(a, c)
<1>1. PICK x \in Seq(Byte) : Data(b.buf) = x \o Data(a.buf)
  BY DEF Grown
<1>2. PICK y \in Seq(Byte) : Data(c.buf) = y \o Data(b.buf)
  BY DEF Grown
<1>3. y \o x \in Seq(Byte)
  BY ConcatProperties
<1>4. Data(c.buf) = (y \o x) \o Data(a.buf)
  <2>1. Data(a.buf) \in Seq(Byte)
    BY DEF Fine
  <2>. QED
    BY <1>1, <1>2, <2>1, ConcatAssociative
<1>. QED
  BY <1>3, <1>4 DEF Grown

LEMMA GrownSize ==
  ASSUME NEW b, NEW c, Fine(b), Grown(b, c)
  PROVE  Fine(c) /\ Size(c) \in Nat /\ Size(b) <= Size(c)
<1>1. PICK x \in Seq(Byte) : Data(c.buf) = x \o Data(b.buf)
  BY DEF Grown
<1>2. Len(x) \in Nat /\ Len(Data(c.buf)) = Len(x) + Len(Data(b.buf))
  BY <1>1, ConcatProperties, LenProperties DEF Fine
<1>3. Fine(c)
  BY DEF Grown
<1>. QED
  BY <1>2, <1>3, SizeFacts

----------------------------------------------------------------------------
(* Scalars and alignment.                                                  *)

LEMMA PushBytesGrows ==
  ASSUME NEW b, Fine(b), NEW bytes \in Seq(Byte)
  PROVE  LET c == PushBytes(b, bytes)
         IN  /\ Grown(b, c) /\ Data(c.buf) = bytes \o Data(b.buf)
             /\ c.ret = b.ret /\ Size(c) = Size(b) + Len(bytes)
<1>. DEFINE v == Push(b.buf, bytes)
            c == PushBytes(b, bytes)
<1>1. Good(v, Cell) /\ Data(v) = bytes \o Data(b.buf) /\ Scratch(v) = Scratch(b.buf)
  BY Cells, BytesAreCells, Pushed DEF Fine
<1>2. Data(v) \in Seq(Byte) /\ Len(Data(v)) = Len(bytes) + Len(Data(b.buf))
  BY <1>1, ConcatProperties DEF Fine
<1>. HIDE DEF v
<1>3. c = WithBuf(b, v)
  BY DEF PushBytes, WithBuf, v
<1>. HIDE DEF c
<1>4. /\ Fine(c) /\ c.buf = v
      /\ c.num_field_loc = b.num_field_loc /\ c.max_voffset = b.max_voffset
      /\ c.nested = b.nested /\ c.finished = b.finished
      /\ c.string_pool = b.string_pool /\ c.ret = b.ret /\ c.ok = b.ok
  <2>1. Good(v, Cell) /\ Data(v) \in Seq(Byte)
    BY <1>1, <1>2
  <2>. QED
    BY <1>3, <2>1, FineWithBuf
<1>5. Grown(b, c)
  BY <1>1, <1>4 DEF Grown
<1>6. Size(c) = Size(b) + Len(bytes)
  BY <1>2, <1>4, SizeFacts, LenProperties
<1>. QED
  BY <1>1, <1>4, <1>5, <1>6 DEF c

\* n zeros.
Zeros(n) == [k \in 1 .. n |-> 0]

LEMMA ZerosAreBytes ==
  ASSUME NEW n \in Nat
  PROVE  Zeros(n) \in Seq(Byte) /\ Len(Zeros(n)) = n
<1>1. Zeros(n) \in [1 .. n -> Byte]
  BY DEF Zeros, Byte
<1>. QED
  BY <1>1, SeqDef, LenProperties

LEMMA PadGrows ==
  ASSUME NEW b, Fine(b), NEW n \in Nat
  PROVE  /\ Grown(b, Pad(b, n)) /\ Data(Pad(b, n).buf) = Zeros(n) \o Data(b.buf)
         /\ Pad(b, n).ret = b.ret /\ Size(Pad(b, n)) = Size(b) + n
<1>1. Pad(b, n) = PushBytes(b, Zeros(n))
  BY DEF Pad, Fill, PushBytes, Zeros
<1>. QED
  BY <1>1, ZerosAreBytes, PushBytesGrows

LEMMA TrackMinAlignGrows ==
  ASSUME NEW b, Fine(b), NEW n \in Nat \ {0}
  PROVE  /\ Grown(b, TrackMinAlign(b, n)) /\ TrackMinAlign(b, n).buf = b.buf
         /\ TrackMinAlign(b, n).ret = b.ret
<1>. DEFINE c == TrackMinAlign(b, n)
            m == IF n > b.minalign THEN n ELSE b.minalign
<1>1. m \in Nat \ {0}
  BY DEF Fine
<1>. HIDE DEF m
<1>2. c = [b EXCEPT !.minalign = m]
  BY DEF TrackMinAlign, m
<1>3. /\ c \in [buf : {b.buf}, num_field_loc : Nat, max_voffset : Nat, nested : BOOLEAN,
                finished : BOOLEAN, minalign : Nat \ {0}, string_pool : SUBSET Nat, ret : Int,
                ok : BOOLEAN]
      /\ c.buf = b.buf /\ c.num_field_loc = b.num_field_loc /\ c.max_voffset = b.max_voffset
      /\ c.nested = b.nested /\ c.finished = b.finished
      /\ c.string_pool = b.string_pool /\ c.ret = b.ret /\ c.ok = b.ok
  BY <1>1, <1>2 DEF Fine
<1>. HIDE DEF c
<1>4. Fine(c)
  BY <1>3 DEF Fine
<1>5. Grown(b, b)
  BY GrownSelf
<1>6. Grown(b, c)
  BY <1>3, <1>4, <1>5 DEF Grown
<1>. QED
  BY <1>3, <1>6 DEF c

LEMMA AlignGrows ==
  ASSUME NEW b, Fine(b), NEW n \in Nat \ {0}
  PROVE  Grown(b, Align(b, n)) /\ Align(b, n).ret = b.ret
<1>. DEFINE t == TrackMinAlign(b, n)
            pad == PaddingBytes(Size(b), n)
<1>1. Grown(b, t) /\ Fine(t) /\ t.buf = b.buf /\ t.ret = b.ret
  BY TrackMinAlignGrows DEF Grown
<1>2. pad \in Nat
  BY SizeFacts, Padding
<1>3. Align(b, n) = Pad(t, pad)
  BY DEF Align
<1>. HIDE DEF t, pad
<1>4. /\ Grown(t, Pad(t, pad)) /\ Pad(t, pad).ret = t.ret
  BY <1>1, <1>2, PadGrows
<1>. QED
  BY <1>1, <1>2, <1>3, <1>4, GrownOn

LEMMA PreAlignGrows ==
  ASSUME NEW b, Fine(b), NEW len \in Nat, NEW n \in Nat \ {0}
  PROVE  Grown(b, PreAlign(b, len, n)) /\ PreAlign(b, len, n).ret = b.ret
<1>1. CASE len = 0
  BY <1>1, GrownSelf DEF PreAlign
<1>2. CASE len # 0
  <2>. DEFINE t == TrackMinAlign(b, n)
              pad == PaddingBytes(Size(b) + len, n)
  <2>1. Grown(b, t) /\ Fine(t) /\ t.buf = b.buf /\ t.ret = b.ret
    BY TrackMinAlignGrows DEF Grown
  <2>2. pad \in Nat
    BY SizeFacts, Padding
  <2>3. PreAlign(b, len, n) = Pad(t, pad)
    BY <1>2 DEF PreAlign
  <2>. HIDE DEF t, pad
  <2>4. /\ Grown(t, Pad(t, pad)) /\ Pad(t, pad).ret = t.ret
    BY <2>1, <2>2, PadGrows
  <2>. QED
    BY <2>1, <2>2, <2>3, <2>4, GrownOn
<1>. QED
  BY <1>1, <1>2

LEMMA ReturningGrows ==
  ASSUME NEW b, Fine(b)
  PROVE  /\ Grown(b, Returning(b)) /\ Returning(b).buf = b.buf /\ Returning(b).ret = Size(b)
         /\ Size(Returning(b)) = Size(b)
<1>. DEFINE c == Returning(b)
<1>1. Size(b) \in Nat
  BY SizeFacts
<1>2. /\ c \in [buf : {b.buf}, num_field_loc : Nat, max_voffset : Nat, nested : BOOLEAN,
                finished : BOOLEAN, minalign : Nat \ {0}, string_pool : SUBSET Nat, ret : Int,
                ok : BOOLEAN]
      /\ c.buf = b.buf /\ c.num_field_loc = b.num_field_loc /\ c.max_voffset = b.max_voffset
      /\ c.nested = b.nested /\ c.finished = b.finished
      /\ c.string_pool = b.string_pool /\ c.ret = Size(b) /\ c.ok = b.ok
  BY <1>1 DEF Fine, Returning
<1>. HIDE DEF c
<1>3. Fine(c)
  BY <1>2 DEF Fine
<1>4. Grown(b, b)
  BY GrownSelf
<1>5. Grown(b, c)
  BY <1>2, <1>3, <1>4 DEF Grown
<1>. QED
  BY <1>2, <1>5 DEF c, Size

\* ret is where the scalar is, at the end of what has grown.
LEMMA PushElementGrows ==
  ASSUME NEW b, Fine(b), NEW value \in Int, NEW width \in 1 .. 4
  PROVE  LET c == PushElement(b, value, width)
         IN  Grown(b, c) /\ c.ret = Size(c) /\ Size(b) + width <= Size(c)
<1>. DEFINE a == Align(b, width)
            p == PushBytes(a, Bytes(value, width))
            c == PushElement(b, value, width)
<1>0. width \in Nat \ {0} /\ width \in 0 .. 4
  OBVIOUS
<1>1. Grown(b, a)
  BY <1>0, AlignGrows
<1>2. Fine(a) /\ Size(b) <= Size(a) /\ Size(a) \in Nat
  BY <1>1, GrownSize
<1>3. Bytes(value, width) \in Seq(Byte) /\ Len(Bytes(value, width)) = width
  BY <1>0, BytesFacts
<1>. HIDE DEF a
<1>4. Grown(a, p) /\ Size(p) = Size(a) + width
  BY <1>2, <1>3, PushBytesGrows
<1>5. Fine(p)
  BY <1>4 DEF Grown
<1>6. c = Returning(p)
  BY DEF PushElement, a
<1>. HIDE DEF p, c
<1>7. Grown(p, c) /\ c.buf = p.buf /\ c.ret = Size(p) /\ Size(c) = Size(p)
  BY <1>5, <1>6, ReturningGrows
<1>8. Grown(b, c)
  BY <1>1, <1>2, <1>4, <1>5, <1>7, GrownOn
<1>9. Size(b) + width <= Size(c)
  BY <1>2, <1>4, <1>7, SizeFacts
<1>. QED
  BY <1>7, <1>8, <1>9 DEF c

----------------------------------------------------------------------------
(* Offsets, strings and vectors.                                           *)

\* An assert that holds changes nothing.
LEMMA AssertingHolds ==
  ASSUME NEW b, Fine(b), NEW p, p = TRUE
  PROVE  Asserting(b, p) = b
<1>1. b.ok \in BOOLEAN /\ b = [b EXCEPT !.ok = b.ok]
  BY DEF Fine
<1>2. (b.ok /\ p) = b.ok
  BY <1>1
<1>. QED
  BY <1>1, <1>2 DEF Asserting

LEMMA NotNestedHolds ==
  ASSUME NEW b, Fine(b), ~b.nested, b.num_field_loc = 0
  PROVE  NotNested(b) = b
<1>1. (~b.nested /\ b.num_field_loc = 0) = TRUE
  OBVIOUS
<1>. QED
  BY <1>1, AssertingHolds DEF NotNested

LEMMA PushOffsetGrows ==
  ASSUME NEW b, Fine(b), NEW off \in 1 .. Size(b)
  PROVE  LET c == PushOffset(b, off)
         IN  /\ Grown(b, c) /\ c.ret = Size(c) /\ Size(b) + 4 <= Size(c)
<1>. DEFINE a == Align(b, 4)
            value == Size(a) - off + 4
            c == PushOffset(b, off)
<1>1. Grown(b, a)
  BY AlignGrows
<1>2. Fine(a) /\ Size(b) \in Nat /\ Size(a) \in Nat /\ Size(b) <= Size(a)
  BY <1>1, GrownSize, SizeFacts
<1>. HIDE DEF a
<1>3. (off # 0 /\ off <= Size(a)) = TRUE /\ value \in Int
  BY <1>2
<1>4. c = PushElement(a, value, 4)
  BY <1>2, <1>3, AssertingHolds DEF PushOffset, PushDistance, a
<1>. HIDE DEF c, value
<1>5. Grown(a, c) /\ c.ret = Size(c) /\ Size(a) + 4 <= Size(c)
  <2>1. 4 \in 1 .. 4
    OBVIOUS
  <2>. QED
    BY <1>2, <1>3, <1>4, <2>1, PushElementGrows
<1>6. Fine(c) /\ Size(c) \in Nat
  BY <1>5, SizeFacts DEF Grown
<1>7. Grown(b, c)
  BY <1>1, <1>5, GrownOn
<1>. QED
  BY <1>2, <1>5, <1>6, <1>7 DEF c

\* The builders, as a set.
Buffers == [buf : UNION {[0 .. r - 1 -> Cell] : r \in Nat}, reserved : Nat, size : Nat,
            cur : Nat, scratch : Nat]
Builders == [buf : Buffers, num_field_loc : Nat, max_voffset : Nat, nested : BOOLEAN,
             finished : BOOLEAN, minalign : Nat \ {0}, string_pool : SUBSET Nat, ret : Int,
             ok : BOOLEAN]

LEMMA FineBuilders ==
  ASSUME NEW b, Fine(b)
  PROVE  b \in Builders
<1>1. b.buf \in Buffers
  BY DEF Fine, Good, Buffers
<1>. HIDE DEF Buffers
<1>. QED
  BY <1>1 DEF Fine, Builders

\* One offset after the other: f[i] is the builder after the last i of them.
PushedBy(b, offs, f) ==
  /\ f[0] = b /\ PushOffsets(b, offs) = f[Len(offs)]
  /\ \A i \in 0 .. Len(offs) : Grown(b, f[i])
  /\ \A i \in 1 .. Len(offs) : f[i] = PushOffset(f[i - 1], offs[Len(offs) - i + 1])

LEMMA PushOffsetsSteps ==
  ASSUME NEW b, Fine(b), NEW offs \in Seq(1 .. Size(b))
  PROVE  \E f : PushedBy(b, offs, f)
<1>. DEFINE n == Len(offs)
            D == 0 .. n
            U == {c \in Builders : Grown(b, c)}
            Solves(f) == f = [i \in D |-> IF i = 0 THEN b
                                          ELSE PushOffset(f[i - 1], offs[n - i + 1])]
            F == [p \in D \X [D -> U] |-> IF p[1] = 0 THEN b
                                          ELSE PushOffset(p[2][p[1] - 1], offs[n - p[1] + 1])]
            rank == [i \in D |-> i]
<1>1. n \in Nat /\ \A i \in 1 .. n : offs[i] \in 1 .. Size(b)
  BY LenProperties
<1>2. b \in U
  BY GrownSelf, FineBuilders
<1>3. ASSUME NEW c \in U, NEW i \in 1 .. n
      PROVE  PushOffset(c, offs[n - i + 1]) \in U
  <2>. DEFINE off == offs[n - i + 1]
              d == PushOffset(c, off)
  <2>1. n - i + 1 \in 1 .. n
    BY <1>1
  <2>2. off \in 1 .. Size(b)
    BY <1>1, <2>1
  <2>3. Grown(b, c)
    OBVIOUS
  <2>. HIDE DEF off
  <2>4. Fine(c) /\ off \in 1 .. Size(c)
    BY <2>2, <2>3, GrownSize, SizeFacts
  <2>5. Grown(c, d)
    BY <2>4, PushOffsetGrows
  <2>. HIDE DEF d
  <2>6. Grown(b, d)
    BY <2>3, <2>5, GrownOn
  <2>7. d \in Builders
    BY <2>6, FineBuilders DEF Grown
  <2>. QED
    BY <2>6, <2>7 DEF d, off
<1>. HIDE DEF U
<1>4. F \in [D \X [D -> U] -> U]
  <2>1. ASSUME NEW i \in D, NEW g \in [D -> U], i # 0
        PROVE  PushOffset(g[i - 1], offs[n - i + 1]) \in U
    <3>1. i - 1 \in D /\ i \in 1 .. n
      BY <1>1, <2>1
    <3>2. g[i - 1] \in U
      BY <3>1
    <3>. QED
      BY <1>3, <3>1, <3>2
  <2>. HIDE DEF D
  <2>. QED
    BY <1>2, <2>1
<1>5. Solvable(D, U, F)
  <2>. DEFINE top == n + 1
  <2>1. rank \in [D -> Nat] /\ \A i \in D : rank[i] < top
    BY <1>1
  <2>2. ASSUME NEW i \in D, NEW g \in [D -> U], NEW h \in [D -> U],
               \A j \in D : rank[j] < rank[i] => g[j] = h[j]
        PROVE  F[<<i, g>>] = F[<<i, h>>]
    <3>1. i # 0 => i - 1 \in D /\ g[i - 1] = h[i - 1]
      BY <1>1, <2>2
    <3>2. /\ F[<<i, g>>] = IF i = 0 THEN b ELSE PushOffset(g[i - 1], offs[n - i + 1])
          /\ F[<<i, h>>] = IF i = 0 THEN b ELSE PushOffset(h[i - 1], offs[n - i + 1])
      OBVIOUS
    <3>. QED
      BY <3>1, <3>2
  <2>3. top \in Nat
    BY <1>1
  <2>4. Ranked(D, U, F, rank, top)
    <3>. HIDE DEF F, rank, D, top
    <3>. QED
      BY <1>4, <2>1, <2>2, <2>3 DEF Ranked
  <2>. HIDE DEF F, rank, D, top
  <2>. QED
    BY <1>2, <2>4, Recursion
<1>6. \E f : Solves(f)
  <2>1. PICK g \in [D -> U] : \A i \in D : g[i] = F[<<i, g>>]
    BY <1>5 DEF Solvable
  <2>2. \A i \in D : F[<<i, g>>] = IF i = 0 THEN b ELSE PushOffset(g[i - 1], offs[n - i + 1])
    OBVIOUS
  <2>. HIDE DEF D, F
  <2>3. Solves(g)
    BY <2>1, <2>2
  <2>. QED
    BY <2>3
<1>. DEFINE f == CHOOSE x : Solves(x)
<1>7. PushOffsets(b, offs) = f[n]
  BY DEF PushOffsets
<1>8. Solves(f)
  <2>. HIDE DEF Solves
  <2>. QED
    BY <1>6
<1>. HIDE DEF f
<1>9. \A i \in D : f[i] = IF i = 0 THEN b ELSE PushOffset(f[i - 1], offs[n - i + 1])
  BY <1>8
<1>. DEFINE Reached == {i \in Nat : i \in D => f[i] \in U}
<1>10. 0 \in Reached
  BY <1>1, <1>2, <1>9
<1>11. ASSUME NEW i \in Nat, i \in Reached
       PROVE  i + 1 \in Reached
  <2>1. SUFFICES ASSUME i + 1 \in D PROVE f[i + 1] \in U
    OBVIOUS
  <2>2. i \in D /\ i + 1 \in 1 .. n /\ (i + 1) - 1 = i /\ i + 1 # 0
    BY <1>1, <2>1
  <2>3. f[i] \in U
    BY <1>11, <2>2
  <2>4. f[i + 1] = PushOffset(f[i], offs[n - (i + 1) + 1])
    BY <1>9, <2>1, <2>2
  <2>. QED
    BY <1>3, <2>2, <2>3, <2>4
<1>12. ASSUME NEW i \in D
       PROVE  f[i] \in U
  <2>1. i \in Reached
    <3>. HIDE DEF Reached
    <3>. QED
      BY <1>1, <1>10, <1>11, SetInduction
  <2>. QED
    BY <2>1
<1>13. /\ f[0] = b
       /\ \A i \in 1 .. n : f[i] = PushOffset(f[i - 1], offs[n - i + 1])
  BY <1>1, <1>9
<1>14. \A i \in D : Grown(b, f[i])
  BY <1>12 DEF U
<1>15. PushedBy(b, offs, f)
  BY <1>7, <1>13, <1>14 DEF PushedBy
<1>. QED
  BY <1>15

LEMMA PushOffsetsGrows ==
  ASSUME NEW b, Fine(b), NEW offs \in Seq(1 .. Size(b))
  PROVE  Grown(b, PushOffsets(b, offs))
<1>1. PICK f : PushedBy(b, offs, f)
  BY PushOffsetsSteps
<1>2. Len(offs) \in 0 .. Len(offs)
  BY LenProperties
<1>. QED
  BY <1>1, <1>2 DEF PushedBy

\* ret is where the string starts, if there is no other object around it.
LEMMA CreateStringGrows ==
  ASSUME NEW b, Fine(b), ~b.nested, b.num_field_loc = 0, NEW str \in Seq(Byte)
  PROVE  LET c == CreateString(b, str)
         IN  Grown(b, c) /\ c.ret = Size(c) /\ Size(b) + 4 <= Size(c)
<1>. DEFINE p == PreAlign(b, Len(str) + 1, 4)
            q == Pad(p, 1)
            r == PushBytes(q, str)
            c == CreateString(b, str)
<1>0. Len(str) \in Nat /\ Len(str) + 1 \in Nat
  BY LenProperties
<1>1. Grown(b, p)
  BY <1>0, PreAlignGrows
<1>2. c = PushElement(r, Len(str), 4)
  BY NotNestedHolds DEF CreateString
<1>. HIDE DEF p
<1>3. Grown(b, q)
  BY <1>1, GrownOn, GrownSize, PadGrows
<1>. HIDE DEF q
<1>4. Grown(q, r) /\ Fine(q)
  BY <1>3, GrownSize, PushBytesGrows
<1>5. Grown(b, r) /\ Fine(r)
  BY <1>3, <1>4, GrownOn, GrownSize
<1>. HIDE DEF r, c
<1>6. Grown(r, c) /\ c.ret = Size(c) /\ Size(r) + 4 <= Size(c)
  <2>1. 4 \in 1 .. 4 /\ Len(str) \in Int
    BY <1>0
  <2>. QED
    BY <1>2, <1>5, <2>1, PushElementGrows
<1>7. Grown(b, c)
  BY <1>5, <1>6, GrownOn
<1>8. Size(b) \in Nat /\ Size(b) <= Size(r) /\ Size(r) \in Nat /\ Size(c) \in Nat
  BY <1>5, <1>7, GrownSize, SizeFacts
<1>. QED
  BY <1>6, <1>7, <1>8 DEF c

\* StartVector and EndVector set and reset nested.
Opened(b) == [b EXCEPT !.nested = TRUE]
Closed(b) == [b EXCEPT !.nested = FALSE]

LEMMA OpenedFine ==
  ASSUME NEW b, Fine(b), NEW c, c = Opened(b) \/ c = Closed(b)
  PROVE  /\ Fine(c) /\ c.buf = b.buf
         /\ (c = Opened(b) => c.nested = TRUE) /\ (c = Closed(b) => c.nested = FALSE)
         /\ c.num_field_loc = b.num_field_loc /\ c.max_voffset = b.max_voffset
         /\ c.finished = b.finished /\ c.minalign = b.minalign
         /\ c.string_pool = b.string_pool /\ c.ret = b.ret /\ c.ok = b.ok
<1>1. /\ c \in [buf : {b.buf}, num_field_loc : Nat, max_voffset : Nat, nested : BOOLEAN,
                finished : BOOLEAN, minalign : Nat \ {0}, string_pool : SUBSET Nat, ret : Int,
                ok : BOOLEAN]
      /\ c.buf = b.buf
      /\ c.num_field_loc = b.num_field_loc /\ c.max_voffset = b.max_voffset
      /\ c.finished = b.finished /\ c.minalign = b.minalign
      /\ c.string_pool = b.string_pool /\ c.ret = b.ret /\ c.ok = b.ok
  BY DEF Fine, Opened, Closed
<1>2. /\ c = Opened(b) => c.nested = TRUE
      /\ c = Closed(b) => c.nested = FALSE
  BY DEF Fine, Opened, Closed
<1>. QED
  BY <1>1, <1>2 DEF Fine

\* What has grown between StartVector and EndVector.
LEMMA EndVectorGrows ==
  ASSUME NEW b, Fine(b), ~b.nested, NEW d, d = Opened(b), NEW e, Grown(d, e),
         NEW len \in Nat
  PROVE  LET c == EndVector(e, len)
         IN  Grown(b, c) /\ c.ret = Size(c) /\ Size(b) + 4 <= Size(c)
<1>. DEFINE f == Closed(e)
            c == EndVector(e, len)
<1>1. /\ Fine(d) /\ d.buf = b.buf /\ d.nested = TRUE
      /\ d.num_field_loc = b.num_field_loc /\ d.max_voffset = b.max_voffset
      /\ d.finished = b.finished /\ d.string_pool = b.string_pool /\ d.ok = b.ok
  BY OpenedFine
<1>2. Fine(e) /\ (e.nested = TRUE)
  BY <1>1 DEF Grown
<1>3. /\ Fine(f) /\ f.buf = e.buf /\ f.nested = FALSE
      /\ f.num_field_loc = e.num_field_loc /\ f.max_voffset = e.max_voffset
      /\ f.finished = e.finished /\ f.string_pool = e.string_pool /\ f.ok = e.ok
  BY <1>2, OpenedFine
<1>4. c = PushElement(f, len, 4)
  BY <1>2, AssertingHolds DEF EndVector, Closed
<1>. HIDE DEF f, c
<1>5. b.nested = FALSE
  BY DEF Fine
<1>6. Grown(b, f)
  BY <1>1, <1>3, <1>5 DEF Grown
<1>7. Grown(f, c) /\ c.ret = Size(c) /\ Size(f) + 4 <= Size(c)
  <2>1. 4 \in 1 .. 4 /\ len \in Int
    OBVIOUS
  <2>. QED
    BY <1>3, <1>4, <2>1, PushElementGrows
<1>8. Size(b) \in Nat /\ Size(b) <= Size(f) /\ Size(f) \in Nat /\ Size(c) \in Nat
  BY <1>6, <1>7, GrownSize, SizeFacts
<1>9. Grown(b, c)
  BY <1>6, <1>7, GrownOn
<1>. QED
  BY <1>7, <1>8, <1>9 DEF c

LEMMA StartVectorGrows ==
  ASSUME NEW b, Fine(b), ~b.nested, b.num_field_loc = 0,
         NEW len \in Nat, NEW width \in Nat \ {0}, NEW align \in Nat \ {0},
         NEW d, d = Opened(b)
  PROVE  Fine(d) /\ Grown(d, StartVector(b, len, width, align))
<1>. DEFINE bytes == len * width
            p == PreAlign(d, bytes, 4)
            q == PreAlign(p, bytes, align)
<1>1. bytes \in Nat
  OBVIOUS
<1>. HIDE DEF bytes
<1>2. Fine(d)
  BY OpenedFine
<1>3. Grown(d, p) /\ Fine(p)
  <2>1. 4 \in Nat \ {0}
    OBVIOUS
  <2>2. Grown(d, p)
    BY <1>1, <1>2, <2>1, PreAlignGrows
  <2>. QED
    BY <2>2 DEF Grown
<1>4. StartVector(b, len, width, align) = q
  BY NotNestedHolds DEF StartVector, Opened, bytes
<1>. HIDE DEF p
<1>5. Grown(p, q)
  BY <1>1, <1>3, PreAlignGrows
<1>. QED
  BY <1>2, <1>3, <1>4, <1>5, GrownOn

LEMMA CreateVectorGrows ==
  ASSUME NEW b, Fine(b), ~b.nested, b.num_field_loc = 0,
         NEW elements \in Seq(Seq(Byte)), NEW width \in Nat \ {0}
  PROVE  LET c == CreateVector(b, elements, width)
         IN  Grown(b, c) /\ c.ret = Size(c) /\ Size(b) + 4 <= Size(c)
<1>. DEFINE len == Len(elements)
            d == Opened(b)
            p == StartVector(b, len, width, width)
            e == PushBytes(p, FlattenSeq(elements))
<1>1. len \in Nat /\ FlattenSeq(elements) \in Seq(Byte)
  BY LenProperties, Flattened
<1>2. CreateVector(b, elements, width) = EndVector(e, len)
  BY DEF CreateVector
<1>. HIDE DEF len
<1>3. Fine(d) /\ Grown(d, p)
  BY <1>1, StartVectorGrows
<1>. HIDE DEF p
<1>4. Grown(p, e)
  BY <1>1, <1>3, GrownSize, PushBytesGrows
<1>. HIDE DEF e
<1>5. Grown(d, e)
  BY <1>3, <1>4, GrownOn
<1>. HIDE DEF d
<1>6. d = Opened(b)
  BY DEF d
<1>. QED
  BY <1>1, <1>2, <1>5, <1>6, EndVectorGrows

LEMMA CreateVectorOfOffsetsGrows ==
  ASSUME NEW b, Fine(b), ~b.nested, b.num_field_loc = 0, NEW offs \in Seq(1 .. Size(b))
  PROVE  LET c == CreateVectorOfOffsets(b, offs)
         IN  Grown(b, c) /\ c.ret = Size(c) /\ Size(b) + 4 <= Size(c)
<1>. DEFINE len == Len(offs)
            d == Opened(b)
            p == StartVector(b, len, 4, 4)
            e == PushOffsets(p, offs)
<1>1. len \in Nat
  BY LenProperties
<1>2. CreateVectorOfOffsets(b, offs) = EndVector(e, len)
  BY DEF CreateVectorOfOffsets
<1>. HIDE DEF len
<1>3. Fine(d) /\ Grown(d, p)
  BY <1>1, StartVectorGrows
<1>4. d.buf = b.buf
  BY OpenedFine
<1>. HIDE DEF p, d
<1>5. Fine(p) /\ Size(d) = Size(b) /\ Size(d) <= Size(p) /\ Size(p) \in Nat /\ Size(b) \in Nat
  BY <1>3, <1>4, GrownSize, SizeFacts DEF Size
<1>6. 1 .. Size(b) \subseteq 1 .. Size(p)
  BY <1>5
<1>7. offs \in Seq(1 .. Size(p))
  BY <1>6, SeqMonotonic
<1>8. Grown(p, e)
  BY <1>5, <1>7, PushOffsetsGrows
<1>. HIDE DEF e
<1>9. Grown(d, e)
  BY <1>3, <1>8, GrownOn
<1>. HIDE DEF d
<1>10. d = Opened(b)
  BY DEF d
<1>. QED
  BY <1>1, <1>2, <1>9, <1>10, EndVectorGrows

----------------------------------------------------------------------------
(* Builders of this program.                                               *)

\* All of the scratch pad is written, but for the padding of the FieldLocs.
Tracked(b) ==
  LET s    == Scratch(b.buf)
      kept == Len(s) - b.num_field_loc * FieldLocSize
  IN  /\ kept >= 0
      /\ \A k \in 1 .. kept : s[k] \in Byte
      /\ \A k \in 1 .. b.num_field_loc : \A j \in 1 .. 6 :
           s[kept + (k - 1) * FieldLocSize + j] \in Byte

\* No assert has failed, and the pool has strings of this buffer.
Sound(b) ==
  /\ Fine(b) /\ Tracked(b) /\ b.ok
  /\ b.string_pool \subseteq 1 .. Size(b)

\* From b to c the data has grown, by whole objects.
Extends(b, c) ==
  /\ Sound(c)
  /\ \E bytes \in Seq(Byte) : Data(c.buf) = bytes \o Data(b.buf)
  /\ c.num_field_loc = b.num_field_loc
  /\ c.nested = b.nested /\ c.finished = b.finished

LEMMA GrownExtends ==
  ASSUME NEW b, NEW c, Sound(b), Grown(b, c)
  PROVE  Extends(b, c)
<1>1. Fine(b) /\ Fine(c) /\ Size(b) \in Nat /\ Size(c) \in Nat /\ Size(b) <= Size(c)
  BY GrownSize, SizeFacts DEF Sound
<1>2. 1 .. Size(b) \subseteq 1 .. Size(c)
  BY <1>1
<1>3. Tracked(c)
  BY DEF Sound, Grown, Tracked
<1>. QED
  BY <1>1, <1>2, <1>3 DEF Sound, Grown, Extends

LEMMA ExtendsSize ==
  ASSUME NEW b, NEW c, Fine(b), Extends(b, c)
  PROVE  Size(b) \in Nat /\ Size(c) \in Nat /\ Size(b) <= Size(c)
<1>1. PICK x \in Seq(Byte) : Data(c.buf) = x \o Data(b.buf)
  BY DEF Extends
<1>2. Len(x) \in Nat /\ Len(Data(c.buf)) = Len(x) + Len(Data(b.buf))
  BY <1>1, ConcatProperties, LenProperties DEF Fine
<1>3. Fine(c)
  BY DEF Extends, Sound
<1>. QED
  BY <1>2, <1>3, SizeFacts

LEMMA DropFront ==
  ASSUME NEW S, NEW s \in Seq(S), NEW t \in Seq(S)
  PROVE  SubSeq(s \o t, Len(s) + 1, Len(s \o t)) = t
<1>. DEFINE m == Len(s)
            n == Len(t)
            u == s \o t
            d == SubSeq(u, m + 1, m + n)
<1>1. m \in Nat /\ n \in Nat /\ t \in [1 .. n -> S]
  BY LenProperties
<1>2. /\ u \in Seq(S) /\ Len(u) = m + n
      /\ \A i \in 1 .. m + n : u[i] = IF i <= m THEN s[i] ELSE t[i - m]
  BY ConcatProperties
<1>3. \A i \in 1 .. m + n : u[i] \in S
  BY <1>2, ElementOfSeq
<1>. HIDE DEF m, n, u
<1>4. /\ d \in Seq(S) /\ Len(d) = n
      /\ \A i \in 1 .. n : d[i] = u[m + i]
  <2>1. \A i \in m + 1 .. m + n : u[i] \in S
    BY <1>1, <1>3
  <2>2. /\ d \in Seq(S) /\ Len(d) = IF m + 1 <= m + n THEN (m + n) - (m + 1) + 1 ELSE 0
        /\ \A i \in 1 .. (m + n) - (m + 1) + 1 : d[i] = u[(m + 1) + i - 1]
    BY <1>1, <2>1, SubSeqProperties
  <2>3. (m + n) - (m + 1) + 1 = n /\ (m + 1 > m + n => n = 0)
    BY <1>1
  <2>4. \A i \in 1 .. n : (m + 1) + i - 1 = m + i
    BY <1>1
  <2>. HIDE DEF d
  <2>. QED
    BY <1>1, <2>2, <2>3, <2>4
<1>. HIDE DEF d
<1>5. d \in [1 .. n -> S]
  BY <1>4, LenProperties
<1>6. \A i \in 1 .. n : d[i] = t[i]
  <2>. TAKE i \in 1 .. n
  <2>1. m + i \in 1 .. m + n /\ ~(m + i <= m) /\ (m + i) - m = i
    BY <1>1
  <2>. QED
    BY <1>2, <1>4, <2>1
<1>7. d = t
  BY <1>1, <1>5, <1>6, SameStack
<1>. QED
  BY <1>2, <1>7 DEF d, m, n, u

\* The pool names a string that was there, or the new one.
LEMMA CreateSharedStringExtends ==
  ASSUME NEW b, Sound(b), ~b.nested, b.num_field_loc = 0, NEW str \in Seq(Byte)
  PROVE  LET e == CreateSharedString(b, str)
         IN  Extends(b, e) /\ e.ret \in 1 .. Size(e)
<1>. DEFINE c == CreateString(b, str)
            found == SameString(c, c.ret)
            e == CreateSharedString(b, str)
            n == Size(c) - Size(b)
            v == Pop(c.buf, n)
<1>0. Fine(b)
  BY DEF Sound
<1>1. Grown(b, c) /\ c.ret = Size(c) /\ Size(b) + 4 <= Size(c)
  BY <1>0, CreateStringGrows
<1>2. e = ShareString(c, found, Size(b))
  BY DEF CreateSharedString, ShareLast
<1>. HIDE DEF c
<1>3. Fine(c) /\ Size(b) \in Nat /\ Size(c) \in Nat /\ n \in Nat /\ Size(c) \in 1 .. Size(c)
  BY <1>0, <1>1, GrownSize, SizeFacts
<1>4. /\ Extends(b, c) /\ Sound(c)
  BY <1>1, GrownExtends DEF Extends
<1>5. CASE found = {}
  <2>. DEFINE pool == c.string_pool \cup {c.ret}
  <2>1. pool \subseteq 1 .. Size(c) /\ pool \in SUBSET Nat
    BY <1>1, <1>3, <1>4 DEF Sound
  <2>. HIDE DEF pool
  <2>2. e = [c EXCEPT !.string_pool = pool]
    BY <1>2, <1>5 DEF ShareString, pool
  <2>. HIDE DEF e
  <2>3. /\ e \in [buf : {c.buf}, num_field_loc : Nat, max_voffset : Nat, nested : BOOLEAN,
                  finished : BOOLEAN, minalign : Nat \ {0}, string_pool : SUBSET Nat, ret : Int,
                  ok : BOOLEAN]
        /\ e.buf = c.buf /\ e.string_pool = pool
        /\ e.num_field_loc = c.num_field_loc
        /\ e.finished = c.finished /\ e.nested = c.nested
        /\ e.ret = c.ret /\ e.ok = c.ok
    BY <1>3, <2>1, <2>2 DEF Fine
  <2>4. Fine(e) /\ Size(e) = Size(c)
    BY <1>3, <2>3 DEF Fine, Size
  <2>5. Tracked(e)
    BY <1>4, <2>3 DEF Sound, Tracked
  <2>6. Sound(e)
    BY <1>4, <2>1, <2>3, <2>4, <2>5 DEF Sound
  <2>7. Extends(b, e)
    BY <1>4, <2>3, <2>6 DEF Extends
  <2>8. e.ret \in 1 .. Size(e)
    BY <1>1, <1>3, <2>3, <2>4
  <2>. QED
    BY <2>7, <2>8 DEF e
<1>6. CASE found # {}
  <2>. DEFINE old == CHOOSE o \in found : TRUE
  <2>1. old \in c.string_pool
    <3>1. old \in found
      BY <1>6
    <3>. QED
      BY <3>1 DEF SameString
  <2>2. old \in b.string_pool /\ old \in Int /\ old \in 1 .. Size(b)
    <3>1. c.string_pool = b.string_pool
      BY <1>1 DEF Grown
    <3>2. old \in b.string_pool /\ old \in 1 .. Size(b)
      BY <2>1, <3>1 DEF Sound
    <3>. QED
      BY <1>3, <3>2
  <2>. HIDE DEF old
  <2>3. PICK bytes \in Seq(Byte) : Data(c.buf) = bytes \o Data(b.buf)
    BY <1>1 DEF Grown
  <2>4. Len(bytes) = n
    <3>1. Len(Data(c.buf)) = Len(bytes) + Len(Data(b.buf)) /\ Len(bytes) \in Nat
      BY <1>0, <2>3, ConcatProperties, LenProperties DEF Fine
    <3>2. Len(Data(c.buf)) = Size(c) /\ Len(Data(b.buf)) = Size(b)
      BY <1>0, <1>3, SizeFacts
    <3>. QED
      BY <1>3, <3>1, <3>2
  <2>5. Good(c.buf, Cell) /\ n <= c.buf.size
    <3>1. Good(c.buf, Cell)
      BY <1>3 DEF Fine
    <3>2. n <= c.buf.size
      BY <1>3 DEF Size
    <3>. QED
      BY <3>1, <3>2
  <2>6. /\ Good(v, Cell) /\ Scratch(v) = Scratch(c.buf)
        /\ Data(v) = SubSeq(Data(c.buf), n + 1, Len(Data(c.buf)))
    <3>. HIDE DEF n
    <3>. QED
      BY <1>3, <2>5, Cells, Popped
  <2>7. Data(v) = Data(b.buf)
    <3>1. Data(b.buf) \in Seq(Byte)
      BY <1>0 DEF Fine
    <3>2. SubSeq(bytes \o Data(b.buf), Len(bytes) + 1, Len(bytes \o Data(b.buf))) = Data(b.buf)
      BY <3>1, DropFront
    <3>3. Data(v) = SubSeq(Data(c.buf), n + 1, Len(Data(c.buf)))
      BY <2>6
    <3>. QED
      BY <2>3, <2>4, <3>2, <3>3
  <2>8. e = [c EXCEPT !.buf = v, !.ret = old]
    BY <1>2, <1>6 DEF ShareString, old
  <2>. HIDE DEF v, e, n, found
  <2>9. /\ e \in [buf : {v}, num_field_loc : Nat, max_voffset : Nat, nested : BOOLEAN,
                  finished : BOOLEAN, minalign : Nat \ {0}, string_pool : SUBSET Nat, ret : Int,
                  ok : BOOLEAN]
        /\ e.buf = v /\ e.string_pool = c.string_pool
        /\ e.num_field_loc = c.num_field_loc
        /\ e.finished = c.finished /\ e.nested = c.nested
        /\ e.ret = old /\ e.ok = c.ok
    BY <1>3, <2>2, <2>8 DEF Fine
  <2>10. Fine(e)
    BY <1>0, <2>6, <2>7, <2>9 DEF Fine
  <2>11. Size(e) = Size(b)
    BY <1>0, <2>7, <2>9, <2>10, SizeFacts
  <2>12. Tracked(e)
    BY <1>4, <2>6, <2>9 DEF Sound, Tracked
  <2>13. Sound(e)
    BY <1>1, <1>4, <2>9, <2>10, <2>11, <2>12 DEF Sound, Grown
  <2>14. Data(e.buf) = <<>> \o Data(b.buf) /\ <<>> \in Seq(Byte)
    BY <1>0, <2>7, <2>9, EmptySeq, ConcatEmptySeq DEF Fine
  <2>15. Extends(b, e)
    BY <1>4, <2>9, <2>13, <2>14 DEF Extends
  <2>. QED
    BY <2>2, <2>9, <2>11, <2>15 DEF e
<1>. QED
  BY <1>5, <1>6

----------------------------------------------------------------------------
(* The fields of a table.                                                  *)

LEMMA ReadsSame ==
  ASSUME NEW s, NEW t, NEW n \in Nat, \A i \in 1 .. n : s[i] = t[i],
         NEW p \in Nat, NEW width \in {1, 2, 4}, p + width <= n
  PROVE  ReadScalar(s, p, width) = ReadScalar(t, p, width)
<1>1. CASE width = 1
  <2>1. s[p + 1] = t[p + 1]
    BY <1>1
  <2>. QED
    BY <1>1, <2>1 DEF ReadScalar
<1>2. CASE width = 2
  <2>1. s[p + 1] = t[p + 1] /\ s[p + 2] = t[p + 2]
    BY <1>2
  <2>. QED
    BY <1>2, <2>1 DEF ReadScalar
<1>3. CASE width = 4
  <2>1. /\ s[p + 1] = t[p + 1] /\ s[p + 2] = t[p + 2]
        /\ s[p + 3] = t[p + 3] /\ s[p + 4] = t[p + 4]
    BY <1>3
  <2>. QED
    BY <1>3, <2>1 DEF ReadScalar
<1>. QED
  BY <1>1, <1>2, <1>3

LEMMA ReadsInt ==
  ASSUME NEW s, NEW p \in Nat, NEW width \in {1, 2, 4}, \A j \in 1 .. width : s[p + j] \in Byte
  PROVE  ReadScalar(s, p, width) \in Int
<1>0. /\ \A k \in Byte : k \in Int /\ (IF k >= 128 THEN k - 256 ELSE k) \in Int
      /\ \A i, j \in Int : i + 256 * j \in Int
  BY DEF Byte
<1>1. CASE width = 1
  <2>1. s[p + 1] \in Byte
    BY <1>1
  <2>. QED
    BY <1>1, <2>1 DEF ReadScalar, Byte
<1>2. CASE width = 2
  <2>1. s[p + 1] \in Byte /\ s[p + 2] \in Byte
    BY <1>2
  <2>. QED
    BY <1>0, <1>2, <2>1 DEF ReadScalar
<1>3. CASE width = 4
  <2>1. s[p + 1] \in Byte /\ s[p + 2] \in Byte /\ s[p + 3] \in Byte /\ s[p + 4] \in Byte
    BY <1>3
  <2>. QED
    <3>. DEFINE a == s[p + 4]
                top == IF a >= 128 THEN a - 256 ELSE a
                hi == s[p + 3] + 256 * top
                mid == s[p + 2] + 256 * hi
    <3>1. top \in Int
      BY <1>0, <2>1
    <3>. HIDE DEF top
    <3>2. hi \in Int
      BY <1>0, <2>1, <3>1
    <3>. HIDE DEF hi
    <3>3. mid \in Int
      BY <1>0, <2>1, <3>2
    <3>. HIDE DEF mid
    <3>4. s[p + 1] + 256 * mid \in Int
      BY <1>0, <2>1, <3>3
    <3>. QED
      BY <1>3, <3>4 DEF ReadScalar, mid, hi, top
<1>. QED
  BY <1>1, <1>2, <1>3


\* Of two bytes, what was written is read.
LEMMA ReadsTwoBytes ==
  ASSUME NEW v, IsVoffset(v), NEW s, NEW p \in Nat,
         s[p + 1] = Bytes(v, 2)[1], s[p + 2] = Bytes(v, 2)[2]
  PROVE  ReadScalar(s, p, 2) = v
<1>1. Bytes(v, 2)[1] = (v \div 1) % 256 /\ Bytes(v, 2)[2] = (v \div 256) % 256
  <2>1. 2 \in 0 .. 4 /\ 1 \in 1 .. 2 /\ 2 \in 1 .. 2 /\ v \in Int
    BY DEF IsVoffset
  <2>2. \A k \in 1 .. 2 : Bytes(v, 2)[k] = (v \div Place[k]) % 256
    BY DEF Bytes
  <2>3. Place[1] = 1 /\ Place[2] = 256
    BY DEF Place
  <2>. QED
    BY <2>1, <2>2, <2>3
<1>2. ReadScalar(s, p, 2) = ((v \div 1) % 256) + (256 * ((v \div 256) % 256))
  BY <1>1 DEF ReadScalar
<1>. QED
  BY <1>2, TwoBytes DEF IsVoffset

\* Where the kth of n FieldLocs is in a scratch pad of some length.
LocPlace(length, n, k) == length - n * FieldLocSize + (k - 1) * FieldLocSize

LEMMA LocPlaces ==
  ASSUME NEW length \in Nat, NEW n \in Nat, length - n * FieldLocSize >= 0, NEW k \in 1 .. n
  PROVE  /\ LocPlace(length, n, k) \in Nat
         /\ LocPlace(length, n, k) + FieldLocSize <= length
         /\ length - (n - k + 1) * FieldLocSize = LocPlace(length, n, k)
         /\ LocPlace(length + FieldLocSize, n + 1, k) = LocPlace(length, n, k)
BY DEF LocPlace, FieldLocSize

LEMMA LocPlaceOfLast ==
  ASSUME NEW length \in Nat, NEW n \in Nat
  PROVE  /\ LocPlace(length + FieldLocSize, n + 1, n + 1) = length
         /\ (length + FieldLocSize) - (n + 1) * FieldLocSize = length - n * FieldLocSize
BY DEF LocPlace, FieldLocSize

LEMMA Joined ==
  ASSUME NEW S, NEW s \in Seq(S), NEW t \in Seq(S)
  PROVE  /\ s \o t \in Seq(S) /\ Len(s \o t) = Len(s) + Len(t)
         /\ \A i \in 1 .. Len(s) : (s \o t)[i] = s[i] /\ s[i] \in S
         /\ \A i \in 1 .. Len(t) : (s \o t)[Len(s) + i] = t[i] /\ t[i] \in S
<1>. DEFINE u == s \o t
            m == Len(s)
            n == Len(t)
<1>1. /\ u \in Seq(S) /\ Len(u) = m + n
      /\ \A i \in 1 .. m + n : u[i] = IF i <= m THEN s[i] ELSE t[i - m]
  BY ConcatProperties
<1>2. /\ m \in Nat /\ n \in Nat
      /\ \A i \in 1 .. m : s[i] \in S
      /\ \A i \in 1 .. n : t[i] \in S
  BY ElementOfSeq, LenProperties
<1>. HIDE DEF u, m, n
<1>3. \A i \in 1 .. m : u[i] = s[i]
  BY <1>1, <1>2
<1>4. \A i \in 1 .. n : u[m + i] = t[i]
  <2>. TAKE i \in 1 .. n
  <2>1. m + i \in 1 .. m + n /\ ~(m + i <= m) /\ (m + i) - m = i
    BY <1>2
  <2>. QED
    BY <1>1, <2>1
<1>. QED
  BY <1>1, <1>2, <1>3, <1>4 DEF u, m, n

\* The bytes of a FieldLoc.
LocBytes(off, field) == Bytes(off, 4) \o Bytes(field, 2) \o <<Undefined, Undefined>>

LEMMA LocBytesFacts ==
  ASSUME NEW off \in Nat, NEW field \in Nat
  PROVE  LET u == LocBytes(off, field)
         IN  /\ u \in Seq(Cell) /\ Len(u) = FieldLocSize
             /\ \A j \in 1 .. 6 : u[j] \in Byte
             /\ u[5] = Bytes(field, 2)[1] /\ u[6] = Bytes(field, 2)[2]
<1>. DEFINE x == Bytes(off, 4)
            y == Bytes(field, 2)
            z == <<Undefined, Undefined>>
<1>1. x \in Seq(Byte) /\ Len(x) = 4
  <2>1. off \in Int /\ 4 \in 0 .. 4
    OBVIOUS
  <2>. QED
    BY <2>1, BytesFacts
<1>2. y \in Seq(Byte) /\ Len(y) = 2
  <2>1. field \in Int /\ 2 \in 0 .. 4
    OBVIOUS
  <2>. QED
    BY <2>1, BytesFacts
<1>3. z \in Seq(Cell) /\ Len(z) = 2
  BY Cells
<1>. HIDE DEF x, y, z
<1>4. /\ x \o y \in Seq(Byte) /\ Len(x \o y) = 6
      /\ \A j \in 1 .. 4 : (x \o y)[j] = x[j] /\ x[j] \in Byte
      /\ \A j \in 1 .. 2 : (x \o y)[4 + j] = y[j] /\ y[j] \in Byte
  <2>1. /\ x \o y \in Seq(Byte) /\ Len(x \o y) = Len(x) + Len(y)
        /\ \A j \in 1 .. Len(x) : (x \o y)[j] = x[j] /\ x[j] \in Byte
        /\ \A j \in 1 .. Len(y) : (x \o y)[Len(x) + j] = y[j] /\ y[j] \in Byte
    <3>1. x \in Seq(Byte) /\ y \in Seq(Byte)
      BY <1>1, <1>2
    <3>. QED
      BY <3>1, Joined
  <2>. QED
    BY <1>1, <1>2, <2>1
<1>. DEFINE w == x \o y
            u == w \o z
<1>. HIDE DEF w
<1>5. w \in Seq(Byte) /\ w \in Seq(Cell) /\ Len(w) = 6
  BY <1>4, BytesAreCells DEF w
<1>6. /\ \A j \in 1 .. 6 : w[j] \in Byte
      /\ w[5] = y[1] /\ w[6] = y[2]
  <2>1. \A j \in 1 .. 6 : w[j] \in Byte
    BY <1>5, ElementOfSeq
  <2>2. w[4 + 1] = y[1] /\ w[4 + 2] = y[2] /\ 4 + 1 = 5 /\ 4 + 2 = 6
    BY <1>4 DEF w
  <2>. QED
    BY <2>1, <2>2
<1>7. /\ u \in Seq(Cell) /\ Len(u) = 8
      /\ \A j \in 1 .. 6 : u[j] = w[j]
  <2>1. /\ u \in Seq(Cell) /\ Len(u) = Len(w) + Len(z)
        /\ \A j \in 1 .. Len(w) : u[j] = w[j]
    <3>1. w \in Seq(Cell) /\ z \in Seq(Cell)
      BY <1>3, <1>5
    <3>. QED
      BY <3>1, Joined
  <2>. QED
    BY <1>3, <1>5, <2>1
<1>8. LocBytes(off, field) = u
  BY DEF LocBytes, x, y, z, u, w
<1>. HIDE DEF LocBytes, u
<1>9. \A j \in 1 .. 6 : u[j] \in Byte
  BY <1>6, <1>7
<1>10. u[5] = y[1] /\ u[6] = y[2]
  BY <1>6, <1>7
<1>. QED
  BY <1>7, <1>8, <1>9, <1>10 DEF FieldLocSize, y

\* The FieldLocs of the fields added to the table that is being built.
Locs(b) == FieldLocs(Scratch(b.buf), b.num_field_loc)

LEMMA LocsFacts ==
  ASSUME NEW b, Sound(b)
  PROVE  LET s == Scratch(b.buf)
         IN  /\ DOMAIN Locs(b) = 1 .. b.num_field_loc
             /\ Len(s) \in Nat /\ b.num_field_loc \in Nat
             /\ Len(s) - b.num_field_loc * FieldLocSize >= 0
             /\ \A k \in 1 .. b.num_field_loc :
                  /\ Locs(b)[k] = FieldLoc(s, LocPlace(Len(s), b.num_field_loc, k))
                  /\ Locs(b)[k].off \in Int
<1>. DEFINE s == Scratch(b.buf)
            n == b.num_field_loc
            length == Len(s)
<1>1. /\ length \in Nat /\ n \in Nat /\ length - n * FieldLocSize >= 0
      /\ \A k \in 1 .. n : \A j \in 1 .. 6 :
           s[length - n * FieldLocSize + (k - 1) * FieldLocSize + j] \in Byte
  <2>1. s \in Seq(Cell)
    BY Cells, GoodStacks DEF Sound, Fine
  <2>. QED
    BY <2>1, LenProperties DEF Sound, Fine, Tracked
<1>2. /\ DOMAIN Locs(b) = 1 .. n
      /\ \A k \in 1 .. n : Locs(b)[k] = FieldLoc(s, length - (n - k + 1) * FieldLocSize)
  BY DEF Locs, FieldLocs
<1>. HIDE DEF s, n, length
<1>3. ASSUME NEW k \in 1 .. n
      PROVE  /\ Locs(b)[k] = FieldLoc(s, LocPlace(length, n, k))
             /\ Locs(b)[k].off \in Int
  <2>. DEFINE p == LocPlace(length, n, k)
  <2>1. p \in Nat /\ length - (n - k + 1) * FieldLocSize = p
    BY <1>1, LocPlaces
  <2>2. Locs(b)[k] = FieldLoc(s, p)
    BY <1>2, <2>1
  <2>3. \A j \in 1 .. 4 : s[p + j] \in Byte
    BY <1>1 DEF LocPlace
  <2>. HIDE DEF p
  <2>4. ReadScalar(s, p, 4) \in Int
    BY <2>1, <2>3, ReadsInt
  <2>5. Locs(b)[k].off = ReadScalar(s, p, 4)
    BY <2>2 DEF FieldLoc
  <2>. QED
    BY <2>2, <2>4, <2>5 DEF p
<1>. QED
  BY <1>1, <1>2, <1>3 DEF s, n, length

\* From b to c a field has been put over those there are, which stay.
Tracks(b, c, field) ==
  /\ Sound(c) /\ Data(c.buf) = Data(b.buf) /\ c.num_field_loc = b.num_field_loc + 1
  /\ c.nested = b.nested /\ c.finished = b.finished
  /\ \A k \in 1 .. b.num_field_loc : Locs(c)[k] = Locs(b)[k]
  /\ Locs(c)[b.num_field_loc + 1].id = field

LEMMA TrackedRecord ==
  ASSUME NEW b, Fine(b), NEW v, NEW n, NEW m,
         NEW c, c = [b EXCEPT !.buf = v, !.num_field_loc = n, !.max_voffset = m]
  PROVE  c \in [buf : {v}, num_field_loc : {n}, max_voffset : {m}, nested : {b.nested},
                finished : {b.finished}, minalign : {b.minalign},
                string_pool : {b.string_pool}, ret : {b.ret}, ok : {b.ok}]
BY DEF Fine

LEMMA TrackFieldSound ==
  ASSUME NEW b, Sound(b), NEW off \in Nat, NEW field, IsVoffset(field)
  PROVE  Tracks(b, TrackField(b, field, off), field)
<1>0. field \in Nat
  BY DEF IsVoffset
<1>. DEFINE c == TrackField(b, field, off)
            n == b.num_field_loc
            s == Scratch(b.buf)
            u == LocBytes(off, field)
            t == s \o u
            length == Len(s)
            v == ScratchPush(b.buf, u)
            m == IF field > b.max_voffset THEN field ELSE b.max_voffset
<1>1. /\ u \in Seq(Cell) /\ Len(u) = FieldLocSize
      /\ \A j \in 1 .. 6 : u[j] \in Byte
      /\ u[5] = Bytes(field, 2)[1] /\ u[6] = Bytes(field, 2)[2]
  BY <1>0, LocBytesFacts
<1>2. Fine(b) /\ Good(b.buf, Cell) /\ Tracked(b)
  BY DEF Sound, Fine
<1>3. Good(v, Cell) /\ Scratch(v) = t /\ Data(v) = Data(b.buf)
  <2>1. u \in Seq(Cell)
    BY <1>1
  <2>. HIDE DEF u
  <2>. QED
    BY <1>2, <2>1, Cells, ScratchPushed
<1>4. /\ s \in Seq(Cell) /\ length \in Nat /\ n \in Nat /\ m \in Nat
      /\ length - n * FieldLocSize >= 0
      /\ \A k \in 1 .. length - n * FieldLocSize : s[k] \in Byte
      /\ \A k \in 1 .. n : \A j \in 1 .. 6 : s[LocPlace(length, n, k) + j] \in Byte
  <2>1. s \in Seq(Cell)
    BY <1>2, Cells, GoodStacks
  <2>. QED
    BY <1>0, <1>2, <2>1, LenProperties DEF Fine, Tracked, LocPlace
<1>5. c = [b EXCEPT !.buf = v, !.num_field_loc = n + 1, !.max_voffset = m]
  BY <1>2 DEF TrackField, LocBytes, Fine
<1>. HIDE DEF u, v, m
<1>6. /\ t \in Seq(Cell) /\ Len(t) = length + Len(u)
      /\ \A i \in 1 .. length : t[i] = s[i]
      /\ \A i \in 1 .. Len(u) : t[length + i] = u[i]
  <2>1. s \in Seq(Cell) /\ u \in Seq(Cell)
    BY <1>1, <1>4
  <2>. QED
    BY <2>1, Joined
<1>. HIDE DEF c, n, s, t, length
<1>7. /\ c \in [buf : {v}, num_field_loc : Nat, max_voffset : Nat, nested : BOOLEAN,
                finished : BOOLEAN, minalign : Nat \ {0}, string_pool : SUBSET Nat, ret : Int,
                ok : BOOLEAN]
      /\ c.buf = v /\ c.num_field_loc = n + 1
      /\ c.nested = b.nested /\ c.finished = b.finished
      /\ c.string_pool = b.string_pool /\ c.ok = b.ok
  <2>1. n + 1 \in Nat /\ m \in Nat
    BY <1>4
  <2>2. c \in [buf : {v}, num_field_loc : {n + 1}, max_voffset : {m}, nested : {b.nested},
               finished : {b.finished}, minalign : {b.minalign},
               string_pool : {b.string_pool}, ret : {b.ret}, ok : {b.ok}]
    BY <1>2, <1>5, TrackedRecord
  <2>3. /\ b.nested \in BOOLEAN /\ b.finished \in BOOLEAN /\ b.minalign \in Nat \ {0}
        /\ b.string_pool \in SUBSET Nat /\ b.ret \in Int /\ b.ok \in BOOLEAN
    BY <1>2 DEF Fine
  <2>. QED
    BY <2>1, <2>2, <2>3
<1>8. Fine(c)
  BY <1>2, <1>3, <1>7 DEF Fine
<1>9. Scratch(c.buf) = t /\ Len(t) = length + FieldLocSize
  BY <1>1, <1>3, <1>6, <1>7
<1>10. \A j \in 1 .. 6 : t[length + j] = u[j]
  BY <1>1, <1>6 DEF FieldLocSize
<1>11. \A k \in 1 .. n : \A j \in 1 .. 8 : t[LocPlace(length, n, k) + j] = s[LocPlace(length, n, k) + j]
  <2>. TAKE k \in 1 .. n
  <2>. TAKE j \in 1 .. 8
  <2>1. LocPlace(length, n, k) \in Nat /\ LocPlace(length, n, k) + 8 <= length
    BY <1>4, LocPlaces DEF FieldLocSize
  <2>2. LocPlace(length, n, k) + j \in 1 .. length
    <3>1. length \in Nat
      BY <1>4
    <3>. HIDE DEF LocPlace
    <3>2. \A p \in Nat : p + 8 <= length => p + j \in 1 .. length
      BY <3>1
    <3>. QED
      BY <2>1, <3>2
  <2>. QED
    BY <1>6, <2>2
<1>12. Tracked(c)
  <2>1. Len(t) - (n + 1) * FieldLocSize = length - n * FieldLocSize
    BY <1>4, <1>9, LocPlaceOfLast
  <2>2. \A k \in 1 .. length - n * FieldLocSize : t[k] \in Byte
    <3>. TAKE k \in 1 .. length - n * FieldLocSize
    <3>1. k \in 1 .. length
      BY <1>4 DEF FieldLocSize
    <3>. QED
      BY <1>4, <1>6, <3>1
  <2>3. ASSUME NEW k \in 1 .. n + 1, NEW j \in 1 .. 6
        PROVE  t[LocPlace(Len(t), n + 1, k) + j] \in Byte
    <3>1. CASE k = n + 1
      <4>1. LocPlace(Len(t), n + 1, k) = length
        BY <1>4, <1>9, <3>1, LocPlaceOfLast
      <4>. QED
        BY <1>1, <1>10, <4>1
    <3>2. CASE k # n + 1
      <4>1. k \in 1 .. n
        BY <1>4, <3>2
      <4>2. LocPlace(Len(t), n + 1, k) = LocPlace(length, n, k)
        BY <1>4, <1>9, <4>1, LocPlaces
      <4>3. s[LocPlace(length, n, k) + j] \in Byte
        BY <1>4, <4>1
      <4>4. j \in 1 .. 8
        OBVIOUS
      <4>5. t[LocPlace(length, n, k) + j] = s[LocPlace(length, n, k) + j]
        BY <1>11, <4>1, <4>4
      <4>. QED
        BY <4>2, <4>3, <4>5
    <3>. QED
      BY <3>1, <3>2
  <2>4. \A k \in 1 .. n + 1 : \A j \in 1 .. 6 :
          t[Len(t) - (n + 1) * FieldLocSize + (k - 1) * FieldLocSize + j] \in Byte
    BY <2>3 DEF LocPlace
  <2>5. length - n * FieldLocSize >= 0
    BY <1>4
  <2>. QED
    BY <1>7, <1>9, <2>1, <2>2, <2>4, <2>5 DEF Tracked
<1>13. Sound(c)
  <2>1. Size(c) = Size(b)
    BY <1>2, <1>3, <1>7, <1>8, SizeFacts
  <2>. QED
    BY <1>7, <1>8, <1>12, <2>1 DEF Sound
<1>14. ASSUME NEW k \in 1 .. n
       PROVE  Locs(c)[k] = Locs(b)[k]
  <2>. DEFINE p == LocPlace(length, n, k)
  <2>1. p \in Nat /\ p + FieldLocSize <= length /\ LocPlace(Len(t), n + 1, k) = p
    BY <1>4, <1>9, LocPlaces
  <2>2. k \in 1 .. n + 1
    BY <1>4
  <2>3. Locs(c)[k] = FieldLoc(t, p)
    BY <1>7, <1>9, <1>13, <2>1, <2>2, LocsFacts
  <2>4. Locs(b)[k] = FieldLoc(s, p)
    BY LocsFacts DEF n, s, length
  <2>. HIDE DEF p
  <2>5. p + 4 <= length /\ p + 4 \in Nat /\ (p + 4) + 2 <= length
    BY <1>4, <2>1 DEF FieldLocSize
  <2>6. ReadScalar(s, p, 4) = ReadScalar(t, p, 4)
    <3>1. length \in Nat /\ \A i \in 1 .. length : s[i] = t[i]
      BY <1>4, <1>6
    <3>2. 4 \in {1, 2, 4}
      OBVIOUS
    <3>. QED
      BY <2>1, <2>5, <3>1, <3>2, ReadsSame
  <2>7. ReadScalar(s, p + 4, 2) = ReadScalar(t, p + 4, 2)
    <3>1. length \in Nat /\ \A i \in 1 .. length : s[i] = t[i]
      BY <1>4, <1>6
    <3>2. 2 \in {1, 2, 4}
      OBVIOUS
    <3>. QED
      BY <2>5, <3>1, <3>2, ReadsSame
  <2>. QED
    BY <2>3, <2>4, <2>6, <2>7 DEF FieldLoc
<1>15. Locs(c)[n + 1].id = field
  <2>1. n + 1 \in 1 .. n + 1 /\ LocPlace(Len(t), n + 1, n + 1) = length
    BY <1>4, <1>9, LocPlaceOfLast
  <2>2. Locs(c)[n + 1] = FieldLoc(t, length)
    BY <1>7, <1>9, <1>13, <2>1, LocsFacts
  <2>3. Locs(c)[n + 1].id = ReadScalar(t, length + 4, 2)
    BY <2>2 DEF FieldLoc
  <2>4. t[(length + 4) + 1] = u[5] /\ t[(length + 4) + 2] = u[6] /\ length + 4 \in Nat
    <3>1. (length + 4) + 1 = length + 5 /\ (length + 4) + 2 = length + 6 /\ length + 4 \in Nat
      BY <1>4
    <3>. QED
      BY <1>10, <3>1
  <2>. QED
    BY <1>1, <2>3, <2>4, ReadsTwoBytes
<1>. QED
  BY <1>3, <1>7, <1>13, <1>14, <1>15 DEF Tracks, c, n

\* The fields added are among those named, none of them twice.
FieldsIn(b, names) ==
  /\ \A k \in 1 .. b.num_field_loc : Locs(b)[k].id \in names
  /\ \A j, k \in 1 .. b.num_field_loc : Locs(b)[j].id = Locs(b)[k].id => j = k

\* From b to c an object has been written, inside a table.
Adds(b, c) ==
  /\ Sound(c)
  /\ \E bytes \in Seq(Byte) : Data(c.buf) = bytes \o Data(b.buf)
  /\ c.nested = b.nested /\ c.finished = b.finished

LEMMA GrownFields ==
  ASSUME NEW b, NEW c, NEW names, Grown(b, c), FieldsIn(b, names)
  PROVE  FieldsIn(c, names)
BY DEF Grown, FieldsIn, Locs

LEMMA TrackLastAdds ==
  ASSUME NEW b, NEW c, Sound(b), Grown(b, c), NEW names, FieldsIn(b, names),
         NEW field, IsVoffset(field), field \notin names
  PROVE  LET d == TrackLast(c, field)
         IN  Adds(b, d) /\ FieldsIn(d, names \cup {field})
<1>. DEFINE d == TrackLast(c, field)
            n == c.num_field_loc
<1>1. Sound(c) /\ Size(c) \in Nat /\ Fine(c)
  BY GrownExtends, SizeFacts DEF Extends, Sound
<1>2. Tracks(c, d, field)
  BY <1>1, TrackFieldSound DEF TrackLast
<1>3. FieldsIn(c, names) /\ n \in Nat
  BY <1>1, GrownFields DEF Fine
<1>. HIDE DEF d, n
<1>4. \A k \in 1 .. n + 1 : k \in 1 .. n \/ k = n + 1
  BY <1>3
<1>5. /\ d.num_field_loc = n + 1 /\ Locs(d)[n + 1].id = field
      /\ \A k \in 1 .. n : Locs(d)[k] = Locs(c)[k] /\ Locs(d)[k].id \in names
  BY <1>2, <1>3 DEF FieldsIn, Tracks, n
<1>6. \A k \in 1 .. n + 1 : Locs(d)[k].id \in names \cup {field}
  BY <1>4, <1>5
<1>7. ASSUME NEW j \in 1 .. n + 1, NEW k \in 1 .. n + 1, Locs(d)[j].id = Locs(d)[k].id
      PROVE  j = k
  <2>1. CASE j \in 1 .. n /\ k \in 1 .. n
    BY <1>3, <1>5, <1>7, <2>1 DEF FieldsIn, n
  <2>2. CASE j = n + 1 /\ k \in 1 .. n
    BY <1>5, <1>7, <2>2
  <2>3. CASE j \in 1 .. n /\ k = n + 1
    BY <1>5, <1>7, <2>3
  <2>. QED
    BY <1>4, <2>1, <2>2, <2>3
<1>8. FieldsIn(d, names \cup {field})
  BY <1>5, <1>6, <1>7 DEF FieldsIn
<1>9. Adds(b, d)
  <2>1. /\ \E bytes \in Seq(Byte) : Data(c.buf) = bytes \o Data(b.buf)
        /\ c.nested = b.nested /\ c.finished = b.finished
    BY DEF Grown
  <2>2. /\ Sound(d) /\ Data(d.buf) = Data(c.buf)
        /\ d.nested = c.nested /\ d.finished = c.finished
    BY <1>2 DEF Tracks
  <2>. QED
    BY <2>1, <2>2 DEF Adds
<1>. QED
  BY <1>8, <1>9 DEF d

LEMMA FewerFields ==
  ASSUME NEW b, Sound(b), NEW names, FieldsIn(b, names), NEW field
  PROVE  Adds(b, b) /\ FieldsIn(b, names \cup {field})
<1>1. <<>> \in Seq(Byte) /\ Data(b.buf) = <<>> \o Data(b.buf)
  BY EmptySeq, ConcatEmptySeq DEF Sound, Fine
<1>. QED
  BY <1>1 DEF Adds, FieldsIn

LEMMA AddElementAdds ==
  ASSUME NEW b, Sound(b), NEW names, FieldsIn(b, names),
         NEW field, IsVoffset(field), field \notin names,
         NEW value \in Int, NEW width \in 1 .. 4, NEW default
  PROVE  LET c == AddElement(b, field, value, width, default)
         IN  Adds(b, c) /\ FieldsIn(c, names \cup {field})
<1>. DEFINE p == PushElement(b, value, width)
            c == AddElement(b, field, value, width, default)
<1>1. Fine(b)
  BY DEF Sound
<1>2. Grown(b, p)
  BY <1>1, PushElementGrows DEF p
<1>3. c = b \/ c = TrackLast(p, field)
  BY DEF AddElement
<1>. HIDE DEF p, c
<1>4. c = b => Adds(b, c) /\ FieldsIn(c, names \cup {field})
  BY FewerFields
<1>5. c = TrackLast(p, field) => Adds(b, c) /\ FieldsIn(c, names \cup {field})
  BY <1>2, TrackLastAdds
<1>6. Adds(b, c) /\ FieldsIn(c, names \cup {field})
  BY <1>3, <1>4, <1>5
<1>. QED
  BY <1>6 DEF c

LEMMA AddOffsetAdds ==
  ASSUME NEW b, Sound(b), NEW names, FieldsIn(b, names),
         NEW field, IsVoffset(field), field \notin names, NEW off \in 1 .. Size(b)
  PROVE  LET c == AddOffset(b, field, off)
         IN  Adds(b, c) /\ FieldsIn(c, names \cup {field})
<1>. DEFINE p == PushOffset(b, off)
            c == AddOffset(b, field, off)
<1>1. Fine(b) /\ Size(b) \in Nat
  BY SizeFacts DEF Sound
<1>2. Grown(b, p)
  BY <1>1, PushOffsetGrows
<1>3. c = TrackLast(p, field)
  BY <1>1 DEF AddOffset
<1>. HIDE DEF p, c
<1>. QED
  BY <1>2, <1>3, TrackLastAdds DEF c

LEMMA AddStructAdds ==
  ASSUME NEW b, Sound(b), NEW names, FieldsIn(b, names),
         NEW field, IsVoffset(field), field \notin names,
         NEW bytes \in Seq(Byte), NEW align \in Nat \ {0}
  PROVE  LET c == AddStruct(b, field, bytes, align)
         IN  Adds(b, c) /\ FieldsIn(c, names \cup {field})
<1>. DEFINE a == Align(b, align)
            p == PushBytes(a, bytes)
<1>0. Fine(b)
  BY DEF Sound
<1>1. Grown(b, a)
  BY <1>0, AlignGrows
<1>. HIDE DEF a
<1>2. Grown(a, p)
  <2>1. Fine(a)
    BY <1>1 DEF Grown
  <2>. QED
    BY <2>1, PushBytesGrows
<1>3. AddStruct(b, field, bytes, align) = TrackLast(p, field)
  BY DEF AddStruct, a
<1>. HIDE DEF p
<1>4. Grown(b, p)
  BY <1>0, <1>1, <1>2, GrownOn
<1>. QED
  BY <1>3, <1>4, TrackLastAdds

----------------------------------------------------------------------------
(* The start of a table, and its vtable.                                   *)

LEMMA StartTableOpens ==
  ASSUME NEW b, Sound(b), ~b.nested, b.num_field_loc = 0
  PROVE  LET c == StartTable(b)
         IN  /\ Sound(c) /\ c.buf = b.buf /\ c.nested = TRUE /\ c.num_field_loc = 0
             /\ c.finished = b.finished /\ c.ret \in Nat /\ FieldsIn(c, {})
<1>. DEFINE o == Opened(b)
            c == StartTable(b)
<1>0. Fine(b)
  BY DEF Sound
<1>1. /\ Fine(o) /\ o.buf = b.buf /\ o.nested = TRUE
      /\ o.num_field_loc = b.num_field_loc /\ o.finished = b.finished
      /\ o.string_pool = b.string_pool /\ o.ok = b.ok
  BY <1>0, OpenedFine
<1>2. c = Returning(o)
  BY <1>0, NotNestedHolds DEF StartTable, Opened
<1>. HIDE DEF o, c
<1>3. Sound(o)
  BY <1>1 DEF Sound, Tracked, Size
<1>4. Grown(o, c) /\ c.buf = o.buf /\ c.ret = Size(o)
  BY <1>1, <1>2, ReturningGrows
<1>5. Sound(c)
  BY <1>3, <1>4, GrownExtends DEF Extends
<1>6. /\ c.buf = b.buf /\ c.nested = TRUE /\ c.num_field_loc = 0 /\ c.finished = b.finished
  BY <1>1, <1>4 DEF Grown
<1>7. c.ret \in Nat
  BY <1>1, <1>4, SizeFacts
<1>8. FieldsIn(c, {})
  BY <1>6 DEF FieldsIn
<1>. QED
  BY <1>5, <1>6, <1>7, <1>8 DEF c

LEMMA VtableSlotInt ==
  ASSUME NEW b, Sound(b), NEW id \in Int, NEW size \in Int, NEW start \in Int, NEW loc \in Int
  PROVE  VtableSlot(id, Locs(b), size, start, loc) \in Int
<1>. DEFINE which == LocsOf(Locs(b), id)
<1>1. LastOffset(Locs(b), which, loc) \in Int
  <2>1. CASE which = {}
    BY <2>1 DEF LastOffset
  <2>2. CASE which # {}
    <3>1. b.num_field_loc \in Nat /\ DOMAIN Locs(b) = 1 .. b.num_field_loc
      BY LocsFacts
    <3>2. which \subseteq 1 .. b.num_field_loc
      BY <3>1 DEF LocsOf
    <3>3. IsFiniteSet(1 .. b.num_field_loc)
      BY <3>1, FS_Interval
    <3>. HIDE DEF which
    <3>4. IsFiniteSet(which) /\ which \subseteq Int
      <4>1. which \in SUBSET (1 .. b.num_field_loc)
        BY <3>2
      <4>2. IsFiniteSet(which)
        BY <3>3, <4>1, FS_Subset
      <4>. QED
        BY <3>1, <3>2, <4>2
    <3>5. Max(which) \in 1 .. b.num_field_loc
      BY <2>2, <3>2, <3>4, Extremes
    <3>6. Locs(b)[Max(which)].off \in Int
      BY <3>5, LocsFacts
    <3>. QED
      BY <2>2, <3>6 DEF LastOffset
  <2>. QED
    BY <2>1, <2>2
<1>. QED
  BY <1>1 DEF VtableSlot

LEMMA VtableSlotsAreBytes ==
  ASSUME NEW b, Sound(b), NEW size \in Nat, NEW start \in Int, NEW loc \in Int
  PROVE  VtableSlots(Locs(b), size, start, loc) \in Seq(Byte)
<1>. DEFINE n == size \div 2
            slot(k) == Bytes(VtableSlot(2 * (k - 1), Locs(b), size, start, loc), 2)
            slots == [k \in 1 .. n |-> slot(k)]
<1>1. n \in Nat
  OBVIOUS
<1>2. ASSUME NEW k \in 1 .. n
      PROVE  slot(k) \in Seq(Byte)
  <2>1. 2 * (k - 1) \in Int /\ size \in Int
    OBVIOUS
  <2>2. VtableSlot(2 * (k - 1), Locs(b), size, start, loc) \in Int
    BY <2>1, VtableSlotInt
  <2>3. 2 \in 0 .. 4
    OBVIOUS
  <2>. QED
    BY <2>2, <2>3, BytesFacts
<1>. HIDE DEF n, slot
<1>3. slots \in [1 .. n -> Seq(Byte)]
  BY <1>2
<1>. HIDE DEF slots
<1>4. slots \in Seq(Seq(Byte))
  BY <1>1, <1>3, SeqDef
<1>5. VtableSlots(Locs(b), size, start, loc) = FlattenSeq(slots)
  BY DEF VtableSlots, slots, slot, n
<1>. QED
  BY <1>4, <1>5, Flattened

LEMMA WriteVtableGrows ==
  ASSUME NEW b, Sound(b), NEW names, FieldsIn(b, names), NEW start \in Int, NEW loc \in Int
  PROVE  Grown(b, WriteVtable(b, start, loc))
<1>. DEFINE sizes == {b.max_voffset + 2, FieldIndexToOffset(0)}
            size == Max(sizes)
            slots == VtableSlots(Locs(b), size, start, loc)
<1>0. Fine(b) /\ b.max_voffset \in Nat
  BY DEF Sound, Fine
<1>1. size \in Nat
  <2>1. sizes \subseteq Nat /\ sizes # {}
    BY <1>0 DEF FieldIndexToOffset
  <2>2. IsFiniteSet(sizes)
    <3>1. \A x, y : IsFiniteSet({x, y})
      <4>. TAKE x, y
      <4>1. IsFiniteSet({x})
        BY FS_Singleton
      <4>2. IsFiniteSet({x} \cup {y})
        BY <4>1, FS_AddElement
      <4>3. {x, y} = {x} \cup {y}
        OBVIOUS
      <4>. QED
        BY <4>2, <4>3
    <3>. QED
      BY <3>1
  <2>. HIDE DEF sizes
  <2>3. sizes \subseteq Int
    BY <2>1
  <2>4. Max(sizes) \in sizes
    BY <2>1, <2>2, <2>3, Extremes
  <2>. QED
    BY <2>1, <2>4
<1>. HIDE DEF size
<1>2. slots \in Seq(Byte)
  BY <1>1, VtableSlotsAreBytes
<1>3. (\A k \in DOMAIN Locs(b) : LocsOf(Locs(b), Locs(b)[k].id) = {k}) = TRUE
  <2>1. DOMAIN Locs(b) = 1 .. b.num_field_loc
    BY LocsFacts
  <2>2. \A j, k \in DOMAIN Locs(b) : Locs(b)[j].id = Locs(b)[k].id => j = k
    BY <2>1 DEF FieldsIn
  <2>. QED
    BY <2>2 DEF LocsOf
<1>. HIDE DEF slots
<1>4. WriteVtable(b, start, loc) = PushBytes(b, slots)
  <2>. DEFINE p == \A k \in DOMAIN Locs(b) : LocsOf(Locs(b), Locs(b)[k].id) = {k}
  <2>1. WriteVtable(b, start, loc) = PushBytes(Asserting(b, p), slots)
    BY DEF WriteVtable, VtableFrom, Locs, slots, size
  <2>. HIDE DEF p
  <2>2. p = TRUE
    BY <1>3 DEF p
  <2>3. Asserting(b, p) = b
    BY <1>0, <2>2, AssertingHolds
  <2>. QED
    BY <2>1, <2>3
<1>. QED
  BY <1>0, <1>2, <1>4, PushBytesGrows

\* The FieldLocs go; what stays is the offsets of the vtables, all written.
LEMMA ClearOffsetsSound ==
  ASSUME NEW b, Sound(b)
  PROVE  LET c == ClearOffsets(b)
         IN  /\ Sound(c) /\ Data(c.buf) = Data(b.buf) /\ Scratch(c.buf) \in Seq(Byte)
             /\ c.num_field_loc = 0 /\ c.max_voffset = 0
             /\ c.nested = b.nested /\ c.finished = b.finished
             /\ c.string_pool = b.string_pool /\ c.ret = b.ret /\ c.ok = b.ok
<1>. DEFINE c == ClearOffsets(b)
            n == b.num_field_loc * FieldLocSize
            s == Scratch(b.buf)
            t == Scratch(c.buf)
            v == ScratchPop(b.buf, n)
<1>0. Fine(b) /\ Good(b.buf, Cell) /\ Tracked(b)
  BY DEF Sound, Fine
<1>1. /\ s \in Seq(Cell) /\ Len(s) = b.buf.scratch
  BY <1>0, Cells, GoodStacks
<1>2. /\ n \in Nat /\ n <= Len(s) /\ Len(s) \in Nat /\ Len(s) - n \in Nat
      /\ \A k \in 1 .. Len(s) - n : s[k] \in Byte
  <2>1. b.num_field_loc \in Nat
    BY <1>0 DEF Fine
  <2>2. n \in Nat /\ Len(s) \in Nat
    BY <1>1, <2>1, LenProperties DEF FieldLocSize
  <2>3. Len(s) - n >= 0 /\ \A k \in 1 .. Len(s) - n : s[k] \in Byte
    BY <1>0 DEF Tracked
  <2>. HIDE DEF n, s
  <2>. QED
    BY <2>2, <2>3
<1>3. c = [b EXCEPT !.buf = v, !.num_field_loc = 0, !.max_voffset = 0]
  BY <1>0 DEF ClearOffsets, Fine
<1>. HIDE DEF n
<1>4. /\ Good(v, Cell) /\ Data(v) = Data(b.buf)
      /\ Scratch(v) = SubSeq(s, 1, Len(s) - n)
  BY <1>0, <1>1, <1>2, Cells, ScratchPopped
<1>. HIDE DEF v, c
<1>5. /\ c \in [buf : {v}, num_field_loc : {0}, max_voffset : {0}, nested : {b.nested},
                finished : {b.finished}, minalign : {b.minalign},
                string_pool : {b.string_pool}, ret : {b.ret}, ok : {b.ok}]
  BY <1>0, <1>3, TrackedRecord
<1>6. /\ c.buf = v /\ c.num_field_loc = 0 /\ c.max_voffset = 0
      /\ c.nested = b.nested /\ c.finished = b.finished
      /\ c.string_pool = b.string_pool /\ c.ret = b.ret /\ c.ok = b.ok
  BY <1>5
<1>7. Fine(c)
  BY <1>0, <1>4, <1>5 DEF Fine
<1>8. t \in Seq(Byte) /\ Len(t) \in Nat /\ \A k \in 1 .. Len(t) : t[k] \in Byte
  <2>. DEFINE m == Len(s) - n
  <2>1. t = SubSeq(s, 1, m)
    BY <1>4, <1>6
  <2>2. m \in Nat /\ 1 \in Int /\ \A k \in 1 .. m : s[k] \in Byte
    BY <1>2
  <2>. HIDE DEF m, s, t
  <2>3. t \in Seq(Byte)
    BY <2>1, <2>2, SubSeqProperties
  <2>. QED
    BY <2>3, LenProperties, ElementOfSeq
<1>9. Tracked(c)
  BY <1>6, <1>8 DEF Tracked, FieldLocSize
<1>10. Size(c) = Size(b)
  BY <1>0, <1>4, <1>6, <1>7, SizeFacts
<1>11. Sound(c)
  BY <1>6, <1>7, <1>9, <1>10 DEF Sound
<1>. QED
  BY <1>4, <1>6, <1>8, <1>11 DEF c, t

LEMMA VtableOffsetsFacts ==
  ASSUME NEW mem \in Seq(Byte)
  PROVE  /\ Range(VtableOffsets(mem)) \subseteq Int
         /\ IsFiniteSet(Range(VtableOffsets(mem)))
<1>. DEFINE length == Len(mem)
            n == length \div KeptOffsetSize
            f == VtableOffsets(mem)
<1>1. length \in Nat /\ n \in Nat /\ n * 4 <= length
  <2>1. length \in Nat
    BY LenProperties
  <2>2. \A i \in Nat : i \div 4 \in Nat /\ (i \div 4) * 4 <= i
    OBVIOUS
  <2>. HIDE DEF length
  <2>. QED
    BY <2>1, <2>2 DEF KeptOffsetSize
<1>2. ASSUME NEW k \in 1 .. n
      PROVE  ReadScalar(mem, (k - 1) * KeptOffsetSize, 4) \in Int
  <2>. DEFINE p == (k - 1) * KeptOffsetSize
  <2>1. p \in Nat /\ p + 4 <= length
    <3>. HIDE DEF n, length
    <3>. QED
      BY <1>1 DEF KeptOffsetSize
  <2>2. \A j \in 1 .. 4 : p + j \in 1 .. length
    <3>. HIDE DEF p, length, n
    <3>. QED
      BY <1>1, <2>1
  <2>. HIDE DEF p
  <2>3. \A j \in 1 .. 4 : mem[p + j] \in Byte
    BY <2>2, ElementOfSeq
  <2>4. 4 \in {1, 2, 4}
    OBVIOUS
  <2>5. ReadScalar(mem, p, 4) \in Int
    BY <2>1, <2>3, <2>4, ReadsInt
  <2>. QED
    BY <2>5 DEF p
<1>3. f = [k \in 1 .. n |-> ReadScalar(mem, (k - 1) * KeptOffsetSize, 4)]
  BY DEF VtableOffsets
<1>. HIDE DEF n, f
<1>4. DOMAIN f = 1 .. n /\ \A k \in 1 .. n : f[k] \in Int
  BY <1>2, <1>3
<1>5. Range(f) \subseteq Int
  BY <1>4 DEF Range
<1>6. f \in Surjection(1 .. n, Range(f))
  BY <1>3, <1>4 DEF Surjection, Range
<1>7. IsFiniteSet(1 .. n)
  BY <1>1, FS_Interval
<1>8. IsFiniteSet(Range(f))
  BY <1>6, <1>7, FS_Surjection
<1>. QED
  BY <1>5, <1>8 DEF f

\* From b to c a vtable that was before below has stayed or been taken back.
Uses(b, c, below) ==
  /\ Sound(c) /\ c.ret \in Int /\ c.num_field_loc = 0
  /\ \E bytes \in Seq(Byte) : Data(c.buf) = bytes \o below
  /\ c.nested = b.nested /\ c.finished = b.finished

\* The vtable is taken back, or one more offset is kept.
LEMMA UseVtableSound ==
  ASSUME NEW b, Sound(b), b.num_field_loc = 0, Scratch(b.buf) \in Seq(Byte),
         NEW slots \in Seq(Byte), NEW below \in Seq(Byte), Data(b.buf) = slots \o below,
         NEW loc, loc = Len(below), b.string_pool \subseteq 1 .. loc
  PROVE  Uses(b, UseVtable(b, loc), below)
<1>. DEFINE c == UseVtable(b, loc)
            offsets == Range(VtableOffsets(Scratch(b.buf)))
            mem == Data(b.buf)
            same == {o \in offsets :
                       DedupVtables /\ SameLayout(VtableAt(mem, 0), VtableAt(mem, Position(mem, o)))}
            n == Size(b) - loc
<1>0. Fine(b) /\ Good(b.buf, Cell) /\ Size(b) \in Nat /\ b.ok /\ b.num_field_loc \in Nat
  BY SizeFacts DEF Sound, Fine
<1>1. Len(slots) \in Nat /\ loc \in Nat /\ n = Len(slots) /\ Size(b) = n + loc
  <2>1. Len(Data(b.buf)) = Size(b)
    BY <1>0, SizeFacts
  <2>2. Len(slots \o below) = Len(slots) + Len(below)
    BY ConcatProperties
  <2>3. Len(slots) \in Nat /\ Len(below) \in Nat
    BY LenProperties
  <2>4. Size(b) = Len(slots) + loc
    BY <2>1, <2>2
  <2>. QED
    BY <1>0, <2>3, <2>4
<1>2. \/ /\ same # {}
         /\ c = [b EXCEPT !.buf = Pop(b.buf, n), !.ret = Min(same)]
      \/ /\ same = {}
         /\ c = [b EXCEPT !.buf = ScratchPush(b.buf, Bytes(Size(b), 4)), !.ret = Size(b)]
  <2>1. Fine(b)
    BY <1>0
  <2>. QED
    BY <2>1 DEF UseVtable, Fine
<1>3. offsets \subseteq Int /\ IsFiniteSet(offsets)
  BY VtableOffsetsFacts
<1>4. same \subseteq Int /\ IsFiniteSet(same)
  <2>. HIDE DEF offsets
  <2>1. same \in SUBSET offsets
    OBVIOUS
  <2>. HIDE DEF same
  <2>2. IsFiniteSet(same)
    BY <1>3, <2>1, FS_Subset
  <2>. QED
    BY <1>3, <2>1, <2>2
<1>. HIDE DEF c, same, mem, offsets, n
<1>5. ASSUME NEW v, Good(v, Cell), NEW ret \in Int, c = [b EXCEPT !.buf = v, !.ret = ret],
             NEW bytes \in Seq(Byte), Data(v) = bytes \o below,
             Scratch(v) \in Seq(Byte), Size(b) \in Nat
      PROVE  /\ Fine(c) /\ Tracked(c) /\ c.ret \in Int /\ c.num_field_loc = 0
             /\ Data(c.buf) = bytes \o below
             /\ c.nested = b.nested /\ c.finished = b.finished
             /\ c.string_pool = b.string_pool /\ c.ok = b.ok
  <2>1. c \in [buf : {v}, num_field_loc : {b.num_field_loc}, max_voffset : {b.max_voffset},
               nested : {b.nested}, finished : {b.finished}, minalign : {b.minalign},
               string_pool : {b.string_pool}, ret : {ret}, ok : {b.ok}]
    BY <1>0, <1>5 DEF Fine
  <2>2. /\ b.num_field_loc \in Nat /\ b.max_voffset \in Nat /\ b.nested \in BOOLEAN
        /\ b.finished \in BOOLEAN /\ b.minalign \in Nat \ {0} /\ b.string_pool \in SUBSET Nat
        /\ b.ok \in BOOLEAN
    BY <1>0 DEF Fine
  <2>3. /\ c.buf = v /\ c.num_field_loc = b.num_field_loc
        /\ c.nested = b.nested /\ c.finished = b.finished
        /\ c.string_pool = b.string_pool /\ c.ret = ret /\ c.ok = b.ok
    BY <2>1
  <2>4. bytes \o below \in Seq(Byte)
    BY ConcatProperties
  <2>5. c \in [buf : {c.buf}, num_field_loc : Nat, max_voffset : Nat, nested : BOOLEAN,
               finished : BOOLEAN, minalign : Nat \ {0}, string_pool : SUBSET Nat, ret : Int,
               ok : BOOLEAN]
    BY <1>5, <2>1, <2>2
  <2>6. Fine(c)
    BY <1>5, <2>3, <2>4, <2>5 DEF Fine
  <2>7. Tracked(c)
    <3>1. /\ Len(Scratch(v)) \in Nat
          /\ \A k \in 1 .. Len(Scratch(v)) : Scratch(v)[k] \in Byte
      BY <1>5, LenProperties, ElementOfSeq
    <3>2. Scratch(c.buf) = Scratch(v) /\ c.num_field_loc = 0
      BY <2>3
    <3>. QED
      BY <3>1, <3>2 DEF Tracked, FieldLocSize
  <2>. QED
    BY <1>5, <2>3, <2>6, <2>7
<1>6. CASE same # {}
  <2>. DEFINE v == Pop(b.buf, n)
              ret == Min(same)
  <2>1. c = [b EXCEPT !.buf = v, !.ret = ret]
    BY <1>2, <1>6
  <2>2. ret \in Int
    BY <1>4, <1>6, Extremes
  <2>3. n \in Nat /\ n <= b.buf.size
    BY <1>0, <1>1 DEF Size
  <2>4. /\ Good(v, Cell) /\ Scratch(v) = Scratch(b.buf)
        /\ Data(v) = SubSeq(Data(b.buf), n + 1, Len(Data(b.buf)))
    BY <1>0, <2>3, Cells, Popped
  <2>5. Data(v) = below /\ below = <<>> \o below /\ <<>> \in Seq(Byte)
    <3>1. SubSeq(slots \o below, Len(slots) + 1, Len(slots \o below)) = below
      BY DropFront
    <3>2. below = <<>> \o below /\ <<>> \in Seq(Byte)
      BY EmptySeq, ConcatEmptySeq
    <3>. HIDE DEF v
    <3>. QED
      BY <1>1, <2>4, <3>1, <3>2
  <2>. HIDE DEF v, ret
  <2>6. Data(v) = <<>> \o below /\ Scratch(v) \in Seq(Byte)
    BY <2>4, <2>5
  <2>7. /\ Fine(c) /\ Tracked(c) /\ c.ret \in Int /\ c.num_field_loc = 0
        /\ Data(c.buf) = <<>> \o below
        /\ c.nested = b.nested /\ c.finished = b.finished
        /\ c.string_pool = b.string_pool /\ c.ok = b.ok
    BY <1>0, <1>5, <2>1, <2>2, <2>4, <2>5, <2>6
  <2>8. Size(c) = loc
    BY <2>5, <2>7, SizeFacts
  <2>9. Sound(c)
    BY <1>0, <2>7, <2>8 DEF Sound
  <2>10. <<>> \in Seq(Byte)
    BY <2>5
  <2>. QED
    BY <2>7, <2>9, <2>10 DEF c, Uses
<1>7. CASE same = {}
  <2>. DEFINE kept == Bytes(Size(b), 4)
              v == ScratchPush(b.buf, kept)
              ret == Size(b)
  <2>1. c = [b EXCEPT !.buf = v, !.ret = ret]
    BY <1>2, <1>7
  <2>2. kept \in Seq(Byte)
    <3>1. Size(b) \in Int /\ 4 \in 0 .. 4
      BY <1>0
    <3>. QED
      BY <3>1, BytesFacts
  <2>. HIDE DEF kept
  <2>3. kept \in Seq(Cell)
    BY <2>2, BytesAreCells
  <2>4. /\ Good(v, Cell) /\ Scratch(v) = Scratch(b.buf) \o kept
        /\ Data(v) = Data(b.buf)
    BY <1>0, <2>3, Cells, ScratchPushed
  <2>5. Scratch(v) \in Seq(Byte)
    BY <2>2, <2>4, ConcatProperties
  <2>6. ret \in Int
    BY <1>0
  <2>. HIDE DEF v, ret
  <2>7. /\ Fine(c) /\ Tracked(c) /\ c.ret \in Int /\ c.num_field_loc = 0
        /\ Data(c.buf) = slots \o below
        /\ c.nested = b.nested /\ c.finished = b.finished
        /\ c.string_pool = b.string_pool /\ c.ok = b.ok
    BY <1>0, <1>5, <2>1, <2>4, <2>5, <2>6
  <2>8. Size(c) = Size(b)
    BY <1>0, <2>7, SizeFacts
  <2>9. Sound(c)
    BY <1>0, <2>7, <2>8 DEF Sound
  <2>. QED
    BY <2>7, <2>9 DEF c, Uses
<1>. QED
  BY <1>6, <1>7

----------------------------------------------------------------------------
(* The end of a table.                                                     *)

\* w holds what v does, but for bytes at loc.
Overwrites(v, w, loc, bytes, C) ==
  /\ Good(w, C) /\ Scratch(w) = Scratch(v) /\ w.size = v.size
  /\ \A k \in 1 .. v.size :
       Data(w)[k] = IF k \in v.size - loc + 1 .. v.size - loc + Len(bytes)
                    THEN bytes[k - (v.size - loc)] ELSE Data(v)[k]

\* Bytes written over the data at an offset change nothing but those.
LEMMA Overwritten ==
  ASSUME NEW C, Undefined \in C, NEW v, Good(v, C), NEW loc \in Nat, loc <= v.size,
         NEW bytes \in Seq(C), Len(bytes) <= loc,
         NEW w, w = [v EXCEPT !.buf = WriteAt(v.buf, DataAt(v, loc), bytes)]
  PROVE  Overwrites(v, w, loc, bytes, C)
<1>. DEFINE p == v.reserved - loc
            buf == WriteAt(v.buf, p, bytes)
            n == Len(bytes)
<1>1. /\ v.reserved \in Nat /\ v.size \in Nat /\ v.cur \in Nat /\ v.scratch \in Nat
      /\ v.cur = v.reserved - v.size /\ v.scratch <= v.cur
      /\ v.buf \in [0 .. v.reserved - 1 -> C]
  BY DEF Good
<1>2. n \in Nat /\ \A i \in 1 .. n : bytes[i] \in C
  BY LenProperties, ElementOfSeq
<1>3. buf = [k \in 0 .. v.reserved - 1 |->
               IF k \in p .. p + n - 1 THEN bytes[k - p + 1] ELSE v.buf[k]]
  BY <1>1 DEF WriteAt
<1>4. p \in Nat /\ v.cur <= p /\ p + n <= v.reserved
  BY <1>1, <1>2
<1>. HIDE DEF n
<1>5. buf \in [0 .. v.reserved - 1 -> C]
  <2>1. \A k \in p .. p + n - 1 : k - p + 1 \in 1 .. n
    BY <1>2, <1>4
  <2>. HIDE DEF p, buf
  <2>. QED
    BY <1>1, <1>2, <1>3, <2>1
<1>6. w = [v EXCEPT !.buf = buf]
  BY DEF DataAt
<1>. HIDE DEF buf
<1>7. /\ w \in [buf : {buf}, reserved : {v.reserved}, size : {v.size}, cur : {v.cur},
                scratch : {v.scratch}]
  BY <1>6 DEF Good
<1>8. /\ w.buf = buf /\ w.reserved = v.reserved /\ w.size = v.size /\ w.cur = v.cur
      /\ w.scratch = v.scratch
  BY <1>7
<1>9. Good(w, C)
  BY <1>1, <1>5, <1>7, <1>8 DEF Good
<1>10. Scratch(w) = Scratch(v)
  <2>1. \A k \in 1 .. v.scratch : k - 1 \in 0 .. v.reserved - 1 /\ k - 1 \notin p .. p + n - 1
    <3>. HIDE DEF p
    <3>1. \A i \in Int : i \in 1 .. v.scratch =>
            i - 1 >= 0 /\ i - 1 < v.scratch /\ i - 1 \in Int
      BY <1>1
    <3>2. v.scratch <= p /\ v.scratch <= v.reserved
      BY <1>1, <1>2, <1>4
    <3>3. \A i \in Int : i < v.scratch => ~(i >= p) /\ i <= v.reserved - 1
      BY <1>1, <1>4, <3>2
    <3>. QED
      BY <1>1, <3>1, <3>3
  <2>2. \A k \in 1 .. v.scratch : buf[k - 1] = v.buf[k - 1]
    BY <1>3, <2>1
  <2>. QED
    BY <1>8, <2>2 DEF Scratch
<1>11. ASSUME NEW k \in 1 .. v.size
       PROVE  Data(w)[k] = IF k \in v.size - loc + 1 .. v.size - loc + n
                           THEN bytes[k - (v.size - loc)] ELSE Data(v)[k]
  <2>. DEFINE i == v.cur + k - 1
  <2>1. i \in 0 .. v.reserved - 1
    BY <1>1
  <2>2. i \in p .. p + n - 1 <=> k \in v.size - loc + 1 .. v.size - loc + n
    <3>1. /\ v.reserved \in Int /\ v.size \in Int /\ n \in Int /\ loc \in Int /\ k \in Int
          /\ i \in Int /\ i = v.reserved - v.size + k - 1
      BY <1>1, <1>2
    <3>. HIDE DEF i
    <3>2. p <= i /\ i <= p + n - 1 <=> v.size - loc + 1 <= k /\ k <= v.size - loc + n
      <4>1. /\ (v.reserved - loc <= i) <=> (v.size - loc + 1 <= k)
            /\ (i <= v.reserved - loc + n - 1) <=> (k <= v.size - loc + n)
        <5>. DEFINE r == v.reserved
                    z == v.size
        <5>1. /\ r \in Int /\ z \in Int /\ n \in Int /\ loc \in Int /\ k \in Int /\ i \in Int
              /\ i = r - z + k - 1
          BY <3>1
        <5>. HIDE DEF r, z
        <5>2. /\ (r - loc <= i) <=> (z - loc + 1 <= k)
              /\ (i <= r - loc + n - 1) <=> (k <= z - loc + n)
          BY <5>1
        <5>. QED
          BY <5>2 DEF r, z
      <4>. QED
        BY <4>1
    <3>3. p \in Int
      BY <3>1
    <3>. HIDE DEF p
    <3>. QED
      BY <3>1, <3>2, <3>3
  <2>3. i - p + 1 = k - (v.size - loc)
    BY <1>1
  <2>4. Data(w)[k] = buf[i] /\ Data(v)[k] = v.buf[i]
    <3>1. k \in 1 .. w.size /\ w.cur + k - 1 = i
      BY <1>8
    <3>2. Data(w)[k] = w.buf[w.cur + k - 1]
      BY <3>1 DEF Data
    <3>3. Data(v)[k] = v.buf[v.cur + k - 1]
      BY GoodStacks
    <3>. QED
      BY <1>8, <3>1, <3>2, <3>3
  <2>. HIDE DEF i, p
  <2>. QED
    BY <1>3, <2>1, <2>2, <2>3, <2>4
<1>. QED
  BY <1>8, <1>9, <1>10, <1>11 DEF n, Overwrites

\* A sequence that ends as another does begins with something.
LEMMA EndsAs ==
  ASSUME NEW S, NEW s \in Seq(S), NEW t \in Seq(S), Len(t) <= Len(s),
         \A i \in 1 .. Len(t) : s[Len(s) - Len(t) + i] = t[i]
  PROVE  \E x \in Seq(S) : s = x \o t
<1>. DEFINE m == Len(s) - Len(t)
            n == Len(t)
            x == SubSeq(s, 1, m)
            u == x \o t
<1>1. Len(s) \in Nat /\ n \in Nat /\ m \in Nat /\ Len(s) = m + n
      /\ \A i \in 1 .. Len(s) : s[i] \in S
  BY LenProperties, ElementOfSeq
<1>2. x \in Seq(S) /\ Len(x) = m /\ \A i \in 1 .. m : x[i] = s[i]
  <2>1. 1 \in Int /\ m \in Int /\ \A i \in 1 .. m : s[i] \in S
    BY <1>1
  <2>. HIDE DEF m
  <2>2. /\ x \in Seq(S) /\ Len(x) = (IF 1 <= m THEN m - 1 + 1 ELSE 0)
        /\ \A i \in 1 .. m - 1 + 1 : x[i] = s[1 + i - 1]
    BY <2>1, SubSeqProperties
  <2>3. m - 1 + 1 = m /\ m \in Nat /\ \A i \in 1 .. m : 1 + i - 1 = i
    BY <1>1
  <2>. HIDE DEF x
  <2>. QED
    BY <2>2, <2>3
<1>. HIDE DEF x
<1>3. /\ u \in Seq(S) /\ Len(u) = Len(x) + Len(t)
      /\ \A i \in 1 .. Len(x) : u[i] = x[i] /\ x[i] \in S
      /\ \A i \in 1 .. Len(t) : u[Len(x) + i] = t[i] /\ t[i] \in S
  <2>1. x \in Seq(S) /\ t \in Seq(S)
    BY <1>2
  <2>. QED
    BY <2>1, Joined
<1>4. s \in [1 .. m + n -> S] /\ u \in [1 .. m + n -> S]
  <2>1. Len(u) = m + n
    BY <1>2, <1>3
  <2>2. u \in [1 .. Len(u) -> S] /\ s \in [1 .. Len(s) -> S]
    BY <1>3, LenProperties
  <2>. QED
    BY <1>1, <2>1, <2>2
<1>5. ASSUME NEW i \in 1 .. m + n
      PROVE  s[i] = u[i]
  <2>1. CASE i \in 1 .. m
    BY <1>2, <1>3, <2>1
  <2>2. CASE i \notin 1 .. m
    <3>1. i - m \in 1 .. n /\ m + (i - m) = i
      BY <1>1, <2>2
    <3>2. s[m + (i - m)] = t[i - m]
      BY <3>1
    <3>3. u[m + (i - m)] = t[i - m]
      BY <1>2, <1>3, <3>1
    <3>. QED
      BY <3>1, <3>2, <3>3
  <2>. QED
    BY <2>1, <2>2
<1>6. m + n \in Nat
  BY <1>1
<1>7. s = u
  <2>. HIDE DEF m, n, u
  <2>. QED
    BY <1>4, <1>5, <1>6, SameStack
<1>. QED
  BY <1>2, <1>7

EndsWith(s, t) == \E x \in Seq(Byte) : s = x \o t

LEMMA EndingWith ==
  \A s, t \in Seq(Byte) :
    Len(t) <= Len(s) /\ (\A i \in 1 .. Len(t) : s[Len(s) - Len(t) + i] = t[i]) => EndsWith(s, t)
<1>. TAKE s, t \in Seq(Byte)
<1>. HAVE Len(t) <= Len(s) /\ (\A i \in 1 .. Len(t) : s[Len(s) - Len(t) + i] = t[i])
<1>. QED
  BY EndsAs DEF EndsWith

Pointed(b, c, v, loc) ==
  /\ Fine(c) /\ c.buf = v /\ c.num_field_loc = b.num_field_loc /\ c.nested = FALSE
  /\ c.finished = b.finished /\ c.ret = loc /\ c.ok = b.ok
  /\ c.string_pool = b.string_pool

LEMMA PointedRecord ==
  ASSUME NEW b, Fine(b), NEW v, Good(v, Cell), Data(v) \in Seq(Byte), NEW loc \in Int,
         NEW c, c = [b EXCEPT !.buf = v, !.nested = FALSE, !.ret = loc]
  PROVE  Pointed(b, c, v, loc)
<1>1. c \in [buf : {v}, num_field_loc : {b.num_field_loc}, max_voffset : {b.max_voffset},
             nested : {FALSE}, finished : {b.finished}, minalign : {b.minalign},
             string_pool : {b.string_pool}, ret : {loc}, ok : {b.ok}]
  BY DEF Fine
<1>2. /\ c.buf = v /\ c.num_field_loc = b.num_field_loc /\ c.nested = FALSE
      /\ c.finished = b.finished /\ c.ret = loc /\ c.ok = b.ok
      /\ c.string_pool = b.string_pool
  BY <1>1
<1>3. /\ b.num_field_loc \in Nat /\ b.max_voffset \in Nat
      /\ b.finished \in BOOLEAN /\ b.minalign \in Nat \ {0} /\ b.string_pool \in SUBSET Nat
      /\ b.ok \in BOOLEAN
  BY DEF Fine
<1>4. c \in [buf : {c.buf}, num_field_loc : Nat, max_voffset : Nat, nested : BOOLEAN,
             finished : BOOLEAN, minalign : Nat \ {0}, string_pool : SUBSET Nat, ret : Int,
             ok : BOOLEAN]
  BY <1>1, <1>3
<1>. QED
  BY <1>2, <1>4 DEF Fine, Pointed

\* From b to c the table at loc has been completed; base was there before it.
Points(b, c, loc, base) ==
  /\ Sound(c) /\ c.num_field_loc = 0 /\ c.nested = FALSE /\ c.ret = loc
  /\ c.finished = b.finished /\ Size(c) = Size(b)
  /\ \E bytes \in Seq(Byte) : Data(c.buf) = bytes \o base

\* The table's own offset is written over its first four bytes.
LEMMA PointToVtableSound ==
  ASSUME NEW b, Sound(b), b.num_field_loc = 0, b.ret \in Int,
         NEW base \in Seq(Byte), NEW front \in Seq(Byte), Data(b.buf) = front \o base,
         NEW loc \in Nat, loc <= Size(b), Len(base) + 4 <= loc
  PROVE  Points(b, PointToVtable(b, loc), loc, base)
<1>. DEFINE c == PointToVtable(b, loc)
            bytes == Bytes(b.ret - loc, 4)
            v == [b.buf EXCEPT !.buf = WriteAt(b.buf.buf, DataAt(b.buf, loc), bytes)]
            size == b.buf.size
            s == Data(b.buf)
            t == Data(v)
<1>0. /\ Fine(b) /\ Good(b.buf, Cell) /\ s \in Seq(Byte)
      /\ Size(b) \in Nat /\ size = Size(b) /\ Len(s) = size
  BY SizeFacts DEF Sound, Fine, Size
<1>1. bytes \in Seq(Byte) /\ Len(bytes) = 4
  <2>. DEFINE d == b.ret - loc
  <2>1. d \in Int /\ 4 \in 0 .. 4
    OBVIOUS
  <2>. HIDE DEF d
  <2>2. Bytes(d, 4) \in Seq(Byte) /\ Len(Bytes(d, 4)) = 4
    BY <2>1, FourBytes
  <2>. QED
    BY <2>2 DEF d
<1>2. c = [b EXCEPT !.buf = v, !.nested = FALSE, !.ret = loc]
  BY <1>0 DEF PointToVtable, Fine, Good
<1>. HIDE DEF bytes
<1>3. /\ Good(v, Cell) /\ Scratch(v) = Scratch(b.buf) /\ v.size = size
      /\ \A k \in 1 .. size :
           t[k] = IF k \in size - loc + 1 .. size - loc + Len(bytes)
                  THEN bytes[k - (size - loc)] ELSE s[k]
  <2>1. bytes \in Seq(Cell)
    BY <1>1, BytesAreCells
  <2>2. Len(bytes) <= loc /\ loc <= b.buf.size
    <3>1. Len(base) \in Nat
      BY LenProperties
    <3>. QED
      BY <1>0, <1>1, <3>1
  <2>3. Undefined \in Cell
    BY Cells
  <2>. DEFINE w == v
  <2>4. w = [b.buf EXCEPT !.buf = WriteAt(b.buf.buf, DataAt(b.buf, loc), bytes)]
    OBVIOUS
  <2>. HIDE DEF w
  <2>5. Good(b.buf, Cell) /\ loc \in Nat
    BY <1>0
  <2>6. Overwrites(b.buf, w, loc, bytes, Cell)
    BY <2>1, <2>2, <2>3, <2>4, <2>5, Overwritten
  <2>. QED
    BY <2>6 DEF w, Overwrites
<1>. HIDE DEF v, c, size, s, t
<1>4. /\ size \in Nat /\ Len(s) = size /\ \A k \in 1 .. size : s[k] \in Byte
      /\ \A j \in 1 .. 4 : bytes[j] \in Byte
  BY <1>0, <1>1, ElementOfSeq
<1>5. t \in Seq(Byte) /\ Len(t) = size
  <2>1. t \in Seq(Cell) /\ Len(t) = size
    BY <1>3, Cells, GoodStacks DEF t
  <2>2. ASSUME NEW k \in 1 .. size
        PROVE  t[k] \in Byte
    <3>1. CASE k \in size - loc + 1 .. size - loc + 4
      <4>1. k - (size - loc) \in 1 .. 4
        BY <1>4, <3>1
      <4>. QED
        BY <1>1, <1>3, <1>4, <3>1, <4>1
    <3>2. CASE k \notin size - loc + 1 .. size - loc + 4
      BY <1>1, <1>3, <1>4, <3>2
    <3>. QED
      BY <3>1, <3>2
  <2>3. t \in [1 .. size -> Cell]
    BY <2>1, LenProperties
  <2>4. t \in [1 .. size -> Byte]
    BY <2>2, <2>3
  <2>. QED
    BY <1>4, <2>4, SeqDef, LenProperties
<1>6. \E x \in Seq(Byte) : t = x \o base
  <2>. DEFINE n == Len(base)
              m == Len(front)
  <2>1. /\ m \in Nat /\ n \in Nat /\ size = m + n
        /\ \A i \in 1 .. n : s[m + i] = base[i]
    <3>1. /\ Len(front \o base) = Len(front) + Len(base)
          /\ \A i \in 1 .. Len(base) : (front \o base)[Len(front) + i] = base[i]
      BY Joined
    <3>2. s = front \o base
      BY DEF s
    <3>. QED
      BY <1>4, <3>1, <3>2, LenProperties
  <2>2. n + 4 <= loc
    OBVIOUS
  <2>. HIDE DEF n, m
  <2>3. ASSUME NEW i \in 1 .. n
        PROVE  t[size - n + i] = base[i]
    <3>1. /\ size - n + i \in 1 .. size /\ size - n + i = m + i
          /\ ~(size - n + i <= size - loc + 4)
      BY <2>1, <2>2
    <3>2. t[size - n + i] = s[size - n + i]
      BY <1>1, <1>3, <1>4, <3>1
    <3>. QED
      BY <2>1, <3>1, <3>2
  <2>4. n <= size
    BY <2>1
  <2>5. Len(base) <= Len(t) /\ \A i \in 1 .. Len(base) : t[Len(t) - Len(base) + i] = base[i]
    BY <1>5, <2>3, <2>4 DEF n
  <2>6. t \in Seq(Byte) /\ base \in Seq(Byte)
    BY <1>5
  <2>7. EndsWith(t, base)
    BY <2>5, <2>6, EndingWith
  <2>. QED
    BY <2>7 DEF EndsWith
<1>8. /\ Fine(c) /\ c.buf = v /\ c.num_field_loc = 0 /\ c.nested = FALSE
      /\ c.finished = b.finished /\ c.ret = loc /\ c.ok = b.ok
      /\ c.string_pool = b.string_pool
  <2>1. Fine(b) /\ Good(v, Cell) /\ Data(v) \in Seq(Byte) /\ loc \in Int
    BY <1>0, <1>3, <1>5 DEF t
  <2>. QED
    <3>1. Pointed(b, c, v, loc)
      BY <1>2, <2>1, PointedRecord
    <3>. QED
      BY <3>1 DEF Pointed
<1>10. Size(c) = Size(b)
  BY <1>0, <1>3, <1>8 DEF Size
<1>11. Tracked(c)
  BY <1>3, <1>8 DEF Sound, Tracked
<1>12. Sound(c)
  BY <1>8, <1>10, <1>11 DEF Sound
<1>13. \E x \in Seq(Byte) : Data(c.buf) = x \o base
  BY <1>6, <1>8 DEF t
<1>. QED
  BY <1>8, <1>10, <1>12, <1>13 DEF c, Points

\* From b to c a table has been written, and none is open.
Ends(b, c) ==
  /\ Sound(c) /\ c.num_field_loc = 0 /\ c.nested = FALSE /\ c.finished = b.finished
  /\ c.ret \in 1 .. Size(c)
  /\ \E bytes \in Seq(Byte) : Data(c.buf) = bytes \o Data(b.buf)

LEMMA EndTableEnds ==
  ASSUME NEW b, Sound(b), b.nested = TRUE, NEW names, FieldsIn(b, names), NEW start \in Int
  PROVE  Ends(b, EndTable(b, start))
<1>. DEFINE p == PushElement(b, 0, 4)
            loc == p.ret
            w == WriteVtable(p, start, loc)
            x == ClearOffsets(w)
            y == UseVtable(x, loc)
            z == PointToVtable(y, loc)
            base == Data(b.buf)
            below == Data(p.buf)
<1>0. Fine(b)
  BY DEF Sound
<1>1. EndTable(b, start) = z
  <2>1. Asserting(b, b.nested) = b
    BY <1>0, AssertingHolds
  <2>. QED
    BY <2>1 DEF EndTable, EndPlaced, EndTableAt
<1>2. Grown(b, p) /\ loc = Size(p) /\ Size(b) + 4 <= Size(p)
  <2>1. 0 \in Int /\ 4 \in 1 .. 4
    OBVIOUS
  <2>2. Grown(b, p) /\ p.ret = Size(p) /\ Size(b) + 4 <= Size(p)
    BY <1>0, <2>1, PushElementGrows
  <2>. QED
    BY <2>2
<1>. HIDE DEF p
<1>3. Sound(p) /\ Fine(p) /\ FieldsIn(p, names) /\ Size(b) \in Nat /\ loc \in Nat /\ loc \in Int
  <2>1. Sound(p) /\ Fine(p)
    BY <1>2, GrownExtends DEF Extends, Sound
  <2>2. FieldsIn(p, names)
    BY <1>2, GrownFields
  <2>3. Size(b) \in Nat /\ Size(p) \in Nat
    BY <1>0, <2>1, SizeFacts
  <2>. QED
    BY <1>2, <2>1, <2>2, <2>3
<1>. HIDE DEF loc
<1>4. Grown(p, w)
  BY <1>3, WriteVtableGrows
<1>. HIDE DEF w
<1>5. Sound(w)
  BY <1>3, <1>4, GrownExtends DEF Extends
<1>6. /\ Sound(x) /\ Data(x.buf) = Data(w.buf) /\ Scratch(x.buf) \in Seq(Byte)
      /\ x.num_field_loc = 0
      /\ x.nested = w.nested /\ x.finished = w.finished
      /\ x.string_pool = w.string_pool
  BY <1>5, ClearOffsetsSound
<1>. HIDE DEF x
<1>7. base \in Seq(Byte) /\ below \in Seq(Byte) /\ Len(base) = Size(b) /\ Len(below) = loc
  <2>1. base \in Seq(Byte) /\ below \in Seq(Byte)
    BY <1>0, <1>3 DEF Fine
  <2>2. Len(base) = Size(b) /\ Len(below) = Size(p)
    BY <1>0, <1>3, SizeFacts
  <2>. QED
    BY <1>2, <2>1, <2>2
<1>8. PICK head \in Seq(Byte) : below = head \o base
  BY <1>2 DEF Grown
<1>9. PICK slots \in Seq(Byte) : Data(w.buf) = slots \o below
  BY <1>4 DEF Grown
<1>10. x.string_pool \subseteq 1 .. loc /\ x.finished = b.finished
  <2>1. x.string_pool = p.string_pool
    BY <1>4, <1>6 DEF Grown
  <2>2. x.finished = b.finished
    BY <1>2, <1>4, <1>6 DEF Grown
  <2>. QED
    BY <1>2, <1>3, <2>1, <2>2 DEF Sound
<1>. HIDE DEF base, below
<1>11. /\ Sound(y) /\ y.ret \in Int /\ y.num_field_loc = 0
       /\ \E bytes \in Seq(Byte) : Data(y.buf) = bytes \o below
       /\ y.finished = x.finished
  <2>1. Data(x.buf) = slots \o below
    BY <1>6, <1>9
  <2>2. loc = Len(below) /\ below \in Seq(Byte) /\ Sound(x) /\ x.num_field_loc = 0
        /\ Scratch(x.buf) \in Seq(Byte) /\ slots \in Seq(Byte) /\ x.string_pool \subseteq 1 .. loc
    BY <1>6, <1>7, <1>10
  <2>3. Uses(x, UseVtable(x, loc), below)
    BY <2>1, <2>2, UseVtableSound
  <2>. QED
    BY <2>3 DEF Uses
<1>. HIDE DEF y
<1>12. PICK used \in Seq(Byte) : Data(y.buf) = used \o below
  BY <1>11
<1>13. loc <= Size(y) /\ Size(y) \in Nat
  <2>1. Fine(y)
    BY <1>11 DEF Sound
  <2>2. Size(y) \in Nat /\ Len(Data(y.buf)) = Size(y)
    BY <2>1, SizeFacts
  <2>3. Len(used \o below) = Len(used) + Len(below) /\ Len(used) \in Nat
    BY <1>7, ConcatProperties, LenProperties
  <2>. QED
    BY <1>3, <1>7, <1>12, <2>2, <2>3
<1>14. used \o head \in Seq(Byte) /\ Data(y.buf) = (used \o head) \o base
  <2>1. used \o head \in Seq(Byte)
    BY ConcatProperties
  <2>2. (used \o head) \o base = used \o (head \o base)
    <3>1. used \in Seq(Byte) /\ head \in Seq(Byte) /\ base \in Seq(Byte)
      BY <1>7
    <3>. QED
      BY <3>1, ConcatAssociative
  <2>. QED
    BY <1>8, <1>12, <2>1, <2>2
<1>15. /\ Sound(z) /\ z.num_field_loc = 0 /\ z.nested = FALSE /\ z.ret = loc
       /\ z.finished = y.finished /\ Size(z) = Size(y)
       /\ \E bytes \in Seq(Byte) : Data(z.buf) = bytes \o base
  <2>1. Len(base) + 4 <= loc
    BY <1>2, <1>7
  <2>2. Sound(y) /\ y.num_field_loc = 0 /\ y.ret \in Int
    BY <1>11
  <2>. DEFINE front == used \o head
  <2>3. front \in Seq(Byte) /\ base \in Seq(Byte) /\ Data(y.buf) = front \o base
        /\ loc \in Nat /\ loc <= Size(y)
    BY <1>3, <1>7, <1>13, <1>14
  <2>. HIDE DEF front
  <2>4. Points(y, PointToVtable(y, loc), loc, base)
    BY <2>1, <2>2, <2>3, PointToVtableSound
  <2>. QED
    BY <2>4 DEF Points
<1>. HIDE DEF z
<1>16. z.ret \in 1 .. Size(z) /\ z.finished = b.finished
  <2>1. loc >= 1
    BY <1>2, <1>3
  <2>. QED
    BY <1>3, <1>10, <1>11, <1>13, <1>15, <2>1
<1>17. Ends(b, z)
  BY <1>15, <1>16 DEF Ends, base
<1>. QED
  BY <1>1, <1>17

----------------------------------------------------------------------------
(* The whole buffer.                                                       *)

LEMMA ScratchClearedExtends ==
  ASSUME NEW b, Sound(b), b.num_field_loc = 0, NEW c, c = WithBuf(b, ClearScratch(b.buf))
  PROVE  Extends(b, c)
<1>. DEFINE v == ClearScratch(b.buf)
<1>1. Fine(b) /\ Good(b.buf, Cell) /\ Data(b.buf) \in Seq(Byte)
  BY DEF Sound, Fine
<1>2. Good(v, Cell) /\ Scratch(v) = <<>> /\ Data(v) = Data(b.buf)
  BY <1>1, Cells, ScratchCleared
<1>3. c = WithBuf(b, v)
  OBVIOUS
<1>. HIDE DEF v
<1>4. /\ Fine(c) /\ c.buf = v
      /\ c.num_field_loc = 0
      /\ c.nested = b.nested /\ c.finished = b.finished
      /\ c.string_pool = b.string_pool /\ c.ok = b.ok
  <2>1. Good(v, Cell) /\ Data(v) \in Seq(Byte)
    BY <1>1, <1>2
  <2>. QED
    BY <1>1, <1>3, <2>1, FineWithBuf
<1>5. Tracked(c)
  BY <1>2, <1>4 DEF Tracked, FieldLocSize
<1>6. Size(c) = Size(b)
  BY <1>1, <1>2, <1>4, SizeFacts
<1>7. Sound(c)
  BY <1>4, <1>5, <1>6 DEF Sound
<1>8. <<>> \in Seq(Byte) /\ Data(c.buf) = <<>> \o Data(b.buf)
  BY <1>1, <1>2, <1>4, EmptySeq, ConcatEmptySeq
<1>. QED
  BY <1>4, <1>7, <1>8 DEF Extends

LEMMA ExtendsOn ==
  ASSUME NEW a, NEW b, NEW c, Fine(a), Extends(a, b), Grown(b, c)
  PROVE  Extends(a, c)
<1>1. PICK x \in Seq(Byte) : Data(b.buf) = x \o Data(a.buf)
  BY DEF Extends
<1>2. PICK y \in Seq(Byte) : Data(c.buf) = y \o Data(b.buf)
  BY DEF Grown
<1>3. y \o x \in Seq(Byte)
  BY ConcatProperties
<1>4. Data(c.buf) = (y \o x) \o Data(a.buf)
  <2>1. Data(a.buf) \in Seq(Byte)
    BY DEF Fine
  <2>. QED
    BY <1>1, <1>2, <2>1, ConcatAssociative
<1>5. Sound(b)
  BY DEF Extends
<1>6. Extends(b, c)
  BY <1>5, GrownExtends
<1>. QED
  BY <1>3, <1>4, <1>6 DEF Extends

FinishedBuilder(b) == [b EXCEPT !.finished = TRUE]

\* From b to c the buffer has been finished.
Finishes(b, c) ==
  /\ Sound(c) /\ c.num_field_loc = 0 /\ ~c.nested /\ c.finished = TRUE
  /\ \E bytes \in Seq(Byte) : Data(c.buf) = bytes \o Data(b.buf)

LEMMA FinishedSound ==
  ASSUME NEW b, NEW e, Extends(b, e), b.num_field_loc = 0, ~b.nested,
         NEW c, c = FinishedBuilder(e)
  PROVE  Finishes(b, c)
<1>1. Fine(e) /\ Sound(e)
  BY DEF Extends, Sound
<1>2. /\ c \in [buf : {e.buf}, num_field_loc : Nat, max_voffset : Nat, nested : BOOLEAN,
                finished : BOOLEAN, minalign : Nat \ {0}, string_pool : SUBSET Nat, ret : Int,
                ok : BOOLEAN]
      /\ c.buf = e.buf /\ c.num_field_loc = e.num_field_loc /\ c.nested = e.nested
      /\ c.string_pool = e.string_pool /\ c.ok = e.ok /\ c.finished = TRUE
  BY <1>1 DEF Fine, FinishedBuilder
<1>3. Fine(c)
  BY <1>1, <1>2 DEF Fine
<1>4. Sound(c)
  BY <1>1, <1>2, <1>3 DEF Sound, Tracked, Size
<1>. QED
  BY <1>2, <1>4 DEF Extends, Finishes

LEMMA FinishFinishes ==
  ASSUME NEW b, Sound(b), b.num_field_loc = 0, ~b.nested, NEW root \in 1 .. Size(b)
  PROVE  Finishes(b, Finish(b, root))
<1>. DEFINE d == WithBuf(b, ClearScratch(b.buf))
            f == PreAlign(d, 4 + Len(<<>>), b.minalign)
            g == PushBytes(f, <<>>)
            h == PushOffset(g, root)
<1>0. Fine(b) /\ b.minalign \in Nat \ {0}
  BY DEF Sound, Fine
<1>1. Finish(b, root) = FinishedBuilder(h)
  <2>1. NotNested(b) = b
    BY <1>0, NotNestedHolds
  <2>. QED
    BY <2>1 DEF Finish, FinishWith, FinishAligned, FrontAligned, Prefixed, WithBuf,
                FinishedBuilder
<1>2. Extends(b, d)
  BY ScratchClearedExtends
<1>. HIDE DEF d
<1>3. Fine(d)
  BY <1>2 DEF Extends, Sound
<1>4. Grown(d, f)
  <2>1. 4 + Len(<<>>) \in Nat
    OBVIOUS
  <2>. QED
    BY <1>0, <1>3, <2>1, PreAlignGrows
<1>. HIDE DEF f
<1>5. Fine(f)
  BY <1>4 DEF Grown
<1>6. Grown(f, g)
  BY <1>5, EmptySeq, PushBytesGrows
<1>. HIDE DEF g
<1>7. Extends(b, f)
  BY <1>0, <1>2, <1>4, ExtendsOn
<1>8. Extends(b, g)
  BY <1>0, <1>6, <1>7, ExtendsOn
<1>9. Fine(g) /\ root \in 1 .. Size(g)
  <2>1. Fine(g) /\ Size(b) \in Nat /\ Size(g) \in Nat /\ Size(b) <= Size(g)
    BY <1>0, <1>8, ExtendsSize DEF Extends, Sound
  <2>. QED
    BY <2>1
<1>10. Grown(g, h)
  BY <1>9, PushOffsetGrows
<1>. HIDE DEF h
<1>11. Extends(b, h)
  BY <1>0, <1>8, <1>10, ExtendsOn
<1>12. Finishes(b, FinishedBuilder(h))
  BY <1>11, FinishedSound
<1>. QED
  BY <1>1, <1>12

\* A builder with nothing in it, but for memory.
Fresh(c) ==
  /\ Sound(c) /\ c.num_field_loc = 0 /\ ~c.nested /\ ~c.finished /\ Data(c.buf) = <<>>
  /\ c.max_voffset = 0 /\ c.string_pool = {} /\ Scratch(c.buf) = <<>>

LEMMA FreshRecord ==
  ASSUME NEW v, Good(v, Cell), Scratch(v) = <<>>, Data(v) = <<>>, NEW ret \in Int,
         NEW c,
         c \in [buf : {v}, num_field_loc : {0}, max_voffset : {0}, nested : {FALSE},
                finished : {FALSE}, minalign : {1}, string_pool : {{}}, ret : {ret},
                ok : {TRUE}]
  PROVE  Fresh(c)
<1>1. /\ c.buf = v /\ c.num_field_loc = 0 /\ c.nested = FALSE /\ c.finished = FALSE
      /\ c.string_pool = {} /\ c.ok = TRUE /\ c.max_voffset = 0
  OBVIOUS
<1>2. c \in [buf : {c.buf}, num_field_loc : Nat, max_voffset : Nat, nested : BOOLEAN,
             finished : BOOLEAN, minalign : Nat \ {0}, string_pool : SUBSET Nat, ret : Int,
             ok : BOOLEAN]
  <2>1. /\ 0 \in Nat /\ FALSE \in BOOLEAN /\ TRUE \in BOOLEAN /\ 1 \in Nat \ {0}
        /\ c.ret \in Int
    OBVIOUS
  <2>2. {} \in SUBSET Nat
    OBVIOUS
  <2>3. c \in [buf : {c.buf}, num_field_loc : {0}, max_voffset : {0}, nested : {FALSE},
               finished : {FALSE}, minalign : {1}, string_pool : {{}}, ret : {c.ret},
               ok : {TRUE}]
    BY <1>1
  <2>. DEFINE none == {{}}
  <2>4. none \subseteq SUBSET Nat
    BY <2>2
  <2>. HIDE DEF none
  <2>5. c \in [buf : {c.buf}, num_field_loc : Nat, max_voffset : Nat, nested : BOOLEAN,
               finished : BOOLEAN, minalign : Nat \ {0}, string_pool : none, ret : Int,
               ok : BOOLEAN]
    BY <2>1, <2>3 DEF none
  <2>. QED
    BY <2>4, <2>5
<1>3. Fine(c)
  BY <1>1, <1>2, EmptySeq DEF Fine
<1>4. Tracked(c)
  <2>1. c.buf = v /\ c.num_field_loc = 0
    BY <1>1
  <2>2. Scratch(c.buf) = <<>>
    BY <2>1
  <2>3. Len(<<>>) = 0
    OBVIOUS
  <2>. QED
    BY <2>1, <2>2, <2>3 DEF Tracked, FieldLocSize
<1>5. Sound(c)
  BY <1>1, <1>3, <1>4 DEF Sound
<1>. QED
  BY <1>1, <1>5 DEF Fresh

LEMMA NewBuilderFresh == Fresh(NewBuilder)
<1>. DEFINE e == Empty
            c == NewBuilder
<1>1. Good(e, Cell) /\ Scratch(e) = <<>> /\ Data(e) = <<>>
  BY EmptyGood
<1>2. c \in [buf : {e}, num_field_loc : {0}, max_voffset : {0}, nested : {FALSE},
             finished : {FALSE}, minalign : {1}, string_pool : {{}}, ret : {0}, ok : {TRUE}]
  BY DEF NewBuilder
<1>3. 0 \in Int
  OBVIOUS
<1>. HIDE DEF e, c
<1>4. Fresh(c)
  BY <1>1, <1>2, <1>3, FreshRecord
<1>. QED
  BY <1>4 DEF c

\* Clearing a builder, even in the middle of a table.
LEMMA ClearBuilderFresh ==
  ASSUME NEW b, Sound(b)
  PROVE  Fresh(ClearBuilder(b)) /\ Fresh(ResetBuilder(b))
<1>. DEFINE x == ClearOffsets(b)
            y == ClearBuilder(b)
            z == ResetBuilder(b)
            v == Clear(x.buf)
            w == Reset(v)
<1>1. Sound(x) /\ x.num_field_loc = 0 /\ x.max_voffset = 0
  BY ClearOffsetsSound
<1>2. /\ y = [x EXCEPT !.buf = v, !.nested = FALSE, !.finished = FALSE, !.minalign = 1,
                       !.string_pool = {}]
      /\ z = [y EXCEPT !.buf = Reset(y.buf)]
  BY <1>1 DEF ClearBuilder, ResetBuilder, Sound, Fine
<1>. HIDE DEF x, y, z, v, w
<1>3. Fine(x) /\ x.ok = TRUE /\ x.ret \in Int /\ Good(x.buf, Cell)
  BY <1>1 DEF Sound, Fine
<1>4. Good(v, Cell) /\ Scratch(v) = <<>> /\ Data(v) = <<>>
  BY <1>3, Cells, Cleared DEF v
<1>5. Good(w, Cell) /\ Scratch(w) = <<>> /\ Data(w) = <<>>
  BY <1>4, Cells, WasReset DEF w
<1>6. y \in [buf : {v}, num_field_loc : {0}, max_voffset : {0}, nested : {FALSE},
             finished : {FALSE}, minalign : {1}, string_pool : {{}}, ret : {x.ret}, ok : {TRUE}]
  BY <1>1, <1>2, <1>3 DEF Fine
<1>7. z \in [buf : {w}, num_field_loc : {0}, max_voffset : {0}, nested : {FALSE},
             finished : {FALSE}, minalign : {1}, string_pool : {{}}, ret : {x.ret}, ok : {TRUE}]
  BY <1>2, <1>6 DEF w
<1>8. Fresh(y)
  BY <1>3, <1>4, <1>6, FreshRecord
<1>9. Fresh(z)
  BY <1>3, <1>5, <1>7, FreshRecord
<1>. QED
  BY <1>8, <1>9 DEF y, z

----------------------------------------------------------------------------
(* The invariant.                                                          *)

\* What the objects are built of.
LEMMA Contents ==
  /\ Undefined \notin Byte /\ Texts \subseteq Seq(Byte) /\ Structs \subseteq Seq(Byte)
  /\ Numbers \subseteq Int /\ Ids \subseteq Int
  /\ \A type \in DOMAIN Vectors :
       Widths[type] \in Nat \ {0} /\ Vectors[type] \subseteq Seq(Seq(Byte))
<1>1. Numbers \subseteq Int /\ Ids \subseteq Int
  BY MessageAssumption DEF IsInt32
<1>2. ASSUME NEW type \in DOMAIN Vectors
      PROVE  Widths[type] \in Nat \ {0} /\ Vectors[type] \subseteq Seq(Seq(Byte))
  <2>. DEFINE width == Widths[type]
  <2>1. width \in {1, 2, 4, 8} /\ Vectors[type] \subseteq Seq([1 .. width -> Byte])
    BY MessageAssumption
  <2>2. width \in Nat \ {0}
    BY <2>1
  <2>. HIDE DEF width
  <2>3. [1 .. width -> Byte] \subseteq Seq(Byte)
    BY <2>2, SeqDef
  <2>4. ASSUME NEW S, NEW R, S \subseteq R, NEW s \in Seq(S)
        PROVE  s \in Seq(R)
    <3>1. Len(s) \in Nat /\ s \in [1 .. Len(s) -> S]
      BY LenProperties
    <3>2. s \in [1 .. Len(s) -> R]
      BY <2>4, <3>1
    <3>. QED
      BY <3>1, <3>2, SeqDef
  <2>. QED
    BY <2>1, <2>2, <2>3, <2>4 DEF width
<1>. QED
  BY <1>1, <1>2, MessageAssumption

Names(is) == {Voffset(i) : i \in is}

Opens(o) ==
  o \in [started : {TRUE}, type : DOMAIN Schema, start : Int, added : SUBSET (DOMAIN Schema[o.type]),
         value : {o.value}]

\* Between two operations a builder is sound, everything built is in it, and
\* a table is open exactly when the builder thinks so; the fields in the
\* scratch pad are those that have been added to that table.
BuildInv ==
  /\ Sound(bld)
  /\ \A o \in objects : o.off \in 1 .. Size(bld)
  /\ \/ open = NoTable /\ ~bld.nested /\ bld.num_field_loc = 0
     \/ /\ Opens(open) /\ bld.nested = TRUE /\ ~bld.finished
        /\ FieldsIn(bld, Names(open.added))

\* Every field has a place of its own.
LEMMA Voffsets ==
  ASSUME NEW is, is \subseteq Int, NEW i \in Int, i \notin is
  PROVE  Voffset(i) \notin Names(is) /\ Names(is \cup {i}) = Names(is) \cup {Voffset(i)}
<1>1. \A j \in Int : Voffset(j) = 4 + 2 * (j - 1)
  BY DEF Voffset, FieldIndexToOffset
<1>2. \A j \in is : Voffset(j) # Voffset(i)
  BY <1>1
<1>. QED
  BY <1>2 DEF Names

LEMMA Fields ==
  ASSUME NEW T \in DOMAIN Schema, NEW i \in DOMAIN Schema[T]
  PROVE  /\ i \in Nat /\ IsVoffset(Voffset(i))
         /\ Schema[T][i].kind = "scalar" => Schema[T][i].width \in 1 .. 4
         /\ Schema[T][i].kind = "struct" => Schema[T][i].align \in Nat \ {0}
<1>1. /\ i \in Nat \ {0} /\ IsVoffset(Voffset(i) + 2)
      /\ Schema[T][i].kind = "scalar" => Schema[T][i].width \in {1, 4}
      /\ Schema[T][i].kind = "struct" => Schema[T][i].align \in Nat \ {0}
  BY TablesAssumption
<1>2. IsVoffset(Voffset(i))
  BY <1>1 DEF IsVoffset, Voffset, FieldIndexToOffset
<1>. QED
  BY <1>1, <1>2

\* From b to c an object has been added to the table that is open.
AddsOne(b, c, names, field) == Adds(b, c) /\ FieldsIn(c, names \cup {field})

\* What a field is set to is a number, bytes, or an object that is there.
Fits(b, f, value) ==
  /\ f.kind = "scalar" => value \in Int
  /\ f.kind = "struct" => value \in Seq(Byte)
  /\ f.kind \notin {"scalar", "struct"} => value \in 1 .. Size(b)

LEMMA AddOneField ==
  ASSUME NEW b, Sound(b), NEW names, FieldsIn(b, names),
         NEW T \in DOMAIN Schema, NEW i \in DOMAIN Schema[T], Voffset(i) \notin names,
         NEW value, Fits(b, Schema[T][i], value)
  PROVE  AddsOne(b, AddTo(b, Schema[T][i], Voffset(i), value), names, Voffset(i))
<1>. DEFINE f == Schema[T][i]
            field == Voffset(i)
            c == AddTo(b, f, field, value)
<1>1. /\ IsVoffset(field) /\ field \notin names
      /\ f.kind = "scalar" => f.width \in 1 .. 4
      /\ f.kind = "struct" => f.align \in Nat \ {0}
  BY Fields
<1>2. /\ f.kind = "scalar" => value \in Int
      /\ f.kind = "struct" => value \in Seq(Byte)
      /\ f.kind \notin {"scalar", "struct"} => value \in 1 .. Size(b)
  BY DEF Fits
<1>3. /\ f.kind = "scalar" => c = AddElement(b, field, value, f.width, 0)
      /\ f.kind = "struct" => c = AddStruct(b, field, value, f.align)
      /\ f.kind \notin {"scalar", "struct"} => c = AddOffset(b, field, value)
  BY DEF AddTo
<1>. HIDE DEF f, field, c
<1>4. f.kind = "scalar" => AddsOne(b, c, names, field)
  <2>. SUFFICES ASSUME f.kind = "scalar" PROVE AddsOne(b, c, names, field)
    OBVIOUS
  <2>. DEFINE width == f.width
  <2>1. /\ width \in 1 .. 4 /\ value \in Int /\ IsVoffset(field) /\ field \notin names
        /\ c = AddElement(b, field, value, width, 0)
    BY <1>1, <1>2, <1>3
  <2>. HIDE DEF width
  <2>2. /\ Adds(b, AddElement(b, field, value, width, 0))
        /\ FieldsIn(AddElement(b, field, value, width, 0), names \cup {field})
    BY <2>1, AddElementAdds
  <2>. QED
    BY <2>1, <2>2 DEF AddsOne
<1>5. f.kind = "struct" => AddsOne(b, c, names, field)
  <2>. SUFFICES ASSUME f.kind = "struct" PROVE AddsOne(b, c, names, field)
    OBVIOUS
  <2>. DEFINE align == f.align
  <2>1. /\ align \in Nat \ {0} /\ value \in Seq(Byte) /\ IsVoffset(field) /\ field \notin names
        /\ c = AddStruct(b, field, value, align)
    BY <1>1, <1>2, <1>3
  <2>. HIDE DEF align
  <2>2. /\ Adds(b, AddStruct(b, field, value, align))
        /\ FieldsIn(AddStruct(b, field, value, align), names \cup {field})
    BY <2>1, AddStructAdds
  <2>. QED
    BY <2>1, <2>2 DEF AddsOne
<1>6. f.kind \notin {"scalar", "struct"} => AddsOne(b, c, names, field)
  BY <1>1, <1>2, <1>3, AddOffsetAdds DEF AddsOne
<1>7. AddsOne(b, c, names, field)
  BY <1>4, <1>5, <1>6
<1>. QED
  BY <1>7 DEF f, field, c

LEMMA AddsSize ==
  ASSUME NEW b, NEW c, Sound(b), Adds(b, c)
  PROVE  Size(b) \in Nat /\ Size(c) \in Nat /\ 1 .. Size(b) \subseteq 1 .. Size(c)
<1>1. PICK x \in Seq(Byte) : Data(c.buf) = x \o Data(b.buf)
  BY DEF Adds
<1>2. Fine(b) /\ Fine(c)
  BY DEF Adds, Sound
<1>3. Len(x) \in Nat /\ Len(Data(c.buf)) = Len(x) + Len(Data(b.buf))
  BY <1>1, <1>2, ConcatProperties, LenProperties DEF Fine
<1>4. Size(b) \in Nat /\ Size(c) \in Nat /\ Size(b) <= Size(c)
  BY <1>2, <1>3, SizeFacts
<1>. QED
  BY <1>4

LEMMA AddsOn ==
  ASSUME NEW a, NEW b, NEW c, Sound(a), Adds(a, b), Adds(b, c)
  PROVE  Adds(a, c)
<1>1. PICK x \in Seq(Byte) : Data(b.buf) = x \o Data(a.buf)
  BY DEF Adds
<1>2. PICK y \in Seq(Byte) : Data(c.buf) = y \o Data(b.buf)
  BY DEF Adds
<1>3. y \o x \in Seq(Byte)
  BY ConcatProperties
<1>4. Data(c.buf) = (y \o x) \o Data(a.buf)
  <2>1. Data(a.buf) \in Seq(Byte)
    BY DEF Sound, Fine
  <2>. QED
    BY <1>1, <1>2, <2>1, ConcatAssociative
<1>. QED
  BY <1>3, <1>4 DEF Adds

LEMMA EndsSize ==
  ASSUME NEW b, NEW c, Sound(b), Ends(b, c)
  PROVE  Size(b) \in Nat /\ Size(c) \in Nat /\ 1 .. Size(b) \subseteq 1 .. Size(c)
<1>1. PICK x \in Seq(Byte) : Data(c.buf) = x \o Data(b.buf)
  BY DEF Ends
<1>2. Fine(b) /\ Fine(c)
  BY DEF Ends, Sound
<1>3. Len(x) \in Nat /\ Len(Data(c.buf)) = Len(x) + Len(Data(b.buf))
  BY <1>1, <1>2, ConcatProperties, LenProperties DEF Fine
<1>4. Size(b) \in Nat /\ Size(c) \in Nat /\ Size(b) <= Size(c)
  BY <1>2, <1>3, SizeFacts
<1>. QED
  BY <1>4

\* The envelope is put together around a message that is there, and finished.
LEMMA EnvelopeFinishes ==
  ASSUME NEW b, Sound(b), b.num_field_loc = 0, ~b.nested,
         NEW threadId \in Int, NEW id \in Int, NEW tag \in Int, NEW message \in 1 .. Size(b)
  PROVE  LET e == CreateMessageEnvelope(b, threadId, id, tag, message)
             c == FinishLast(e)
         IN  Sound(c) /\ c.num_field_loc = 0 /\ ~c.nested /\ c.finished = TRUE
             /\ 1 .. Size(b) \subseteq 1 .. Size(c)
<1>. DEFINE s == StartTable(b)
            f4 == AddOffset(s, Voffset(4), message)
            f2 == AddElement(f4, Voffset(2), id, 4, 0)
            f1 == AddElement(f2, Voffset(1), threadId, 4, 0)
            f3 == AddElement(f1, Voffset(3), tag, 1, 0)
            e == EndTable(f3, s.ret)
            c == FinishLast(e)
<1>1. /\ Sound(s) /\ s.nested = TRUE /\ s.ret \in Int /\ FieldsIn(s, Names({})) /\ s.buf = b.buf
  <2>1. Sound(s) /\ s.nested = TRUE /\ s.ret \in Nat /\ FieldsIn(s, {}) /\ s.buf = b.buf
    BY StartTableOpens
  <2>2. Names({}) = {}
    BY DEF Names
  <2>. HIDE DEF s
  <2>. QED
    BY <2>1, <2>2
<1>2. CreateMessageEnvelope(b, threadId, id, tag, message) = e
  BY DEF CreateMessageEnvelope, FillEnvelope, AddIds
<1>3. \A i \in {1, 2, 3, 4} : IsVoffset(Voffset(i))
  BY TablesAssumption, Fields
<1>. HIDE DEF s
<1>4. Adds(s, f4) /\ FieldsIn(f4, Names({4})) /\ Sound(f4)
  <2>1. Voffset(4) \notin Names({}) /\ Names({} \cup {4}) = Names({}) \cup {Voffset(4)}
    BY Voffsets
  <2>2. message \in 1 .. Size(s)
    BY <1>1 DEF Size
  <2>3. Adds(s, f4) /\ FieldsIn(f4, Names({}) \cup {Voffset(4)})
    BY <1>1, <1>3, <2>1, <2>2, AddOffsetAdds
  <2>4. {} \cup {4} = {4}
    OBVIOUS
  <2>. QED
    BY <2>1, <2>3, <2>4 DEF Adds
<1>. HIDE DEF f4
<1>5. Adds(f4, f2) /\ FieldsIn(f2, Names({4, 2})) /\ Sound(f2)
  <2>1. Voffset(2) \notin Names({4}) /\ Names({4} \cup {2}) = Names({4}) \cup {Voffset(2)}
    BY Voffsets
  <2>2. 4 \in 1 .. 4 /\ {4} \cup {2} = {4, 2}
    OBVIOUS
  <2>3. Adds(f4, f2) /\ FieldsIn(f2, Names({4}) \cup {Voffset(2)})
    BY <1>3, <1>4, <2>1, <2>2, AddElementAdds
  <2>. QED
    BY <2>1, <2>2, <2>3 DEF Adds
<1>. HIDE DEF f2
<1>6. Adds(f2, f1) /\ FieldsIn(f1, Names({4, 2, 1})) /\ Sound(f1)
  <2>1. Voffset(1) \notin Names({4, 2}) /\ Names({4, 2} \cup {1}) = Names({4, 2}) \cup {Voffset(1)}
    BY Voffsets
  <2>2. 4 \in 1 .. 4 /\ {4, 2} \cup {1} = {4, 2, 1}
    OBVIOUS
  <2>3. Adds(f2, f1) /\ FieldsIn(f1, Names({4, 2}) \cup {Voffset(1)})
    BY <1>3, <1>5, <2>1, <2>2, AddElementAdds
  <2>. QED
    BY <2>1, <2>2, <2>3 DEF Adds
<1>. HIDE DEF f1
<1>7. Adds(f1, f3) /\ FieldsIn(f3, Names({4, 2, 1, 3})) /\ Sound(f3)
  <2>1. /\ Voffset(3) \notin Names({4, 2, 1})
        /\ Names({4, 2, 1} \cup {3}) = Names({4, 2, 1}) \cup {Voffset(3)}
    BY Voffsets
  <2>2. 1 \in 1 .. 4 /\ {4, 2, 1} \cup {3} = {4, 2, 1, 3}
    OBVIOUS
  <2>3. Adds(f1, f3) /\ FieldsIn(f3, Names({4, 2, 1}) \cup {Voffset(3)})
    BY <1>3, <1>6, <2>1, <2>2, AddElementAdds
  <2>. QED
    BY <2>1, <2>2, <2>3 DEF Adds
<1>. HIDE DEF f3
<1>8. Adds(s, f3)
  BY <1>1, <1>4, <1>5, <1>6, <1>7, AddsOn
<1>9. f3.nested = TRUE /\ 1 .. Size(b) \subseteq 1 .. Size(f3)
  BY <1>1, <1>8, AddsSize DEF Adds, Size
<1>10. Ends(f3, e)
  BY <1>1, <1>7, <1>9, EndTableEnds
<1>. HIDE DEF e
<1>11. Sound(e) /\ e.num_field_loc = 0 /\ ~e.nested /\ e.ret \in 1 .. Size(e)
  BY <1>10 DEF Ends
<1>12. Finishes(e, c)
  BY <1>11, FinishFinishes DEF FinishLast
<1>. HIDE DEF c
<1>13. 1 .. Size(e) \subseteq 1 .. Size(c)
  <2>1. PICK x \in Seq(Byte) : Data(c.buf) = x \o Data(e.buf)
    BY <1>12 DEF Finishes
  <2>2. Fine(e) /\ Fine(c)
    BY <1>11, <1>12 DEF Finishes, Sound
  <2>3. Len(x) \in Nat /\ Len(Data(c.buf)) = Len(x) + Len(Data(e.buf))
    BY <2>1, <2>2, ConcatProperties, LenProperties DEF Fine
  <2>4. Size(e) \in Nat /\ Size(c) \in Nat /\ Size(e) <= Size(c)
    BY <2>2, <2>3, SizeFacts
  <2>. QED
    BY <2>4
<1>14. 1 .. Size(f3) \subseteq 1 .. Size(e)
  BY <1>7, <1>10, EndsSize
<1>. QED
  BY <1>2, <1>9, <1>12, <1>13, <1>14 DEF c, Finishes

LEMMA NewObject ==
  ASSUME BuildInv, NEW c, 1 .. Size(bld) \subseteq 1 .. Size(c), NEW o,
         o.off \in 1 .. Size(c), NEW new, new = objects \cup {o}
  PROVE  \A p \in new : p.off \in 1 .. Size(c)
BY DEF BuildInv

\* An object other than a table, built when no table is open.
LEMMA RecordKeeps ==
  ASSUME BuildInv, Idle, NEW c, Extends(bld, c), c.ret \in 1 .. Size(c),
         NEW kind, NEW type, NEW value, Record(c, kind, type, value), UNCHANGED open
  PROVE  BuildInv'
<1>1. Sound(c) /\ c.nested = bld.nested /\ c.num_field_loc = bld.num_field_loc
  BY DEF Extends
<1>2. Fine(bld) /\ 1 .. Size(bld) \subseteq 1 .. Size(c)
  <2>1. Fine(bld)
    BY DEF BuildInv, Sound
  <2>2. Size(bld) \in Nat /\ Size(c) \in Nat /\ Size(bld) <= Size(c)
    BY <2>1, ExtendsSize
  <2>. QED
    BY <2>1, <2>2
<1>3. open = NoTable /\ ~bld.nested /\ bld.num_field_loc = 0
  BY DEF BuildInv, Idle, Opens
<1>. DEFINE o == [off |-> c.ret, kind |-> kind, type |-> type, value |-> value]
<1>4. bld' = c /\ objects' = objects \cup {o} /\ open' = NoTable
  BY <1>3 DEF Record
<1>5. o.off \in 1 .. Size(c)
  OBVIOUS
<1>. HIDE DEF o
<1>6. \A p \in objects' : p.off \in 1 .. Size(c)
  BY <1>2, <1>4, <1>5, NewObject
<1>. QED
  BY <1>1, <1>3, <1>4, <1>6 DEF BuildInv

LEMMA IdleBuilder ==
  ASSUME BuildInv, Idle
  PROVE  /\ Sound(bld) /\ Fine(bld) /\ ~bld.nested /\ bld.num_field_loc = 0 /\ ~bld.finished
         /\ open = NoTable
BY DEF BuildInv, Idle, Sound, Opens

\* Where an object ends that is at the end of what has grown.
LEMMA GrownRet ==
  ASSUME NEW b, NEW c, Fine(b), Grown(b, c), c.ret = Size(c), Size(b) + 4 <= Size(c)
  PROVE  c.ret \in 1 .. Size(c)
<1>1. Size(b) \in Nat /\ Size(c) \in Nat
  BY GrownSize, SizeFacts
<1>. QED
  BY <1>1

LEMMA CreateTextKeeps ==
  ASSUME BuildInv, NEW str \in Texts, CreateText(str)
  PROVE  BuildInv'
<1>1. Idle /\ UNCHANGED open
  BY DEF CreateText
<1>2. str \in Seq(Byte)
  BY Contents
<1>3. Sound(bld) /\ Fine(bld) /\ ~bld.nested /\ bld.num_field_loc = 0
  BY <1>1, IdleBuilder
<1>4. CASE Record(CreateString(bld, str), "string", "", str)
  <2>. DEFINE c == CreateString(bld, str)
  <2>1. Grown(bld, c) /\ c.ret = Size(c) /\ Size(bld) + 4 <= Size(c)
    BY <1>2, <1>3, CreateStringGrows
  <2>. HIDE DEF c
  <2>2. Extends(bld, c) /\ c.ret \in 1 .. Size(c)
    BY <1>3, <2>1, GrownExtends, GrownRet
  <2>. QED
    BY <1>1, <1>4, <2>2, RecordKeeps DEF c
<1>5. CASE Record(CreateSharedString(bld, str), "string", "shared", str)
  <2>. DEFINE c == CreateSharedString(bld, str)
  <2>1. Extends(bld, c) /\ c.ret \in 1 .. Size(c)
    BY <1>2, <1>3, CreateSharedStringExtends
  <2>. HIDE DEF c
  <2>. QED
    BY <1>1, <1>5, <2>1, RecordKeeps DEF c
<1>. QED
  BY <1>4, <1>5 DEF CreateText

LEMMA CreateScalarsKeeps ==
  ASSUME BuildInv, NEW type \in DOMAIN Vectors, NEW elements \in Vectors[type],
         CreateScalars(type, elements)
  PROVE  BuildInv'
<1>. DEFINE width == Widths[type]
            c == CreateVector(bld, elements, width)
<1>1. Idle /\ UNCHANGED open /\ Record(c, "scalars", type, elements)
  BY DEF CreateScalars
<1>2. elements \in Seq(Seq(Byte)) /\ width \in Nat \ {0}
  BY Contents
<1>3. Sound(bld) /\ Fine(bld) /\ ~bld.nested /\ bld.num_field_loc = 0
  BY <1>1, IdleBuilder
<1>. HIDE DEF width
<1>4. Grown(bld, c) /\ c.ret = Size(c) /\ Size(bld) + 4 <= Size(c)
  BY <1>2, <1>3, CreateVectorGrows
<1>. HIDE DEF c
<1>5. Extends(bld, c) /\ c.ret \in 1 .. Size(c)
  BY <1>3, <1>4, GrownExtends, GrownRet
<1>. QED
  BY <1>1, <1>5, RecordKeeps

LEMMA CreateTablesKeeps ==
  ASSUME BuildInv, NEW T \in Types, CreateTables(T)
  PROVE  BuildInv'
<1>1. Idle /\ UNCHANGED open
  BY DEF CreateTables
<1>length. PICK n \in 0 .. MaxTables :
        \E offs \in [1 .. n -> OffsetsOf(T)] :
          Record(CreateVectorOfOffsets(bld, offs), "tables", T, offs)
  BY DEF CreateTables
<1>2. PICK offs \in [1 .. n -> OffsetsOf(T)] :
        Record(CreateVectorOfOffsets(bld, offs), "tables", T, offs)
  BY <1>length
<1>. DEFINE c == CreateVectorOfOffsets(bld, offs)
<1>3. Sound(bld) /\ Fine(bld) /\ ~bld.nested /\ bld.num_field_loc = 0
  BY <1>1, IdleBuilder
<1>4. offs \in Seq(1 .. Size(bld))
  <2>1. OffsetsOf(T) \subseteq 1 .. Size(bld)
    BY DEF OffsetsOf, BuildInv
  <2>2. n \in Nat
    BY MessageAssumption
  <2>3. offs \in [1 .. n -> 1 .. Size(bld)]
    BY <2>1
  <2>. QED
    BY <2>2, <2>3, SeqDef
<1>5. Grown(bld, c) /\ c.ret = Size(c) /\ Size(bld) + 4 <= Size(c)
  BY <1>3, <1>4, CreateVectorOfOffsetsGrows
<1>. HIDE DEF c
<1>6. Extends(bld, c) /\ c.ret \in 1 .. Size(c)
  BY <1>3, <1>5, GrownExtends, GrownRet
<1>. QED
  BY <1>1, <1>2, <1>6, RecordKeeps DEF c

LEMMA BeginKeeps ==
  ASSUME BuildInv, NEW T \in Types, Begin(T)
  PROVE  BuildInv'
<1>. DEFINE c == StartTable(bld)
            value == [i \in DOMAIN Schema[T] |-> Default(Schema[T][i])]
<1>1. /\ Idle /\ bld' = c /\ UNCHANGED objects
      /\ open' = [started |-> TRUE, type |-> T, start |-> c.ret, added |-> {}, value |-> value]
  BY DEF Begin
<1>2. Sound(bld) /\ ~bld.nested /\ bld.num_field_loc = 0 /\ ~bld.finished
  BY <1>1, IdleBuilder
<1>3. /\ Sound(c) /\ c.buf = bld.buf /\ c.nested = TRUE
      /\ c.finished = bld.finished /\ c.ret \in Nat /\ FieldsIn(c, {})
  BY <1>2, StartTableOpens
<1>. HIDE DEF c, value
<1>4. T \in DOMAIN Schema
  BY TablesAssumption
<1>5. Opens(open') /\ Names(open'.added) = {}
  BY <1>1, <1>3, <1>4 DEF Opens, Names
<1>6. \A o \in objects' : o.off \in 1 .. Size(c)
  BY <1>1, <1>3 DEF BuildInv, Size
<1>. QED
  BY <1>1, <1>2, <1>3, <1>5, <1>6 DEF BuildInv

LEMMA AddFieldKeeps ==
  ASSUME BuildInv, AddField
  PROVE  BuildInv'
<1>. DEFINE T == open.type
            names == Names(open.added)
<1>1. /\ Opens(open) /\ bld.nested = TRUE /\ ~bld.finished /\ FieldsIn(bld, names)
      /\ Sound(bld)
  BY DEF BuildInv, AddField, NoTable
<1>field. PICK i \in DOMAIN Schema[T] \ open.added :
        \E value \in FieldValues(Schema[T][i]) : Add(i, value)
  BY DEF AddField
<1>2. PICK value \in FieldValues(Schema[T][i]) : Add(i, value)
  BY <1>field
<1>. DEFINE f == Schema[T][i]
            c == AddTo(bld, f, Voffset(i), value)
            is == open.added
<1>3. /\ bld' = c /\ UNCHANGED objects
      /\ open' = [open EXCEPT !.added = @ \cup {i}, !.value[i] = value]
  BY <1>2 DEF Add
<1>4. T \in DOMAIN Schema /\ i \in DOMAIN Schema[T] /\ is \subseteq DOMAIN Schema[T] /\ i \notin is
      /\ open.start \in Int
  BY <1>1 DEF Opens
<1>5. i \in Int /\ is \subseteq Int
  BY <1>4, Fields
<1>6. Voffset(i) \notin names /\ Names(is \cup {i}) = names \cup {Voffset(i)}
  <2>. HIDE DEF is, T
  <2>1. Voffset(i) \notin Names(is) /\ Names(is \cup {i}) = Names(is) \cup {Voffset(i)}
    BY <1>4, <1>5, Voffsets
  <2>. QED
    BY <2>1 DEF is
<1>7. Fits(bld, f, value)
  <2>1. \A p \in objects : p.off \in 1 .. Size(bld)
    BY DEF BuildInv
  <2>2. Structs \subseteq Seq(Byte) /\ Numbers \subseteq Int
    BY Contents
  <2>. HIDE DEF f
  <2>3. value \in FieldValues(f)
    BY DEF f
  <2>. QED
    BY <2>1, <2>2, <2>3 DEF FieldValues, Fits
<1>8. AddsOne(bld, c, names, Voffset(i))
  <2>. HIDE DEF T, names
  <2>. QED
    BY <1>1, <1>4, <1>6, <1>7, AddOneField
<1>. HIDE DEF c
<1>9. /\ Sound(c) /\ c.nested = TRUE /\ ~c.finished
      /\ FieldsIn(c, names \cup {Voffset(i)}) /\ 1 .. Size(bld) \subseteq 1 .. Size(c)
  <2>1. Adds(bld, c)
    BY <1>8 DEF AddsOne
  <2>2. 1 .. Size(bld) \subseteq 1 .. Size(c)
    BY <1>1, <2>1, AddsSize
  <2>. QED
    BY <1>1, <1>8, <2>1, <2>2 DEF AddsOne, Adds
<1>10. Opens(open') /\ open'.added = is \cup {i}
  <2>. DEFINE w == [open.value EXCEPT ![i] = value]
  <2>1. open' \in [started : {TRUE}, type : {T}, start : {open.start}, added : {is \cup {i}},
                   value : {w}]
    BY <1>1, <1>3 DEF Opens
  <2>. HIDE DEF w, is, T
  <2>2. open'.type = T /\ open'.added = is \cup {i} /\ open'.value = w
    BY <2>1
  <2>3. is \cup {i} \in SUBSET (DOMAIN Schema[T])
    BY <1>4
  <2>. QED
    BY <1>4, <2>1, <2>2, <2>3 DEF Opens
<1>11. \A o \in objects' : o.off \in 1 .. Size(c)
  BY <1>3, <1>9 DEF BuildInv
<1>12. FieldsIn(c, Names(open'.added))
  BY <1>6, <1>9, <1>10
<1>. QED
  BY <1>3, <1>9, <1>10, <1>11, <1>12 DEF BuildInv

LEMMA EndKeeps ==
  ASSUME BuildInv, End
  PROVE  BuildInv'
<1>. DEFINE c == EndTable(bld, open.start)
            o == [off |-> c.ret, kind |-> "table", type |-> open.type, value |-> open.value]
            names == Names(open.added)
            start == open.start
<1>1. /\ Opens(open) /\ bld.nested = TRUE /\ FieldsIn(bld, names) /\ Sound(bld)
  BY DEF BuildInv, End, NoTable
<1>2. bld' = c /\ objects' = objects \cup {o} /\ open' = NoTable
  BY DEF End, Record
<1>3. start \in Int
  BY <1>1 DEF Opens
<1>4. Ends(bld, c)
  <2>. HIDE DEF start, names
  <2>1. Ends(bld, EndTable(bld, start))
    BY <1>1, <1>3, EndTableEnds
  <2>. QED
    BY <2>1 DEF start
<1>. HIDE DEF c
<1>5. 1 .. Size(bld) \subseteq 1 .. Size(c)
  BY <1>1, <1>4, EndsSize
<1>6. Sound(c) /\ c.num_field_loc = 0 /\ ~c.nested /\ c.ret \in 1 .. Size(c)
  BY <1>4 DEF Ends
<1>7. o.off \in 1 .. Size(c)
  BY <1>6
<1>. HIDE DEF o
<1>8. \A p \in objects' : p.off \in 1 .. Size(c)
  BY <1>2, <1>5, <1>7, NewObject
<1>. QED
  BY <1>2, <1>6, <1>8 DEF BuildInv

\* The tag of a union's type.
LEMMA TagOfType ==
  ASSUME NEW T \in Range(UnionTypes[Message])
  PROVE  /\ TagOf(T) \in DOMAIN UnionTypes[Message] /\ TagOf(T) \in Byte
         /\ UnionTypes[Message][TagOf(T)] = T
<1>1. DOMAIN UnionTypes[Message] \subseteq Byte
  BY TablesAssumption
<1>2. \E k \in DOMAIN UnionTypes[Message] : UnionTypes[Message][k] = T
  BY DEF Range
<1>. QED
  BY <1>1, <1>2 DEF TagOf

LEMMA make_messageKeeps ==
  ASSUME BuildInv, NEW o \in objects, NEW e \in EffectIds, NEW t \in Ids, NEW n \in Ids,
         make_message(o, e, t, n)
  PROVE  BuildInv'
<1>. DEFINE tag == TagOf(o.type)
            f == FinishLast(CreateMessageEnvelope(bld, t, n, tag, o.off))
<1>1. Idle /\ UNCHANGED <<objects, open>> /\ bld' = GetBufferPointer(f)
  BY DEF make_message
<1>2. /\ Sound(bld) /\ ~bld.nested /\ bld.num_field_loc = 0 /\ open = NoTable
  BY <1>1, IdleBuilder
<1>3. o.off \in 1 .. Size(bld) /\ t \in Int /\ n \in Int
  BY Contents DEF BuildInv
<1>4. tag \in Int
  <2>1. tag \in Byte
    BY TagOfType DEF make_message
  <2>. QED
    BY <2>1 DEF Byte
<1>. HIDE DEF tag
<1>5. /\ Sound(f) /\ f.num_field_loc = 0 /\ ~f.nested /\ f.finished = TRUE
      /\ 1 .. Size(bld) \subseteq 1 .. Size(f)
  <2>. DEFINE off == o.off
  <2>1. off \in 1 .. Size(bld)
    BY <1>3
  <2>. HIDE DEF off
  <2>2. LET g == FinishLast(CreateMessageEnvelope(bld, t, n, tag, off))
        IN  /\ Sound(g) /\ g.num_field_loc = 0 /\ ~g.nested /\ g.finished = TRUE
            /\ 1 .. Size(bld) \subseteq 1 .. Size(g)
    BY <1>2, <1>3, <1>4, <2>1, EnvelopeFinishes
  <2>. QED
    BY <2>2 DEF off
<1>. HIDE DEF f
<1>6. bld' = f
  <2>1. Fine(f)
    BY <1>5 DEF Sound
  <2>. QED
    BY <1>1, <1>5, <2>1, AssertingHolds DEF GetBufferPointer
<1>7. \A p \in objects' : p.off \in 1 .. Size(f)
  BY <1>1, <1>5 DEF BuildInv
<1>. QED
  BY <1>1, <1>2, <1>5, <1>6, <1>7 DEF BuildInv

LEMMA ClearKeeps ==
  ASSUME BuildInv, ClearForReuse \/ ResetForReuse
  PROVE  BuildInv'
<1>1. Fresh(ClearBuilder(bld)) /\ Fresh(ResetBuilder(bld))
  BY ClearBuilderFresh DEF BuildInv
<1>2. /\ bld' = ClearBuilder(bld) \/ bld' = ResetBuilder(bld)
      /\ objects' = {} /\ open' = NoTable
  BY DEF ClearForReuse, ResetForReuse
<1>3. Fresh(bld')
  BY <1>1, <1>2
<1>. QED
  BY <1>2, <1>3 DEF Fresh, BuildInv

LEMMA InitBuild == Init => BuildInv
<1>. HAVE Init
<1>1. Fresh(bld) /\ objects = {} /\ open = NoTable
  BY NewBuilderFresh DEF Init
<1>. QED
  BY <1>1 DEF Fresh, BuildInv

LEMMA NextBuild == BuildInv /\ [Next]_vars => BuildInv'
<1>. SUFFICES ASSUME BuildInv, [Next]_vars PROVE BuildInv'
  OBVIOUS
<1>1. CASE UNCHANGED vars
  BY <1>1 DEF vars, BuildInv
<1>2. CASE \E str \in Texts : CreateText(str)
  BY <1>2, CreateTextKeeps
<1>3. CASE \E type \in DOMAIN Vectors : \E elements \in Vectors[type] :
             CreateScalars(type, elements)
  BY <1>3, CreateScalarsKeeps
<1>4. CASE \E T \in Types : CreateTables(T) \/ Begin(T)
  BY <1>4, CreateTablesKeeps, BeginKeeps
<1>5. CASE AddField
  BY <1>5, AddFieldKeeps
<1>6. CASE End
  BY <1>6, EndKeeps
<1>7. CASE \E o \in objects, e \in EffectIds, t, n \in Ids : make_message(o, e, t, n)
  BY <1>7, make_messageKeeps
<1>8. CASE ClearForReuse \/ ResetForReuse
  BY <1>8, ClearKeeps
<1>. QED
  BY <1>1, <1>2, <1>3, <1>4, <1>5, <1>6, <1>7, <1>8 DEF Next

\* The invariant holds in every state of every program of legal calls.
THEOREM BuildInvHolds == Spec => []BuildInv
BY InitBuild, NextBuild, PTL DEF Spec

\* No call fails an assert of the builder, whatever the texts, vectors, structs
\* and schemas, as long as no object is begun in another and no field is set
\* twice.
THEOREM NoAssertFailsHolds == Spec => []NoAssertFails
<1>1. BuildInv => NoAssertFails
  BY DEF BuildInv, Sound, NoAssertFails
<1>. QED
  BY <1>1, BuildInvHolds, PTL

\* No byte of the data is one that nobody has written: neither the padding, nor
\* the slots of a vtable, nor what is left when a vtable or a string is taken
\* back, nor the two bytes that a FieldLoc leaves in the scratch pad, which
\* share the memory.
THEOREM NothingUninitialisedHolds == Spec => []NothingUninitialised
<1>1. BuildInv => NothingUninitialised
  <2>. HAVE BuildInv
  <2>. DEFINE mem == Data(bld.buf)
  <2>1. mem \in Seq(Byte)
    BY DEF BuildInv, Sound, Fine
  <2>. HIDE DEF mem
  <2>2. \A k \in DOMAIN mem : mem[k] \in Byte
    BY <2>1, LenProperties, ElementOfSeq
  <2>3. \A k \in DOMAIN mem : mem[k] # Undefined
    BY <2>2, Contents
  <2>. QED
    BY <2>3 DEF NothingUninitialised, mem
<1>. QED
  BY <1>1, BuildInvHolds, PTL
=============================================================================
