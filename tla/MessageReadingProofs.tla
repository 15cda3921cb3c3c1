------------------------ MODULE MessageReadingProofs -----------------------
(***************************************************************************)
(* Proofs that what has been built is what is read, for any schemas and    *)
(* contents, as long as the builder's limits are kept.                     *)
(*                                                                         *)
(* What an object is read from is described by blocks: some bytes at some  *)
(* offset from the end of the data.  A block stays where it is, and what   *)
(* it is, whatever is put before it.  What the readers check of a message  *)
(* follows from the same blocks, and what they search from its order.      *)
(***************************************************************************)
EXTENDS MessageBuildingProofs, FlatBufferVectors

----------------------------------------------------------------------------
(* Blocks.                                                                 *)

\* The bytes are in mem, at an offset from its end.
Block(mem, off, bytes) ==
  /\ off \in Nat /\ Len(bytes) <= off /\ off <= Len(mem)
  /\ \A k \in 1 .. Len(bytes) : mem[Len(mem) - off + k] = bytes[k]

LEMMA BlockStays ==
  ASSUME NEW mem \in Seq(Byte), NEW x \in Seq(Byte), NEW off, NEW bytes \in Seq(Byte),
         Block(mem, off, bytes)
  PROVE  Block(x \o mem, off, bytes)
<1>. DEFINE new == x \o mem
            n == Len(bytes)
            m == Len(mem)
            l == Len(x)
<1>1. n \in Nat /\ m \in Nat /\ l \in Nat
  BY LenProperties
<1>2. Len(new) = l + m /\ \A i \in 1 .. m : new[l + i] = mem[i]
  BY Joined
<1>3. /\ off \in Nat /\ n <= off /\ off <= m
      /\ \A k \in 1 .. n : mem[m - off + k] = bytes[k]
  BY DEF Block
<1>. HIDE DEF new, n, m, l
<1>4. ASSUME NEW k \in 1 .. n
      PROVE  new[(l + m) - off + k] = bytes[k]
  <2>1. m - off + k \in 1 .. m /\ (l + m) - off + k = l + (m - off + k)
    BY <1>1, <1>3
  <2>. QED
    BY <1>2, <1>3, <2>1
<1>5. off <= l + m
  BY <1>1, <1>3
<1>. QED
  BY <1>2, <1>3, <1>4, <1>5 DEF Block, new, n

LEMMA BlockPushed ==
  ASSUME NEW mem \in Seq(Byte), NEW bytes \in Seq(Byte)
  PROVE  Block(bytes \o mem, Len(bytes) + Len(mem), bytes)
<1>1. /\ Len(bytes) \in Nat /\ Len(mem) \in Nat
      /\ Len(bytes \o mem) = Len(bytes) + Len(mem)
      /\ \A i \in 1 .. Len(bytes) : (bytes \o mem)[i] = bytes[i]
  BY Joined, LenProperties
<1>. QED
  BY <1>1 DEF Block

\* Of what is stored one after the other, each is stored.
LEMMA BlockParts ==
  ASSUME NEW mem \in Seq(Byte), NEW off, NEW s \in Seq(Byte), NEW t \in Seq(Byte),
         Block(mem, off, s \o t)
  PROVE  Block(mem, off, s) /\ Block(mem, off - Len(s), t)
<1>. DEFINE n == Len(s)
            m == Len(t)
            l == Len(mem)
            st == s \o t
<1>1. n \in Nat /\ m \in Nat /\ l \in Nat
  BY LenProperties
<1>2. /\ Len(st) = n + m
      /\ \A i \in 1 .. n : st[i] = s[i]
      /\ \A i \in 1 .. m : st[n + i] = t[i]
  BY Joined
<1>3. /\ off \in Nat /\ Len(st) <= off /\ off <= l
      /\ \A k \in 1 .. Len(st) : mem[l - off + k] = st[k]
  BY DEF Block
<1>. HIDE DEF n, m, l, st
<1>4. ASSUME NEW k \in 1 .. n
      PROVE  mem[l - off + k] = s[k]
  BY <1>1, <1>2, <1>3
<1>5. ASSUME NEW k \in 1 .. m
      PROVE  mem[l - (off - n) + k] = t[k]
  <2>1. n + k \in 1 .. n + m /\ l - (off - n) + k = l - off + (n + k)
    BY <1>1, <1>3
  <2>. QED
    BY <1>2, <1>3, <2>1
<1>6. n <= off /\ off - n \in Nat /\ m <= off - n /\ off - n <= l
  BY <1>1, <1>2, <1>3
<1>. QED
  BY <1>3, <1>4, <1>5, <1>6 DEF Block, n, m, l

LEMMA SubSeqIs ==
  ASSUME NEW S, NEW s, NEW p \in Nat, NEW n \in Nat, \A k \in 1 .. n : s[p + k] \in S
  PROVE  SubSeq(s, p + 1, p + n) = [k \in 1 .. n |-> s[p + k]]
<1>. DEFINE t == SubSeq(s, p + 1, p + n)
<1>1. \A i \in (p + 1) .. (p + n) : i - p \in 1 .. n /\ i = p + (i - p)
  OBVIOUS
<1>2. \A i \in (p + 1) .. (p + n) : s[i] \in S
  BY <1>1
<1>3. /\ t \in Seq(S)
      /\ Len(t) = IF p + 1 <= p + n THEN (p + n) - (p + 1) + 1 ELSE 0
      /\ \A i \in 1 .. (p + n) - (p + 1) + 1 : t[i] = s[(p + 1) + i - 1]
  <2>1. p + 1 \in Int /\ p + n \in Int
    OBVIOUS
  <2>. QED
    BY <1>2, <2>1, SubSeqProperties
<1>4. (p + n) - (p + 1) + 1 = n /\ \A i \in 1 .. n : (p + 1) + i - 1 = p + i
  OBVIOUS
<1>. HIDE DEF t
<1>5. (IF p + 1 <= p + n THEN (p + n) - (p + 1) + 1 ELSE 0) = n
  OBVIOUS
<1>6. Len(t) = n
  BY <1>3, <1>5
<1>7. \A i \in 1 .. n : t[i] = s[p + i]
  BY <1>3, <1>4
<1>8. t = [i \in 1 .. n |-> t[i]]
  BY <1>3, <1>6, LenProperties
<1>9. t = [i \in 1 .. n |-> s[p + i]]
  BY <1>7, <1>8
<1>. QED
  BY <1>9 DEF t

LEMMA BlockIsRead ==
  ASSUME NEW mem \in Seq(Byte), NEW off, NEW bytes \in Seq(Byte), Block(mem, off, bytes)
  PROVE  /\ Position(mem, off) \in Nat
         /\ \A k \in 1 .. Len(bytes) : mem[Position(mem, off) + k] = bytes[k]
         /\ SubSeq(mem, Position(mem, off) + 1, Position(mem, off) + Len(bytes)) = bytes
<1>. DEFINE p == Position(mem, off)
            n == Len(bytes)
<1>1. /\ off \in Nat /\ n <= off /\ off <= Len(mem)
      /\ \A k \in 1 .. n : mem[p + k] = bytes[k]
  BY DEF Block, Position
<1>2. n \in Nat /\ Len(mem) \in Nat /\ bytes \in [1 .. n -> Byte]
  BY LenProperties
<1>3. p \in Nat /\ p + n <= Len(mem)
  BY <1>1, <1>2 DEF Position
<1>4. SubSeq(mem, p + 1, p + n) = [k \in 1 .. n |-> mem[p + k]]
  <2>1. \A k \in 1 .. n : mem[p + k] \in Byte
    <3>1. \A k \in 1 .. n : bytes[k] \in Byte
      BY ElementOfSeq
    <3>. QED
      BY <1>1, <3>1
  <2>. HIDE DEF p, n
  <2>. QED
    BY <1>2, <1>3, <2>1, SubSeqIs
<1>. HIDE DEF p, n
<1>5. [k \in 1 .. n |-> mem[p + k]] = bytes
  BY <1>1, <1>2
<1>. QED
  BY <1>1, <1>3, <1>4, <1>5 DEF p, n

LEMMA JoinedBytes ==
  ASSUME NEW s \in Seq(Byte), NEW t \in Seq(Byte)
  PROVE  /\ s \o t \in Seq(Byte) /\ Len(s \o t) = Len(s) + Len(t)
         /\ \A i \in 1 .. Len(s) : (s \o t)[i] = s[i]
         /\ \A i \in 1 .. Len(t) : (s \o t)[Len(s) + i] = t[i]
BY Joined

----------------------------------------------------------------------------
(* What is written is what is read.                                        *)

\* What four bytes are read as, sign and all.
Signed(b1, b2, b3, b4) ==
  b1 + 256 * (b2 + 256 * (b3 + 256 * (IF b4 >= 128 THEN b4 - 256 ELSE b4)))

LEMMA FourBytesRead ==
  ASSUME NEW v \in Int, v <= MaxBufferSize, v >= -MaxBufferSize - 1
  PROVE  Signed((v \div 1) % 256, (v \div 256) % 256, (v \div 65536) % 256,
                (v \div 16777216) % 256) = v
<1>. DEFINE v1 == v \div 256
            v2 == v1 \div 256
            v3 == v2 \div 256
<1>1. \A i \in Int : i \div 256 \in Int /\ i = 256 * (i \div 256) + (i % 256) /\ i % 256 \in 0 .. 255
  OBVIOUS
<1>2. v1 \in Int /\ v2 \in Int /\ v3 \in Int
  BY <1>1
<1>3. v1 = v \div 256 /\ v2 = v \div 65536 /\ v3 = v \div 16777216 /\ v \div 1 = v
  <2>1. \A i \in Int : (i \div 256) \div 256 = i \div 65536
    OBVIOUS
  <2>2. \A i \in Int : (i \div 65536) \div 256 = i \div 16777216
    OBVIOUS
  <2>. QED
    BY <2>1, <2>2
<1>4. v = 256 * v1 + (v % 256) /\ v1 = 256 * v2 + (v1 % 256) /\ v2 = 256 * v3 + (v2 % 256)
  BY <1>1, <1>2
<1>5. v3 >= -128 /\ v3 <= 127
  BY <1>3 DEF MaxBufferSize
<1>. HIDE DEF v1, v2, v3
<1>6. (IF v3 % 256 >= 128 THEN (v3 % 256) - 256 ELSE v3 % 256) = v3
  BY <1>2, <1>5
<1>. QED
  BY <1>3, <1>4, <1>6 DEF Signed

LEMMA ReadsBlock ==
  ASSUME NEW mem \in Seq(Byte), NEW off, NEW v, IsInt32(v), Block(mem, off, Bytes(v, 4))
  PROVE  ReadScalar(mem, Position(mem, off), 4) = v
<1>. DEFINE p == Position(mem, off)
            bytes == Bytes(v, 4)
<1>0. v \in Int /\ v <= MaxBufferSize /\ v >= -MaxBufferSize - 1
  BY DEF IsInt32
<1>1. bytes \in Seq(Byte) /\ Len(bytes) = 4 /\ \A k \in 1 .. 4 : bytes[k] = (v \div Place[k]) % 256
  <2>1. 4 \in 0 .. 4
    OBVIOUS
  <2>2. v \in Int
    BY <1>0
  <2>. QED
    BY <2>1, <2>2, BytesFacts
<1>. HIDE DEF bytes
<1>2. \A k \in 1 .. 4 : mem[p + k] = bytes[k]
  <2>1. Block(mem, off, bytes) /\ bytes \in Seq(Byte)
    BY <1>1 DEF bytes
  <2>2. \A k \in 1 .. Len(bytes) : mem[Position(mem, off) + k] = bytes[k]
    BY <2>1, BlockIsRead
  <2>. QED
    BY <1>1, <2>2
<1>. HIDE DEF p
<1>3. /\ mem[p + 1] = (v \div 1) % 256 /\ mem[p + 2] = (v \div 256) % 256
      /\ mem[p + 3] = (v \div 65536) % 256 /\ mem[p + 4] = (v \div 16777216) % 256
  BY <1>1, <1>2 DEF Place
<1>4. ReadScalar(mem, p, 4) = Signed(mem[p + 1], mem[p + 2], mem[p + 3], mem[p + 4])
  BY DEF ReadScalar, Signed
<1>5. ReadScalar(mem, p, 4) = v
  BY <1>0, <1>3, <1>4, FourBytesRead
<1>. QED
  BY <1>5 DEF p

LEMMA ReadsByteBlock ==
  ASSUME NEW mem \in Seq(Byte), NEW off, NEW v \in Byte, Block(mem, off, Bytes(v, 1))
  PROVE  ReadScalar(mem, Position(mem, off), 1) = v
<1>. DEFINE p == Position(mem, off)
            bytes == Bytes(v, 1)
<1>1. bytes \in Seq(Byte) /\ Len(bytes) = 1 /\ bytes[1] = (v \div Place[1]) % 256
  <2>1. 1 \in 0 .. 4 /\ v \in Int
    BY DEF Byte
  <2>. QED
    BY <2>1, BytesFacts
<1>2. bytes[1] = v
  BY <1>1 DEF Place, Byte
<1>. HIDE DEF bytes
<1>3. mem[p + 1] = bytes[1]
  <2>1. Block(mem, off, bytes) /\ bytes \in Seq(Byte)
    BY <1>1 DEF bytes
  <2>2. \A k \in 1 .. Len(bytes) : mem[Position(mem, off) + k] = bytes[k]
    BY <2>1, BlockIsRead
  <2>. QED
    BY <1>1, <2>2
<1>. QED
  BY <1>2, <1>3 DEF ReadScalar

----------------------------------------------------------------------------
(* Objects.                                                                *)

\* A distance that is stored at an offset leads to another offset, further on.
Leads(mem, at, off) ==
  /\ IsInt32(at - off) /\ Block(mem, at, Bytes(at - off, 4))
  /\ at % 4 = 0 /\ 0 < off /\ off < at

\* A string and a zero after it.
TextIn(mem, off, str) ==
  /\ IsInt32(Len(str)) /\ Block(mem, off, Bytes(Len(str), 4)) /\ Block(mem, off - 4, str)
  /\ Block(mem, off - 4 - Len(str), Zeros(1)) /\ off % 4 = 0

ScalarsIn(mem, off, elements, width) ==
  /\ IsInt32(Len(elements)) /\ Block(mem, off, Bytes(Len(elements), 4))
  /\ \A i \in 1 .. Len(elements) :
       /\ elements[i] \in [1 .. width -> Byte]
       /\ Block(mem, off - 4 - (i - 1) * width, elements[i])
  /\ off % 4 = 0 /\ 4 + width * Len(elements) <= off

TablesIn(mem, off, offs) ==
  /\ IsInt32(Len(offs)) /\ Block(mem, off, Bytes(Len(offs), 4))
  /\ \A i \in 1 .. Len(offs) : Leads(mem, off - 4 - (i - 1) * 4, offs[i])
  /\ off % 4 = 0 /\ 4 + 4 * Len(offs) <= off

\* A field's value, where the vtable says.
FieldIn(mem, f, at, value) ==
  /\ f.kind = "scalar" =>
       /\ f.width \in {1, 4} /\ IsInt32(value) /\ (f.width = 1 => value \in Byte)
       /\ Block(mem, at, Bytes(value, f.width))
  /\ f.kind = "struct" => value \in Seq(Byte) /\ Len(value) = f.width /\ Block(mem, at, value)
  /\ f.kind \in {"scalar", "struct"} => at % f.align = 0
  /\ f.kind \notin {"scalar", "struct"} => value \in Int /\ Leads(mem, at, value)

\* A slot of a vtable holds v.
SlotIs(slots, field, v) ==
  /\ field + 2 <= Len(slots) /\ IsVoffset(v)
  /\ slots[field + 1] = Bytes(v, 2)[1] /\ slots[field + 2] = Bytes(v, 2)[2]

\* A vtable begins with its size, and is not all there is.
VtableIn(mem, vt, slots) ==
  /\ Block(mem, vt, slots) /\ SlotIs(slots, 0, Len(slots))
  /\ vt % 2 = 0 /\ Len(slots) % 2 = 0 /\ Len(slots) < Len(mem)

\* A field that was added is where its slot says; one that was not has no slot.
AddedIn(mem, off, slots, f, field, value) ==
  \E at \in Int : /\ off - at >= 1 /\ SlotIs(slots, field, off - at)
                  /\ FieldIn(mem, f, at, value)

NotAdded(slots, f, field, value) ==
  value = Default(f) /\ (field >= Len(slots) \/ SlotIs(slots, field, 0))

\* The table at off has this vtable and these fields.
LaidOut(mem, off, T, value, vt, slots) ==
  /\ value = [i \in DOMAIN Schema[T] |-> value[i]]
  /\ off \in Int /\ IsInt32(vt - off) /\ Block(mem, off, Bytes(vt - off, 4)) /\ off % 4 = 0
  /\ VtableIn(mem, vt, slots)
  /\ \A i \in DOMAIN Schema[T] :
       \/ AddedIn(mem, off, slots, Schema[T][i], Voffset(i), value[i])
       \/ NotAdded(slots, Schema[T][i], Voffset(i), value[i])

TableIn(mem, off, T, value) ==
  \E vt \in Int : \E slots \in Seq(Byte) : LaidOut(mem, off, T, value, vt, slots)

ObjectIn(mem, o) ==
  \/ o.kind = "string" /\ o.value \in Seq(Byte) /\ TextIn(mem, o.off, o.value)
  \/ /\ o.kind = "scalars" /\ o.value \in Seq(Seq(Byte)) /\ Widths[o.type] \in Nat
     /\ ScalarsIn(mem, o.off, o.value, Widths[o.type])
  \/ o.kind = "tables" /\ o.value \in Seq(Int) /\ TablesIn(mem, o.off, o.value)
  \/ o.kind = "table" /\ o.type \in DOMAIN Schema /\ TableIn(mem, o.off, o.type, o.value)

LEMMA BlocksStay ==
  ASSUME NEW mem \in Seq(Byte), NEW new, EndsWith(new, mem)
  PROVE  /\ \A off : \A bytes \in Seq(Byte) : Block(mem, off, bytes) => Block(new, off, bytes)
         /\ \A off : \A v \in Int : Block(mem, off, Bytes(v, 4)) => Block(new, off, Bytes(v, 4))
         /\ \A off : \A v \in Int : \A width \in {1, 4} :
              Block(mem, off, Bytes(v, width)) => Block(new, off, Bytes(v, width))
<1>1. PICK x \in Seq(Byte) : new = x \o mem
  BY DEF EndsWith
<1>2. \A off : \A bytes \in Seq(Byte) : Block(mem, off, bytes) => Block(new, off, bytes)
  BY <1>1, BlockStays
<1>3. \A v \in Int : \A width \in {1, 4} : Bytes(v, width) \in Seq(Byte)
  <2>1. \A width \in {1, 4} : width \in 0 .. 4
    OBVIOUS
  <2>. QED
    BY <2>1, BytesFacts
<1>4. 4 \in {1, 4}
  OBVIOUS
<1>. QED
  BY <1>2, <1>3, <1>4

LEMMA LeadsStay ==
  ASSUME NEW mem \in Seq(Byte), NEW new, EndsWith(new, mem), NEW at, NEW off, Leads(mem, at, off)
  PROVE  Leads(new, at, off)
BY BlocksStay DEF Leads, IsInt32

LEMMA TextStays ==
  ASSUME NEW mem \in Seq(Byte), NEW new, EndsWith(new, mem), NEW off, NEW str \in Seq(Byte),
         TextIn(mem, off, str)
  PROVE  TextIn(new, off, str)
<1>1. Zeros(1) \in Seq(Byte)
  BY ZerosAreBytes
<1>. QED
  BY <1>1, BlocksStay DEF TextIn, IsInt32

LEMMA ScalarsStay ==
  ASSUME NEW mem \in Seq(Byte), NEW new, EndsWith(new, mem), NEW off,
         NEW elements \in Seq(Seq(Byte)), NEW width \in Nat, ScalarsIn(mem, off, elements, width)
  PROVE  ScalarsIn(new, off, elements, width)
<1>1. \A i \in 1 .. Len(elements) : elements[i] \in Seq(Byte)
  BY ElementOfSeq
<1>. QED
  BY <1>1, BlocksStay DEF ScalarsIn, IsInt32

LEMMA TablesStay ==
  ASSUME NEW mem \in Seq(Byte), NEW new, EndsWith(new, mem), NEW off, NEW offs,
         TablesIn(mem, off, offs)
  PROVE  TablesIn(new, off, offs)
<1>1. \A at, to : Leads(mem, at, to) => Leads(new, at, to)
  BY LeadsStay
<1>. QED
  BY <1>1, BlocksStay DEF TablesIn, IsInt32

LEMMA FieldStays ==
  ASSUME NEW mem \in Seq(Byte), NEW new, EndsWith(new, mem), NEW f, NEW at, NEW value,
         FieldIn(mem, f, at, value)
  PROVE  FieldIn(new, f, at, value)
<1>1. Leads(mem, at, value) => Leads(new, at, value)
  BY LeadsStay
<1>. QED
  BY <1>1, BlocksStay DEF FieldIn, IsInt32

LEMMA EndsLonger ==
  ASSUME NEW mem \in Seq(Byte), NEW new, EndsWith(new, mem)
  PROVE  Len(mem) \in Nat /\ Len(new) \in Nat /\ Len(mem) <= Len(new)
<1>1. PICK x \in Seq(Byte) : new = x \o mem
  BY DEF EndsWith
<1>2. Len(x \o mem) = Len(x) + Len(mem) /\ Len(x) \in Nat /\ Len(mem) \in Nat
  BY JoinedBytes, LenProperties
<1>. QED
  BY <1>1, <1>2

LEMMA VtableStays ==
  ASSUME NEW mem \in Seq(Byte), NEW new, EndsWith(new, mem), NEW vt, NEW slots \in Seq(Byte),
         VtableIn(mem, vt, slots)
  PROVE  VtableIn(new, vt, slots)
<1>1. Len(slots) \in Nat /\ Len(mem) \in Nat /\ Len(new) \in Nat /\ Len(mem) <= Len(new)
  BY EndsLonger, LenProperties
<1>. QED
  BY <1>1, BlocksStay DEF VtableIn

LEMMA TableStays ==
  ASSUME NEW mem \in Seq(Byte), NEW new, EndsWith(new, mem), NEW off, NEW T, NEW value,
         TableIn(mem, off, T, value)
  PROVE  TableIn(new, off, T, value)
<1>1. PICK vt \in Int, slots \in Seq(Byte) : LaidOut(mem, off, T, value, vt, slots)
  BY DEF TableIn
<1>2. VtableIn(new, vt, slots)
  BY <1>1, VtableStays DEF LaidOut
<1>3. Block(new, off, Bytes(vt - off, 4)) /\ off \in Int /\ IsInt32(vt - off)
  BY <1>1, BlocksStay DEF LaidOut, IsInt32
<1>4. \A f, field, v : AddedIn(mem, off, slots, f, field, v) => AddedIn(new, off, slots, f, field, v)
  <2>1. \A f, at, v : FieldIn(mem, f, at, v) => FieldIn(new, f, at, v)
    BY FieldStays
  <2>. QED
    BY <2>1 DEF AddedIn
<1>5. LaidOut(new, off, T, value, vt, slots)
  BY <1>1, <1>2, <1>3, <1>4 DEF LaidOut
<1>. QED
  BY <1>5 DEF TableIn

\* What is in the data stays in it, whatever is put before it.
LEMMA ObjectStays ==
  ASSUME NEW mem \in Seq(Byte), NEW new, EndsWith(new, mem), NEW o, ObjectIn(mem, o)
  PROVE  ObjectIn(new, o)
BY TextStays, ScalarsStay, TablesStay, TableStays DEF ObjectIn

----------------------------------------------------------------------------
(* What is in the data is what is read.                                    *)

\* Where a block is.
LEMMA BlockPlace ==
  ASSUME NEW mem \in Seq(Byte), NEW off, NEW bytes \in Seq(Byte), Block(mem, off, bytes)
  PROVE  /\ off \in Nat /\ Len(mem) \in Nat /\ off <= Len(mem) /\ Len(bytes) \in Nat
         /\ Len(bytes) <= off
BY LenProperties DEF Block

LEMMA BlockOfFour ==
  ASSUME NEW mem \in Seq(Byte), NEW off, NEW v, IsInt32(v), Block(mem, off, Bytes(v, 4))
  PROVE  /\ off \in Nat /\ Len(mem) \in Nat /\ off <= Len(mem) /\ 4 <= off
         /\ ReadScalar(mem, Position(mem, off), 4) = v
<1>1. Bytes(v, 4) \in Seq(Byte) /\ Len(Bytes(v, 4)) = 4
  BY FourBytes DEF IsInt32
<1>2. ReadScalar(mem, Position(mem, off), 4) = v
  BY ReadsBlock
<1>. QED
  BY <1>1, <1>2, BlockPlace

LEMMA TextIsRead ==
  ASSUME NEW mem \in Seq(Byte), NEW off, NEW str \in Seq(Byte), TextIn(mem, off, str)
  PROVE  StringBytes(mem, Position(mem, off)) = str
<1>. DEFINE p == Position(mem, off)
            n == Len(str)
<1>1. /\ off \in Nat /\ Len(mem) \in Nat /\ off <= Len(mem)
      /\ ReadScalar(mem, p, 4) = n
  BY BlockOfFour DEF TextIn
<1>2. SubSeq(mem, Position(mem, off - 4) + 1, Position(mem, off - 4) + n) = str
  BY BlockIsRead DEF TextIn
<1>3. Position(mem, off - 4) + 1 = p + 5 /\ Position(mem, off - 4) + n = p + 4 + n
  BY <1>1, LenProperties DEF Position
<1>. HIDE DEF p, n
<1>4. StringBytes(mem, p) = SubSeq(mem, p + 5, p + 4 + n)
  BY <1>1 DEF StringBytes, VectorSize
<1>. QED
  BY <1>2, <1>3, <1>4 DEF p

LEMMA ScalarsAreRead ==
  ASSUME NEW mem \in Seq(Byte), NEW off, NEW elements \in Seq(Seq(Byte)), NEW width \in Nat,
         ScalarsIn(mem, off, elements, width)
  PROVE  Elements(mem, Position(mem, off), width) = elements
<1>. DEFINE p == Position(mem, off)
            n == Len(elements)
<1>1. /\ off \in Nat /\ Len(mem) \in Nat /\ off <= Len(mem)
      /\ ReadScalar(mem, p, 4) = n
  BY BlockOfFour DEF ScalarsIn
<1>2. n \in Nat /\ elements = [i \in 1 .. n |-> elements[i]]
  BY LenProperties
<1>3. ASSUME NEW i \in 1 .. n
      PROVE  [k \in 1 .. width |-> mem[VectorData(p) + (i - 1) * width + k]] = elements[i]
  <2>. DEFINE at == off - 4 - (i - 1) * width
  <2>1. elements[i] \in [1 .. width -> Byte] /\ Block(mem, at, elements[i])
    BY DEF ScalarsIn
  <2>2. elements[i] \in Seq(Byte) /\ Len(elements[i]) = width
    BY <2>1, LenProperties, SeqDef
  <2>. DEFINE q == (i - 1) * width
  <2>3. q \in Int
    BY <1>2
  <2>4. Position(mem, at) = VectorData(p) + q
    <3>. HIDE DEF q
    <3>1. at = off - 4 - q
      BY DEF q
    <3>. HIDE DEF at
    <3>. QED
      BY <1>1, <2>3, <3>1 DEF Position, VectorData
  <2>. HIDE DEF at
  <2>5. \A k \in 1 .. width : mem[Position(mem, at) + k] = elements[i][k]
    <3>1. \A k \in 1 .. Len(elements[i]) : mem[Position(mem, at) + k] = elements[i][k]
      <4>1. ASSUME NEW bytes \in Seq(Byte), Block(mem, at, bytes)
            PROVE  \A k \in 1 .. Len(bytes) : mem[Position(mem, at) + k] = bytes[k]
        BY <4>1, BlockIsRead
      <4>. QED
        BY <2>1, <2>2, <4>1
    <3>. QED
      BY <2>2, <3>1
  <2>6. \A k \in 1 .. width : mem[VectorData(p) + q + k] = elements[i][k]
    BY <2>4, <2>5
  <2>7. elements[i] = [k \in 1 .. width |-> elements[i][k]]
    BY <2>1
  <2>. HIDE DEF p
  <2>. QED
    BY <2>6, <2>7
<1>. HIDE DEF p, n
<1>4. Elements(mem, p, width) =
        [i \in 1 .. n |-> [k \in 1 .. width |-> mem[VectorData(p) + (i - 1) * width + k]]]
  BY <1>1 DEF Elements, VectorSize
<1>5. Elements(mem, p, width) = [i \in 1 .. n |-> elements[i]]
  BY <1>3, <1>4
<1>. QED
  BY <1>2, <1>5 DEF p

LEMMA LeadsThere ==
  ASSUME NEW mem \in Seq(Byte), NEW at, NEW off \in Int, Leads(mem, at, off)
  PROVE  /\ at \in Nat /\ at <= Len(mem) /\ Len(mem) \in Nat
         /\ FromEnd(mem, Indirect(mem, Position(mem, at))) = off
<1>1. /\ at \in Nat /\ Len(mem) \in Nat /\ at <= Len(mem)
      /\ ReadScalar(mem, Position(mem, at), 4) = at - off
  BY BlockOfFour DEF Leads
<1>. QED
  BY <1>1 DEF FromEnd, Indirect, Position

LEMMA TablesAreRead ==
  ASSUME NEW mem \in Seq(Byte), NEW off, NEW offs \in Seq(Int), TablesIn(mem, off, offs)
  PROVE  LET p == Position(mem, off)
         IN  [k \in 1 .. VectorSize(mem, p) |-> FromEnd(mem, GetAll(mem, p)[k])] = offs
<1>. DEFINE p == Position(mem, off)
            n == Len(offs)
<1>1. /\ off \in Nat /\ Len(mem) \in Nat /\ off <= Len(mem)
      /\ ReadScalar(mem, p, 4) = n
  BY BlockOfFour DEF TablesIn
<1>2. n \in Nat /\ offs = [i \in 1 .. n |-> offs[i]] /\ \A i \in 1 .. n : offs[i] \in Int
  BY LenProperties, ElementOfSeq
<1>3. ASSUME NEW i \in 1 .. n
      PROVE  FromEnd(mem, Indirect(mem, VectorData(p) + (i - 1) * 4)) = offs[i]
  <2>. DEFINE at == off - 4 - (i - 1) * 4
  <2>1. Leads(mem, at, offs[i]) /\ offs[i] \in Int
    BY <1>2 DEF TablesIn
  <2>2. Position(mem, at) = VectorData(p) + (i - 1) * 4
    BY <1>1, <1>2 DEF Position, VectorData
  <2>. HIDE DEF at
  <2>3. FromEnd(mem, Indirect(mem, Position(mem, at))) = offs[i]
    BY <2>1, LeadsThere
  <2>. QED
    BY <2>2, <2>3
<1>. HIDE DEF p, n
<1>4. VectorSize(mem, p) = n
  BY <1>1 DEF VectorSize
<1>5. GetAll(mem, p) = [i \in 1 .. n |-> Indirect(mem, VectorData(p) + (i - 1) * 4)]
  BY <1>4 DEF GetAll
<1>6. \A i \in 1 .. n : FromEnd(mem, GetAll(mem, p)[i]) = offs[i]
  BY <1>3, <1>5
<1>7. [k \in 1 .. n |-> FromEnd(mem, GetAll(mem, p)[k])] = [k \in 1 .. n |-> offs[k]]
  BY <1>6
<1>. QED
  BY <1>2, <1>4, <1>7 DEF p

LEMMA SlotIsRead ==
  ASSUME NEW mem \in Seq(Byte), NEW vt \in Int, NEW slots \in Seq(Byte), Block(mem, vt, slots),
         NEW field \in Nat, NEW v, SlotIs(slots, field, v)
  PROVE  ReadScalar(mem, Position(mem, vt) + field, 2) = v
<1>. DEFINE p == Position(mem, vt)
            n == Len(slots)
<1>1. p \in Nat /\ \A k \in 1 .. n : mem[p + k] = slots[k]
  BY BlockIsRead
<1>2. n \in Nat /\ field + 2 <= n
  BY LenProperties DEF SlotIs
<1>. HIDE DEF p, n
<1>3. field + 1 \in 1 .. n /\ field + 2 \in 1 .. n
  BY <1>2
<1>4. mem[p + (field + 1)] = slots[field + 1] /\ mem[p + (field + 2)] = slots[field + 2]
  BY <1>1, <1>3
<1>5. (p + field) + 1 = p + (field + 1) /\ (p + field) + 2 = p + (field + 2) /\ p + field \in Nat
  BY <1>1
<1>6. mem[(p + field) + 1] = Bytes(v, 2)[1] /\ mem[(p + field) + 2] = Bytes(v, 2)[2]
  BY <1>4, <1>5 DEF SlotIs
<1>7. IsVoffset(v)
  BY DEF SlotIs
<1>. QED
  BY <1>5, <1>6, <1>7, ReadsTwoBytes DEF p

\* The vtable of a table that is laid out, and the entries in it.
LEMMA VtableIsRead ==
  ASSUME NEW mem \in Seq(Byte), NEW off, NEW T, NEW value, NEW vt \in Int, NEW slots \in Seq(Byte),
         LaidOut(mem, off, T, value, vt, slots)
  PROVE  /\ off \in Nat /\ off <= Len(mem) /\ Len(mem) \in Nat
         /\ GetVTable(mem, Position(mem, off)) = Position(mem, vt)
         /\ ReadScalar(mem, Position(mem, vt), 2) = Len(slots)
         /\ \A field \in Nat : field >= Len(slots) => VtableEntry(mem, Position(mem, vt), field) = 0
         /\ \A field \in Nat : \A v :
              SlotIs(slots, field, v) => VtableEntry(mem, Position(mem, vt), field) = v
<1>1. /\ off \in Nat /\ Len(mem) \in Nat /\ off <= Len(mem)
      /\ ReadScalar(mem, Position(mem, off), 4) = vt - off
  BY BlockOfFour DEF LaidOut
<1>2. GetVTable(mem, Position(mem, off)) = Position(mem, vt)
  BY <1>1 DEF GetVTable, Position
<1>3. Block(mem, vt, slots) /\ SlotIs(slots, 0, Len(slots))
  BY DEF LaidOut, VtableIn
<1>4. ReadScalar(mem, Position(mem, vt), 2) = Len(slots)
  <2>1. ReadScalar(mem, Position(mem, vt) + 0, 2) = Len(slots)
    BY <1>3, SlotIsRead
  <2>2. Position(mem, vt) + 0 = Position(mem, vt)
    BY <1>1 DEF Position
  <2>. QED
    BY <2>1, <2>2
<1>5. Len(slots) \in Nat
  BY LenProperties
<1>6. ASSUME NEW field \in Nat, field >= Len(slots)
      PROVE  VtableEntry(mem, Position(mem, vt), field) = 0
  <2>1. ~(field < Len(slots))
    BY <1>5, <1>6
  <2>. QED
    BY <1>4, <2>1 DEF VtableEntry
<1>7. ASSUME NEW field \in Nat, NEW v, SlotIs(slots, field, v)
      PROVE  VtableEntry(mem, Position(mem, vt), field) = v
  <2>1. field < Len(slots)
    BY <1>5, <1>7 DEF SlotIs
  <2>2. ReadScalar(mem, Position(mem, vt) + field, 2) = v
    BY <1>3, <1>7, SlotIsRead
  <2>. QED
    BY <1>4, <2>1, <2>2 DEF VtableEntry
<1>. QED
  BY <1>1, <1>2, <1>4, <1>6, <1>7

\* A field that was added is read where it is.
LEMMA AddedIsRead ==
  ASSUME NEW mem \in Seq(Byte), NEW off \in Nat, off <= Len(mem), NEW table,
         table = Position(mem, off),
         NEW f, NEW i, NEW slots, NEW at \in Int, off - at >= 1,
         GetOptionalFieldOffset(mem, table, Voffset(i)) = off - at,
         NEW value, FieldIn(mem, f, at, value)
  PROVE  ReadField(mem, table, f, i) = value
<1>. DEFINE p == Position(mem, at)
<1>1. Len(mem) \in Nat
  BY LenProperties
<1>2. p = table + (off - at) /\ p # Nullptr /\ off - at # 0
  BY <1>1 DEF Position, Nullptr
<1>3. GetStruct(mem, table, Voffset(i)) = p
  BY <1>2 DEF GetStruct, AddressAt
<1>4. CASE f.kind = "scalar"
  <2>1. /\ f.width \in {1, 4} /\ IsInt32(value) /\ (f.width = 1 => value \in Byte)
        /\ Block(mem, at, Bytes(value, f.width))
    BY <1>4 DEF FieldIn
  <2>2. ReadScalar(mem, p, f.width) = value
    BY <2>1, ReadsBlock, ReadsByteBlock
  <2>3. ReadField(mem, table, f, i) = GetField(mem, table, Voffset(i), f.width, 0)
    BY <1>4 DEF ReadField
  <2>. HIDE DEF p
  <2>. QED
    BY <1>2, <1>3, <2>2, <2>3 DEF GetField, ScalarAt
<1>5. CASE f.kind = "struct"
  <2>1. value \in Seq(Byte) /\ Len(value) = f.width /\ Block(mem, at, value)
    BY <1>5 DEF FieldIn
  <2>2. SubSeq(mem, p + 1, p + f.width) = value
    BY <2>1, BlockIsRead
  <2>. HIDE DEF p
  <2>. QED
    BY <1>2, <1>3, <1>5, <2>2 DEF ReadField
<1>6. CASE f.kind \notin {"scalar", "struct"}
  <2>1. value \in Int /\ Leads(mem, at, value)
    BY <1>6 DEF FieldIn
  <2>2. FromEnd(mem, Indirect(mem, p)) = value
    BY <2>1, LeadsThere
  <2>. HIDE DEF p
  <2>. QED
    BY <1>2, <1>3, <1>6, <2>2 DEF ReadField
<1>. QED
  BY <1>4, <1>5, <1>6

\* A field that was not added is read as its default.
LEMMA DefaultIsRead ==
  ASSUME NEW mem, NEW table, NEW f, NEW i,
         GetOptionalFieldOffset(mem, table, Voffset(i)) = 0
  PROVE  ReadField(mem, table, f, i) = Default(f)
<1>1. GetStruct(mem, table, Voffset(i)) = Nullptr
  BY DEF GetStruct, AddressAt
<1>2. CASE f.kind = "scalar"
  BY <1>1, <1>2 DEF ReadField, GetField, ScalarAt, Default
<1>3. CASE f.kind = "struct"
  BY <1>1, <1>3 DEF ReadField, Default
<1>4. CASE f.kind \notin {"scalar", "struct"}
  BY <1>1, <1>4 DEF ReadField, Default
<1>. QED
  BY <1>2, <1>3, <1>4

LEMMA TableIsRead ==
  ASSUME NEW mem \in Seq(Byte), NEW off, NEW T \in DOMAIN Schema, NEW value,
         TableIn(mem, off, T, value)
  PROVE  [i \in DOMAIN Schema[T] |-> ReadField(mem, Position(mem, off), Schema[T][i], i)] = value
<1>. DEFINE table == Position(mem, off)
<1>1. PICK vt \in Int, slots \in Seq(Byte) : LaidOut(mem, off, T, value, vt, slots)
  BY DEF TableIn
<1>2. /\ off \in Nat /\ off <= Len(mem) /\ Len(mem) \in Nat
      /\ GetVTable(mem, table) = Position(mem, vt)
      /\ \A field \in Nat : field >= Len(slots) => VtableEntry(mem, Position(mem, vt), field) = 0
      /\ \A field \in Nat : \A v :
           SlotIs(slots, field, v) => VtableEntry(mem, Position(mem, vt), field) = v
  BY <1>1, VtableIsRead
<1>3. ASSUME NEW i \in DOMAIN Schema[T]
      PROVE  ReadField(mem, table, Schema[T][i], i) = value[i]
  <2>1. Voffset(i) \in Nat
    BY Fields DEF IsVoffset
  <2>2. GetOptionalFieldOffset(mem, table, Voffset(i)) =
          VtableEntry(mem, Position(mem, vt), Voffset(i))
    BY <1>2 DEF GetOptionalFieldOffset
  <2>3. CASE AddedIn(mem, off, slots, Schema[T][i], Voffset(i), value[i])
    <3>1. PICK at \in Int : /\ off - at >= 1 /\ SlotIs(slots, Voffset(i), off - at)
                            /\ FieldIn(mem, Schema[T][i], at, value[i])
      BY <2>3 DEF AddedIn
    <3>2. GetOptionalFieldOffset(mem, table, Voffset(i)) = off - at
      BY <1>2, <2>1, <2>2, <3>1
    <3>. QED
      BY <1>2, <3>1, <3>2, AddedIsRead
  <2>4. CASE NotAdded(slots, Schema[T][i], Voffset(i), value[i])
    <3>1. GetOptionalFieldOffset(mem, table, Voffset(i)) = 0
      BY <1>2, <2>1, <2>2, <2>4 DEF NotAdded
    <3>2. value[i] = Default(Schema[T][i])
      BY <2>4 DEF NotAdded
    <3>. QED
      BY <3>1, <3>2, DefaultIsRead
  <2>. QED
    BY <1>1, <2>3, <2>4 DEF LaidOut
<1>4. value = [i \in DOMAIN Schema[T] |-> value[i]]
  BY <1>1 DEF LaidOut
<1>. HIDE DEF table
<1>5. [i \in DOMAIN Schema[T] |-> ReadField(mem, table, Schema[T][i], i)] =
        [i \in DOMAIN Schema[T] |-> value[i]]
  BY <1>3
<1>. QED
  BY <1>4, <1>5 DEF table

LEMMA ObjectIsRead ==
  ASSUME NEW mem \in Seq(Byte), NEW o, ObjectIn(mem, o)
  PROVE  ReadObject(mem, o) = o.value
<1>1. CASE o.kind = "string" /\ o.value \in Seq(Byte) /\ TextIn(mem, o.off, o.value)
  BY <1>1, TextIsRead DEF ReadObject
<1>2. CASE /\ o.kind = "scalars" /\ o.value \in Seq(Seq(Byte)) /\ Widths[o.type] \in Nat
           /\ ScalarsIn(mem, o.off, o.value, Widths[o.type])
  BY <1>2, ScalarsAreRead DEF ReadObject
<1>3. CASE o.kind = "tables" /\ o.value \in Seq(Int) /\ TablesIn(mem, o.off, o.value)
  BY <1>3, TablesAreRead DEF ReadObject
<1>4. CASE o.kind = "table" /\ o.type \in DOMAIN Schema /\ TableIn(mem, o.off, o.type, o.value)
  BY <1>4, TableIsRead DEF ReadObject
<1>. QED
  BY <1>1, <1>2, <1>3, <1>4 DEF ObjectIn

----------------------------------------------------------------------------
(* What is pushed is in the data.                                          *)

\* Part of what is stored is stored where it is in it.
LEMMA BlockWithin ==
  ASSUME NEW mem \in Seq(Byte), NEW off, NEW bytes \in Seq(Byte), Block(mem, off, bytes),
         NEW start \in Nat, NEW part \in Seq(Byte), start + Len(part) <= Len(bytes),
         \A k \in 1 .. Len(part) : bytes[start + k] = part[k]
  PROVE  Block(mem, off - start, part)
<1>. DEFINE n == Len(bytes)
            m == Len(part)
            l == Len(mem)
<1>1. n \in Nat /\ m \in Nat /\ l \in Nat
  BY LenProperties
<1>2. /\ off \in Nat /\ n <= off /\ off <= l
      /\ \A k \in 1 .. n : mem[l - off + k] = bytes[k]
  BY DEF Block
<1>3. start + m <= n /\ \A k \in 1 .. m : bytes[start + k] = part[k]
  OBVIOUS
<1>. HIDE DEF n, m, l
<1>4. ASSUME NEW k \in 1 .. m
      PROVE  mem[l - (off - start) + k] = part[k]
  <2>1. start + k \in 1 .. n /\ l - (off - start) + k = l - off + (start + k)
    BY <1>1, <1>2, <1>3
  <2>. QED
    BY <1>2, <1>3, <2>1
<1>5. off - start \in Nat /\ m <= off - start /\ off - start <= l
  BY <1>1, <1>2, <1>3
<1>. QED
  BY <1>4, <1>5 DEF Block, m, l

LEMMA TuplesAreSeqs ==
  ASSUME NEW S, NEW n \in Nat
  PROVE  \A s \in [1 .. n -> S] : s \in Seq(S) /\ Len(s) = n
<1>. TAKE s \in [1 .. n -> S]
<1>. QED
  BY SeqDef, LenProperties

\* Elements of one width, one after the other.
Even(seqs, width, flat, n) ==
  /\ Len(flat) = n * width
  /\ \A i \in 1 .. n : \A k \in 1 .. width : flat[(i - 1) * width + k] = seqs[i][k]

LEMMA EvenStep ==
  ASSUME NEW width \in {1, 2, 4, 8}, NEW seqs, NEW n \in Nat,
         NEW flat \in Seq(Byte), Even(seqs, width, flat, n),
         NEW last \in Seq(Byte), Len(last) = width, seqs[n + 1] = last
  PROVE  Even(seqs, width, flat \o last, n + 1)
<1>. DEFINE new == flat \o last
<1>1. /\ Len(new) = Len(flat) + Len(last)
      /\ \A i \in 1 .. Len(flat) : new[i] = flat[i]
      /\ \A i \in 1 .. Len(last) : new[Len(flat) + i] = last[i]
  BY Joined
<1>2. Len(flat) = n * width /\ Len(last) = width
  BY DEF Even
<1>. HIDE DEF new
<1>3. Len(new) = (n + 1) * width
  BY <1>1, <1>2
<1>4. ASSUME NEW i \in 1 .. n + 1, NEW k \in 1 .. width
      PROVE  new[(i - 1) * width + k] = seqs[i][k]
  <2>1. CASE i = n + 1
    <3>1. (i - 1) * width + k = n * width + k
      BY <2>1
    <3>2. new[n * width + k] = last[k]
      BY <1>1, <1>2
    <3>. QED
      BY <2>1, <3>1, <3>2
  <2>2. CASE i # n + 1
    <3>1. i \in 1 .. n
      BY <2>2
    <3>2. (i - 1) * width + k \in 1 .. n * width
      BY <3>1
    <3>3. flat[(i - 1) * width + k] = seqs[i][k]
      BY <3>1 DEF Even
    <3>. QED
      BY <1>1, <1>2, <3>2, <3>3
  <2>. QED
    BY <2>1, <2>2
<1>. QED
  BY <1>3, <1>4 DEF Even, new

LEMMA FlattenedEvenly ==
  ASSUME NEW width \in {1, 2, 4, 8}, NEW seqs \in Seq([1 .. width -> Byte])
  PROVE  FlattenSeq(seqs) \in Seq(Byte) /\ Even(seqs, width, FlattenSeq(seqs), Len(seqs))
<1>. DEFINE n == Len(seqs)
<1>1. n \in Nat /\ \A i \in 1 .. n : seqs[i] \in [1 .. width -> Byte]
  BY LenProperties, ElementOfSeq
<1>2. \A i \in 1 .. n : seqs[i] \in Seq(Byte) /\ Len(seqs[i]) = width
  <2>1. width \in Nat
    OBVIOUS
  <2>. QED
    BY <1>1, <2>1, TuplesAreSeqs
<1>3. seqs \in Seq(Seq(Byte))
  <2>1. seqs \in [1 .. n -> Seq(Byte)]
    BY <1>2, LenProperties
  <2>. HIDE DEF n
  <2>. QED
    BY <1>1, <2>1, SeqDef
<1>4. FlattenSeq(seqs) \in Seq(Byte)
  BY <1>3, Flattened
<1>5. CASE n = 0
  <2>1. FlattenSeq(seqs) = seqs
    BY <1>5 DEF FlattenSeq
  <2>. HIDE DEF n
  <2>2. Len(FlattenSeq(seqs)) = n * width
    BY <1>5, <2>1 DEF n
  <2>3. \A i \in 1 .. n : FALSE
    BY <1>5
  <2>. QED
    BY <1>4, <2>2, <2>3 DEF Even, n
<1>6. CASE n # 0
  <2>1. PICK f : FlattenedBy(Byte, seqs, f)
    BY <1>3, <1>6, FlattenSteps
  <2>2. /\ FlattenSeq(seqs) = f[n]
        /\ \A i \in 1 .. n : f[i] \in Seq(Byte)
                             /\ f[i] = IF i = 1 THEN seqs[i] ELSE f[i - 1] \o seqs[i]
    BY <2>1 DEF FlattenedBy
  <2>. DEFINE Reached == {i \in Nat : i + 1 \in 1 .. n => Even(seqs, width, f[i + 1], i + 1)}
  <2>. HIDE DEF n
  <2>3. 0 \in Reached
    <3>1. SUFFICES ASSUME 1 \in 1 .. n PROVE Even(seqs, width, f[1], 1)
      OBVIOUS
    <3>2. f[1] = seqs[1] /\ Len(seqs[1]) = width
      BY <1>2, <2>2, <3>1
    <3>3. \A i \in 1 .. 1 : i = 1
      OBVIOUS
    <3>4. \A k \in 1 .. width : (1 - 1) * width + k = k
      OBVIOUS
    <3>5. Len(f[1]) = 1 * width
      BY <3>2
    <3>. QED
      BY <3>2, <3>3, <3>4, <3>5 DEF Even
  <2>4. ASSUME NEW i \in Nat, i \in Reached
        PROVE  i + 1 \in Reached
    <3>1. SUFFICES ASSUME (i + 1) + 1 \in 1 .. n
                   PROVE  Even(seqs, width, f[(i + 1) + 1], (i + 1) + 1)
      OBVIOUS
    <3>. DEFINE j == i + 1
    <3>2. j \in Nat /\ j \in 1 .. n /\ j + 1 \in 1 .. n /\ j + 1 # 1 /\ (j + 1) - 1 = j
      BY <1>1, <3>1
    <3>3. Even(seqs, width, f[j], j)
      BY <2>4, <3>2
    <3>. HIDE DEF j
    <3>4. f[j + 1] = f[j] \o seqs[j + 1] /\ f[j] \in Seq(Byte)
      BY <2>2, <3>2
    <3>5. seqs[j + 1] \in Seq(Byte) /\ Len(seqs[j + 1]) = width
      BY <1>2, <3>2
    <3>6. Even(seqs, width, f[j] \o seqs[j + 1], j + 1)
      BY <3>2, <3>3, <3>4, <3>5, EvenStep
    <3>. QED
      BY <3>4, <3>6 DEF j
  <2>5. n - 1 \in Reached
    <3>1. Nat \subseteq Reached
      <4>. HIDE DEF Reached
      <4>. QED
        BY <2>3, <2>4, SetInduction
    <3>2. n - 1 \in Nat
      BY <1>1, <1>6
    <3>. QED
      BY <3>1, <3>2
  <2>6. (n - 1) + 1 = n /\ n \in 1 .. n
    BY <1>1, <1>6
  <2>7. Even(seqs, width, f[n], n)
    BY <2>5, <2>6
  <2>. QED
    BY <1>4, <2>2, <2>7 DEF n
<1>. QED
  BY <1>5, <1>6

\* Each element is stored where it is.
LEMMA EvenBlocks ==
  ASSUME NEW width \in {1, 2, 4, 8}, NEW seqs \in Seq([1 .. width -> Byte]),
         NEW mem \in Seq(Byte), NEW at, Block(mem, at, FlattenSeq(seqs))
  PROVE  \A i \in 1 .. Len(seqs) :
           seqs[i] \in [1 .. width -> Byte] /\ Block(mem, at - (i - 1) * width, seqs[i])
<1>. DEFINE flat == FlattenSeq(seqs)
            n == Len(seqs)
<1>1. flat \in Seq(Byte) /\ Even(seqs, width, flat, n)
  BY FlattenedEvenly
<1>2. TAKE i \in 1 .. Len(seqs)
<1>3. seqs[i] \in [1 .. width -> Byte] /\ n \in Nat
  BY ElementOfSeq, LenProperties
<1>4. seqs[i] \in Seq(Byte) /\ Len(seqs[i]) = width
  BY <1>3, SeqDef, LenProperties
<1>. DEFINE start == (i - 1) * width
            part == seqs[i]
<1>5. start \in Nat /\ start + width <= n * width
  BY <1>3
<1>6. Len(flat) = n * width /\ \A k \in 1 .. width : flat[start + k] = part[k]
  BY <1>1 DEF Even
<1>7. Block(mem, at, flat)
  OBVIOUS
<1>. HIDE DEF flat, start, part, n
<1>8. part \in Seq(Byte) /\ Len(part) = width
  BY <1>4 DEF part
<1>9. start + Len(part) <= Len(flat) /\ \A k \in 1 .. Len(part) : flat[start + k] = part[k]
  BY <1>5, <1>6, <1>8
<1>10. Block(mem, at - start, part)
  BY <1>1, <1>5, <1>7, <1>8, <1>9, BlockWithin
<1>. QED
  BY <1>3, <1>10 DEF start, part

LEMMA PaddingFills ==
  ASSUME NEW size \in Int, NEW n \in {1, 2, 4, 8}
  PROVE  /\ PaddingBytes(size, n) \in 0 .. n - 1 /\ PaddingBytes(size, n) \in Nat
         /\ (size + PaddingBytes(size, n)) % n = 0
         /\ (size % n = 0 => PaddingBytes(size, n) = 0)
BY DEF PaddingBytes

\* What padding aligns.
Padded(size, n) == PaddingBytes(size, n) \in Nat /\ (size + PaddingBytes(size, n)) % n = 0

LEMMA PaddingIsLess == \A size \in Int : \A n \in {1, 2, 4, 8} :
                         PaddingBytes(size, n) \in Nat /\ PaddingBytes(size, n) <= n
<1>. SUFFICES ASSUME NEW size \in Int, NEW n \in {1, 2, 4, 8}
              PROVE  PaddingBytes(size, n) \in Nat /\ PaddingBytes(size, n) <= n
  OBVIOUS
<1>1. PaddingBytes(size, n) \in 0 .. n - 1
  BY PaddingFills
<1>. QED
  BY <1>1

LEMMA PaddingPads == \A size \in Int : \A n \in {1, 2, 4, 8} : Padded(size, n)
BY PaddingFills DEF Padded

\* What is in the data of b is in that of c.
LEMMA GrownEnds ==
  ASSUME NEW b, NEW c, Fine(b), Grown(b, c)
  PROVE  /\ Data(b.buf) \in Seq(Byte) /\ Data(c.buf) \in Seq(Byte)
         /\ EndsWith(Data(c.buf), Data(b.buf))
         /\ Size(b) \in Nat /\ Size(c) \in Nat /\ Size(b) <= Size(c)
         /\ Len(Data(b.buf)) = Size(b) /\ Len(Data(c.buf)) = Size(c)
<1>1. Fine(c)
  BY DEF Grown
<1>2. EndsWith(Data(c.buf), Data(b.buf))
  BY DEF Grown, EndsWith
<1>. QED
  BY <1>1, <1>2, SizeFacts, GrownSize DEF Fine

LEMMA GrownBlocks ==
  ASSUME NEW b, NEW c, Fine(b), Grown(b, c)
  PROVE  \A off : \A bytes \in Seq(Byte) : Block(Data(b.buf), off, bytes) => Block(Data(c.buf), off, bytes)
<1>1. Data(b.buf) \in Seq(Byte) /\ EndsWith(Data(c.buf), Data(b.buf))
  BY GrownEnds
<1>. QED
  BY <1>1, BlocksStay

LEMMA AlignSize ==
  ASSUME NEW b, Fine(b), NEW n \in Nat \ {0}
  PROVE  Size(Align(b, n)) = Size(b) + PaddingBytes(Size(b), n)
<1>. DEFINE t == TrackMinAlign(b, n)
            pad == PaddingBytes(Size(b), n)
<1>1. Fine(t) /\ t.buf = b.buf
  BY TrackMinAlignGrows DEF Grown
<1>2. pad \in Nat
  BY SizeFacts, Padding
<1>3. Align(b, n) = Pad(t, pad)
  BY DEF Align
<1>. HIDE DEF t, pad
<1>4. Size(Pad(t, pad)) = Size(t) + pad
  BY <1>1, <1>2, PadGrows
<1>. QED
  BY <1>1, <1>3, <1>4 DEF Size, pad

LEMMA PreAlignSize ==
  ASSUME NEW b, Fine(b), NEW len \in Nat \ {0}, NEW n \in Nat \ {0}
  PROVE  Size(PreAlign(b, len, n)) = Size(b) + PaddingBytes(Size(b) + len, n)
<1>. DEFINE t == TrackMinAlign(b, n)
            pad == PaddingBytes(Size(b) + len, n)
<1>1. Fine(t) /\ t.buf = b.buf
  BY TrackMinAlignGrows DEF Grown
<1>2. pad \in Nat
  BY SizeFacts, Padding
<1>3. PreAlign(b, len, n) = Pad(t, pad)
  BY DEF PreAlign
<1>. HIDE DEF t, pad
<1>4. Size(Pad(t, pad)) = Size(t) + pad
  BY <1>1, <1>2, PadGrows
<1>. QED
  BY <1>1, <1>3, <1>4 DEF Size, pad

\* From b to c some bytes have been put at the front.
Puts(b, c, bytes) == Grown(b, c) /\ Block(Data(c.buf), Size(c), bytes)

LEMMA PushBytesPuts ==
  ASSUME NEW b, Fine(b), NEW bytes \in Seq(Byte)
  PROVE  LET c == PushBytes(b, bytes)
         IN  Puts(b, c, bytes) /\ Size(c) = Size(b) + Len(bytes) /\ c.ret = b.ret
<1>. DEFINE c == PushBytes(b, bytes)
<1>1. /\ Grown(b, c) /\ Data(c.buf) = bytes \o Data(b.buf)
      /\ c.ret = b.ret /\ Size(c) = Size(b) + Len(bytes)
  BY PushBytesGrows
<1>. HIDE DEF c
<1>2. Data(b.buf) \in Seq(Byte) /\ Len(Data(b.buf)) = Size(b) /\ Size(b) \in Nat /\ Len(bytes) \in Nat
  BY SizeFacts, LenProperties DEF Fine
<1>3. Block(Data(c.buf), Len(bytes) + Len(Data(b.buf)), bytes)
  BY <1>1, <1>2, BlockPushed
<1>4. Len(bytes) + Len(Data(b.buf)) = Size(c)
  BY <1>1, <1>2
<1>. QED
  BY <1>1, <1>3, <1>4 DEF Puts, c

LEMMA PushElementPuts ==
  ASSUME NEW b, Fine(b), NEW value \in Int, NEW width \in 1 .. 4
  PROVE  LET c == PushElement(b, value, width)
         IN  /\ Puts(b, c, Bytes(value, width)) /\ c.ret = Size(c)
             /\ Size(c) = Size(b) + PaddingBytes(Size(b), width) + width
<1>. DEFINE a == Align(b, width)
            bytes == Bytes(value, width)
            p == PushBytes(a, bytes)
            c == PushElement(b, value, width)
<1>0. width \in Nat \ {0} /\ width \in 0 .. 4
  OBVIOUS
<1>1. Grown(b, c) /\ c.ret = Size(c)
  BY PushElementGrows
<1>2. bytes \in Seq(Byte) /\ Len(bytes) = width
  BY <1>0, BytesFacts
<1>3. Fine(a) /\ Size(a) = Size(b) + PaddingBytes(Size(b), width)
  BY <1>0, AlignGrows, AlignSize DEF Grown
<1>4. c = Returning(p)
  BY DEF PushElement
<1>. HIDE DEF a, bytes
<1>5. Puts(a, p, bytes) /\ Size(p) = Size(a) + Len(bytes)
  BY <1>2, <1>3, PushBytesPuts
<1>6. Fine(p)
  BY <1>5 DEF Puts, Grown
<1>. HIDE DEF p
<1>7. c.buf = p.buf /\ Size(c) = Size(p)
  BY <1>4, <1>6, ReturningGrows
<1>8. Block(Data(c.buf), Size(c), bytes)
  BY <1>5, <1>7 DEF Puts
<1>. HIDE DEF c
<1>. QED
  BY <1>1, <1>2, <1>3, <1>5, <1>7, <1>8 DEF Puts, c, bytes

\* Where no padding is needed.
LEMMA PushAligned ==
  ASSUME NEW b, Fine(b), Size(b) % 4 = 0, NEW value \in Int
  PROVE  LET c == PushElement(b, value, 4)
         IN  Puts(b, c, Bytes(value, 4)) /\ c.ret = Size(c) /\ Size(c) = Size(b) + 4
<1>1. Size(b) \in Nat /\ 4 \in 1 .. 4
  BY SizeFacts
<1>2. PaddingBytes(Size(b), 4) = 0
  BY <1>1, PaddingFills
<1>3. LET c == PushElement(b, value, 4)
      IN  /\ Puts(b, c, Bytes(value, 4)) /\ c.ret = Size(c)
          /\ Size(c) = Size(b) + PaddingBytes(Size(b), 4) + 4
  BY <1>1, PushElementPuts
<1>. QED
  BY <1>1, <1>2, <1>3

----------------------------------------------------------------------------
(* Strings and vectors that are created are in the data.                   *)

\* From b to c a string has been written.
PutsText(b, c, str) ==
  Grown(b, c) /\ c.ret = Size(c) /\ TextIn(Data(c.buf), c.ret, str)

LEMMA CreateStringPuts ==
  ASSUME NEW b, Fine(b), ~b.nested, b.num_field_loc = 0, NEW str \in Seq(Byte), IsInt32(Len(str))
  PROVE  PutsText(b, CreateString(b, str), str)
<1>. DEFINE n == Len(str)
            p == PreAlign(b, n + 1, 4)
            q == Pad(p, 1)
            r == PushBytes(q, str)
            c == CreateString(b, str)
<1>0. n \in Nat /\ n + 1 \in Nat \ {0} /\ Size(b) \in Nat
  BY LenProperties, SizeFacts
<1>1. Grown(b, p) /\ Fine(p) /\ Size(p) = Size(b) + PaddingBytes(Size(b) + (n + 1), 4)
  <2>. DEFINE m == n + 1
  <2>1. m \in Nat \ {0} /\ 4 \in Nat \ {0} /\ m \in Nat
    BY <1>0
  <2>. HIDE DEF m
  <2>2. Grown(b, PreAlign(b, m, 4))
    BY <2>1, PreAlignGrows
  <2>3. Size(PreAlign(b, m, 4)) = Size(b) + PaddingBytes(Size(b) + m, 4)
    BY <2>1, PreAlignSize
  <2>. QED
    BY <2>2, <2>3 DEF m, Grown
<1>2. c = PushElement(r, n, 4)
  BY NotNestedHolds DEF CreateString
<1>3. Grown(b, c) /\ c.ret = Size(c)
  BY CreateStringGrows
<1>. HIDE DEF p
<1>4. Fine(q) /\ Size(q) = Size(p) + 1
  BY <1>1, PadGrows DEF Grown
<1>. HIDE DEF q
<1>5. Puts(q, r, str) /\ Size(r) = Size(q) + n
  BY <1>4, PushBytesPuts
<1>6. Fine(r)
  BY <1>5 DEF Puts, Grown
<1>. HIDE DEF r, c
<1>7. Size(r) % 4 = 0
  <2>1. (Size(b) + (n + 1) + PaddingBytes(Size(b) + (n + 1), 4)) % 4 = 0
    BY <1>0, PaddingFills
  <2>2. PaddingBytes(Size(b) + (n + 1), 4) \in Int
    BY <1>0, PaddingFills
  <2>3. Size(r) = Size(b) + (n + 1) + PaddingBytes(Size(b) + (n + 1), 4)
    <3>. HIDE DEF n
    <3>. QED
      BY <1>0, <1>1, <1>4, <1>5, <2>2
  <2>. QED
    BY <2>1, <2>3
<1>8. Puts(r, c, Bytes(n, 4)) /\ Size(c) = Size(r) + 4
  BY <1>0, <1>2, <1>6, <1>7, PushAligned
<1>9. Block(Data(c.buf), Size(c) - 4, str)
  <2>1. Block(Data(r.buf), Size(r), str)
    BY <1>5 DEF Puts
  <2>2. Block(Data(c.buf), Size(r), str)
    BY <1>6, <1>8, <2>1, GrownBlocks DEF Puts
  <2>3. Size(c) - 4 = Size(r)
    BY <1>6, <1>8, SizeFacts
  <2>. QED
    BY <2>2, <2>3
<1>11. Block(Data(c.buf), Size(c) - 4 - n, Zeros(1)) /\ Size(c) % 4 = 0
  <2>1. /\ Fine(p) /\ Data(q.buf) = Zeros(1) \o Data(p.buf) /\ Data(p.buf) \in Seq(Byte)
        /\ Len(Data(p.buf)) = Size(p) /\ Zeros(1) \in Seq(Byte) /\ Len(Zeros(1)) = 1
        /\ Size(p) \in Nat
    BY <1>1, PadGrows, ZerosAreBytes, SizeFacts DEF q, Fine
  <2>2. Block(Zeros(1) \o Data(p.buf), Len(Zeros(1)) + Len(Data(p.buf)), Zeros(1))
    BY <2>1, BlockPushed
  <2>3. Len(Zeros(1)) + Len(Data(p.buf)) = Size(q)
    <3>. DEFINE z == Len(Zeros(1))
                l == Len(Data(p.buf))
    <3>1. z = 1 /\ l = Size(p) /\ Size(p) \in Nat /\ Size(q) = Size(p) + 1
      BY <1>4, <2>1
    <3>. HIDE DEF z, l
    <3>2. z + l = Size(q)
      BY <3>1
    <3>. QED
      BY <3>2 DEF z, l
  <2>4. Block(Data(q.buf), Size(q), Zeros(1))
    BY <2>1, <2>2, <2>3
  <2>5. Grown(q, r) /\ Grown(r, c)
    BY <1>5, <1>8 DEF Puts
  <2>6. Block(Data(c.buf), Size(q), Zeros(1))
    BY <1>4, <1>6, <2>1, <2>4, <2>5, GrownBlocks
  <2>7. Size(q) \in Nat
    BY <1>4, <2>1
  <2>8. Size(c) - 4 - n = Size(q) /\ Size(c) % 4 = 0
    BY <1>0, <1>5, <1>7, <1>8, <2>7
  <2>. QED
    BY <2>6, <2>8
<1>10. TextIn(Data(c.buf), c.ret, str)
  BY <1>3, <1>8, <1>9, <1>11 DEF TextIn, Puts, n
<1>. QED
  BY <1>3, <1>10 DEF PutsText, c

\* Where the elements of a vector end and its length comes.
LEMMA EndVectorPuts ==
  ASSUME NEW b, Fine(b), ~b.nested, NEW d, d = Opened(b), NEW e, Grown(d, e),
         NEW len \in Nat
  PROVE  LET c == EndVector(e, len)
         IN  /\ Grown(b, c) /\ c.ret = Size(c) /\ Block(Data(c.buf), Size(c), Bytes(len, 4))
             /\ Data(e.buf) \in Seq(Byte) /\ EndsWith(Data(c.buf), Data(e.buf))
             /\ Size(c) = Size(e) + PaddingBytes(Size(e), 4) + 4 /\ Size(e) \in Nat
             /\ Size(c) % 4 = 0 /\ Size(e) + 4 <= Size(c)
<1>. DEFINE f == Closed(e)
            c == EndVector(e, len)
<1>1. Fine(d) /\ d.nested = TRUE
  BY OpenedFine
<1>2. Fine(e) /\ e.nested = TRUE
  BY <1>1 DEF Grown
<1>3. Fine(f) /\ f.buf = e.buf /\ f.nested = FALSE
  BY <1>2, OpenedFine
<1>4. c = PushElement(f, len, 4)
  BY <1>2, AssertingHolds DEF EndVector, Closed
<1>5. Grown(b, c) /\ c.ret = Size(c)
  BY EndVectorGrows
<1>. HIDE DEF f, c
<1>6. Puts(f, c, Bytes(len, 4)) /\ Size(c) = Size(f) + PaddingBytes(Size(f), 4) + 4
  <2>1. 4 \in 1 .. 4 /\ len \in Int
    OBVIOUS
  <2>. QED
    BY <1>3, <1>4, <2>1, PushElementPuts
<1>7. Data(f.buf) \in Seq(Byte) /\ EndsWith(Data(c.buf), Data(f.buf)) /\ Size(f) \in Nat
  BY <1>3, <1>6, GrownEnds DEF Puts
<1>8. Size(c) % 4 = 0 /\ Size(f) + 4 <= Size(c)
  <2>1. Padded(Size(f), 4)
    BY <1>7, PaddingPads
  <2>. QED
    BY <1>6, <1>7, <2>1 DEF Padded
<1>. QED
  BY <1>3, <1>5, <1>6, <1>7, <1>8 DEF c, Size, Puts

\* Aligned to 4 bytes and to the width of the elements.
LEMMA AlignedTwice ==
  ASSUME NEW x \in Int, x % 4 = 0, NEW width \in {1, 2, 4, 8}
  PROVE  (x + PaddingBytes(x, width)) % 4 = 0
<1>. DEFINE pad == PaddingBytes(x, width)
<1>1. (x + pad) % width = 0 /\ pad \in Nat
  BY PaddingFills
<1>. HIDE DEF pad
<1>2. CASE width = 8
  <2>1. (x + pad) % 8 = 0
    BY <1>1, <1>2
  <2>2. (x + pad) % 4 = 0
    BY <1>1, <2>1
  <2>. QED
    BY <2>2 DEF pad
<1>3. CASE width \in {1, 2, 4}
  <2>1. x % width = 0
    BY <1>3
  <2>2. PaddingBytes(x, width) = 0
    BY <2>1, PaddingFills
  <2>. QED
    BY <2>2
<1>. QED
  BY <1>2, <1>3

\* The elements of a vector that is not empty end where its length comes.
LEMMA StartVectorAligns ==
  ASSUME NEW b, Fine(b), ~b.nested, b.num_field_loc = 0,
         NEW len \in Nat \ {0}, NEW width \in {1, 2, 4, 8}
  PROVE  (Size(StartVector(b, len, width, width)) + (len * width)) % 4 = 0
<1>. DEFINE d == Opened(b)
            L == len * width
            p == PreAlign(d, L, 4)
            q == PreAlign(p, L, width)
<1>1. L \in Nat \ {0} /\ L \in Nat /\ 4 \in Nat \ {0} /\ width \in Nat \ {0}
  OBVIOUS
<1>2. Fine(d) /\ d.buf = b.buf
  BY OpenedFine
<1>3. q = StartVector(b, len, width, width)
  BY NotNestedHolds DEF StartVector, Opened
<1>. HIDE DEF d, L
<1>4. Fine(p) /\ Size(p) = Size(d) + PaddingBytes(Size(d) + L, 4)
  <2>1. Fine(p)
    BY <1>1, <1>2, PreAlignGrows DEF Grown
  <2>2. Size(p) = Size(d) + PaddingBytes(Size(d) + L, 4)
    BY <1>1, <1>2, PreAlignSize
  <2>. QED
    BY <2>1, <2>2
<1>. HIDE DEF p
<1>5. Size(q) = Size(p) + PaddingBytes(Size(p) + L, width)
  BY <1>1, <1>4, PreAlignSize
<1>. HIDE DEF q
<1>6. Size(d) + L \in Int /\ Size(p) + L \in Int /\ Size(p) \in Int /\ Size(d) \in Int
  BY <1>1, <1>2, <1>4, SizeFacts
<1>7. (Size(p) + L) % 4 = 0
  <2>. DEFINE s == Size(d) + L
  <2>0. s \in Int /\ 4 \in {1, 2, 4, 8}
    BY <1>6
  <2>. HIDE DEF s
  <2>3. Padded(s, 4)
    BY <2>0, PaddingPads
  <2>1. (s + PaddingBytes(s, 4)) % 4 = 0 /\ PaddingBytes(s, 4) \in Int
    BY <2>3 DEF Padded
  <2>. USE DEF s
  <2>2. Size(p) + L = (Size(d) + L) + PaddingBytes(Size(d) + L, 4)
    BY <1>1, <1>4, <1>6, <2>1
  <2>. QED
    BY <2>1, <2>2
<1>8. (Size(q) + L) % 4 = 0
  <2>1. ((Size(p) + L) + PaddingBytes(Size(p) + L, width)) % 4 = 0
    BY <1>6, <1>7, AlignedTwice
  <2>4. Padded(Size(p) + L, width)
    BY <1>6, PaddingPads
  <2>2. PaddingBytes(Size(p) + L, width) \in Int
    BY <2>4 DEF Padded
  <2>3. Size(q) + L = (Size(p) + L) + PaddingBytes(Size(p) + L, width)
    BY <1>1, <1>5, <1>6, <2>2
  <2>. QED
    BY <2>1, <2>3
<1>. QED
  BY <1>3, <1>8 DEF L

\* From b to c a vector of scalars has been written.
PutsScalars(b, c, elements, width) ==
  Grown(b, c) /\ c.ret = Size(c) /\ ScalarsIn(Data(c.buf), c.ret, elements, width)

LEMMA CreateVectorPuts ==
  ASSUME NEW b, Fine(b), ~b.nested, b.num_field_loc = 0,
         NEW width \in {1, 2, 4, 8}, NEW elements \in Seq([1 .. width -> Byte]),
         Size(CreateVector(b, elements, width)) < MaxBufferSize
  PROVE  PutsScalars(b, CreateVector(b, elements, width), elements, width)
<1>. DEFINE n == Len(elements)
            flat == FlattenSeq(elements)
            d == Opened(b)
            q == StartVector(b, n, width, width)
            e == PushBytes(q, flat)
            c == CreateVector(b, elements, width)
<1>1. n \in Nat
  BY LenProperties
<1>2. flat \in Seq(Byte) /\ Len(flat) = n * width
  BY FlattenedEvenly DEF Even
<1>3. c = EndVector(e, n)
  BY DEF CreateVector
<1>4. Fine(q) /\ Grown(d, q) /\ Fine(d)
  <2>1. width \in Nat \ {0}
    OBVIOUS
  <2>. HIDE DEF n, d
  <2>2. Fine(d) /\ Grown(d, q)
    BY <1>1, <2>1, StartVectorGrows DEF d
  <2>. QED
    BY <2>2 DEF Grown
<1>. DEFINE aligned == (Size(q) + (n * width)) % 4 = 0
<1>5. n # 0 => aligned
  <2>. HIDE DEF n, q
  <2>. QED
    BY <1>1, StartVectorAligns DEF q
<1>. HIDE DEF q, flat
<1>6. Puts(q, e, flat) /\ Size(e) = Size(q) + Len(flat) /\ Fine(e)
  BY <1>2, <1>4, PushBytesPuts DEF Puts, Grown
<1>7. Grown(d, e)
  BY <1>4, <1>6, GrownOn DEF Puts
<1>. HIDE DEF e, d, c
<1>8. /\ Grown(b, c) /\ c.ret = Size(c) /\ Block(Data(c.buf), Size(c), Bytes(n, 4))
      /\ Data(e.buf) \in Seq(Byte) /\ EndsWith(Data(c.buf), Data(e.buf))
      /\ Size(c) = Size(e) + PaddingBytes(Size(e), 4) + 4 /\ Size(e) \in Nat
      /\ Size(c) % 4 = 0 /\ Size(e) + 4 <= Size(c)
  <2>. HIDE DEF n
  <2>1. d = Opened(b)
    BY DEF d
  <2>. QED
    BY <1>1, <1>3, <1>7, <2>1, EndVectorPuts
<1>9. Fine(c) /\ Data(c.buf) \in Seq(Byte) /\ Size(q) \in Nat /\ Size(c) \in Nat
  BY <1>4, <1>8, SizeFacts DEF Grown, Fine
<1>. HIDE DEF n
<1>10. n <= n * width
  BY <1>1
<1>11. IsInt32(n)
  <2>2. n <= Size(c)
    <3>. DEFINE nw == n * width
    <3>1. nw \in Nat
      BY <1>1
    <3>. HIDE DEF nw
    <3>2. Size(e) = Size(q) + nw /\ n <= nw
      BY <1>2, <1>6, <1>10 DEF nw
    <3>3. Size(e) \in Nat /\ Size(e) + 4 <= Size(c)
      BY <1>8
    <3>. QED
      BY <1>1, <1>9, <3>1, <3>2, <3>3
  <2>3. Size(c) < MaxBufferSize
    BY DEF c
  <2>. QED
    BY <1>1, <1>9, <2>2, <2>3 DEF IsInt32, MaxBufferSize
<1>12. ASSUME NEW i \in 1 .. n
       PROVE  /\ elements[i] \in [1 .. width -> Byte]
              /\ Block(Data(c.buf), c.ret - 4 - (i - 1) * width, elements[i])
  <2>1. n # 0
    BY <1>1
  <2>2. Size(c) - 4 = Size(e)
    <3>1. Size(e) % 4 = 0
      BY <1>2, <1>5, <1>6, <2>1
    <3>2. PaddingBytes(Size(e), 4) = 0
      BY <1>8, <3>1, PaddingFills
    <3>. QED
      BY <1>8, <3>2
  <2>3. Block(Data(e.buf), Size(e), flat)
    BY <1>6 DEF Puts
  <2>4. Block(Data(c.buf), Size(e), flat)
    BY <1>2, <1>8, <2>3, BlocksStay
  <2>5. \A j \in 1 .. n : elements[j] \in [1 .. width -> Byte]
                          /\ Block(Data(c.buf), Size(e) - (j - 1) * width, elements[j])
    BY <1>9, <2>4, EvenBlocks DEF flat, n
  <2>. QED
    BY <1>8, <2>2, <2>5
<1>14. 4 + width * n <= Size(c)
  <2>. DEFINE nw == n * width
  <2>1. nw \in Nat /\ width * n = nw
    BY <1>1
  <2>. HIDE DEF nw
  <2>2. Size(e) = Size(q) + nw
    BY <1>2, <1>6 DEF nw
  <2>. QED
    BY <1>8, <1>9, <2>1, <2>2
<1>13. ScalarsIn(Data(c.buf), c.ret, elements, width)
  BY <1>8, <1>11, <1>12, <1>14 DEF ScalarsIn, n
<1>. QED
  BY <1>8, <1>13 DEF PutsScalars, c

\* The distance to an object is in the data, if there is room for it.
PutsOffset(b, c, off) ==
  /\ Grown(b, c) /\ c.ret = Size(c)
  /\ (Size(b) % 4 = 0 => Size(c) = Size(b) + 4) /\ Size(c) <= Size(b) + 8
  /\ (Size(c) < MaxBufferSize => Leads(Data(c.buf), Size(c), off))

LEMMA PushOffsetPuts ==
  ASSUME NEW b, Fine(b), NEW off \in 1 .. Size(b)
  PROVE  PutsOffset(b, PushOffset(b, off), off)
<1>. DEFINE a == Align(b, 4)
            value == Size(a) - off + 4
            c == PushOffset(b, off)
<1>1. Grown(b, a) /\ Size(a) = Size(b) + PaddingBytes(Size(b), 4)
  BY AlignGrows, AlignSize
<1>2. Fine(a) /\ Size(b) \in Nat /\ Size(a) \in Nat /\ Size(b) <= Size(a)
  BY <1>1, GrownSize, SizeFacts
<1>3. Size(a) % 4 = 0 /\ (Size(b) % 4 = 0 => Size(a) = Size(b)) /\ Size(a) <= Size(b) + 4
  <2>1. Padded(Size(b), 4)
    BY <1>2, PaddingPads
  <2>2. Size(b) % 4 = 0 => PaddingBytes(Size(b), 4) = 0
    BY <1>2, PaddingFills
  <2>3. PaddingBytes(Size(b), 4) <= 4
    BY <1>2, PaddingIsLess
  <2>. HIDE DEF a
  <2>. QED
    BY <1>1, <1>2, <2>1, <2>2, <2>3 DEF Padded
<1>. HIDE DEF a
<1>4. (off # 0 /\ off <= Size(a)) = TRUE /\ value \in Int
  BY <1>2
<1>5. c = PushElement(a, value, 4)
  BY <1>2, <1>4, AssertingHolds DEF PushOffset, PushDistance, a
<1>6. Grown(b, c) /\ c.ret = Size(c)
  BY PushOffsetGrows
<1>. HIDE DEF c, value
<1>7. Puts(a, c, Bytes(value, 4)) /\ Size(c) = Size(a) + 4
  BY <1>2, <1>3, <1>4, <1>5, PushAligned
<1>8. value = Size(c) - off /\ off <= Size(c)
  BY <1>2, <1>7 DEF value
<1>10. Size(c) <= Size(b) + 8
  BY <1>2, <1>3, <1>7
<1>9. Size(c) < MaxBufferSize => Leads(Data(c.buf), Size(c), off)
  <2>1. Block(Data(c.buf), Size(c), Bytes(Size(c) - off, 4))
    BY <1>7, <1>8 DEF Puts
  <2>2. Size(c) < MaxBufferSize => IsInt32(Size(c) - off)
    BY <1>2, <1>7, <1>8 DEF IsInt32, MaxBufferSize
  <2>3. Size(c) % 4 = 0 /\ 0 < off /\ off < Size(c)
    BY <1>2, <1>3, <1>7
  <2>. QED
    BY <2>1, <2>2, <2>3 DEF Leads
<1>. QED
  BY <1>3, <1>6, <1>7, <1>9, <1>10 DEF PutsOffset, c

\* The last i of n offsets have been put one after the other.
OffsetsPut(b, c, offs, n, i) ==
  /\ Size(c) = Size(b) + 4 * i
  /\ (Size(c) < MaxBufferSize =>
       \A j \in 1 .. i : Leads(Data(c.buf), Size(b) + 4 * j, offs[n - j + 1]))

LEMMA OnePut ==
  ASSUME NEW b, Fine(b), Size(b) % 4 = 0, NEW offs, NEW n \in Nat, NEW i \in 0 .. n - 1,
         NEW c, Fine(c), OffsetsPut(b, c, offs, n, i), NEW off, off = offs[n - (i + 1) + 1],
         NEW d, PutsOffset(c, d, off)
  PROVE  OffsetsPut(b, d, offs, n, i + 1)
<1>1. Size(b) \in Nat /\ Size(c) = Size(b) + 4 * i
  BY SizeFacts DEF OffsetsPut
<1>2. Size(c) % 4 = 0
  BY <1>1
<1>3. Size(d) = Size(c) + 4 /\ Grown(c, d)
  BY <1>2 DEF PutsOffset
<1>4. Size(d) = Size(b) + 4 * (i + 1)
  BY <1>1, <1>3
<1>5. ASSUME Size(d) < MaxBufferSize, NEW j \in 1 .. i + 1
      PROVE  Leads(Data(d.buf), Size(b) + 4 * j, offs[n - j + 1])
  <2>1. CASE j = i + 1
    <3>1. Leads(Data(d.buf), Size(d), off)
      BY <1>5 DEF PutsOffset
    <3>. QED
      BY <1>4, <2>1, <3>1
  <2>2. CASE j # i + 1
    <3>1. j \in 1 .. i
      BY <2>2
    <3>2. Size(c) < MaxBufferSize
      BY <1>1, <1>3, <1>5 DEF MaxBufferSize
    <3>3. Leads(Data(c.buf), Size(b) + 4 * j, offs[n - j + 1])
      BY <3>1, <3>2 DEF OffsetsPut
    <3>4. Data(c.buf) \in Seq(Byte) /\ EndsWith(Data(d.buf), Data(c.buf))
      BY <1>3, GrownEnds
    <3>. QED
      BY <3>3, <3>4, LeadsStay
  <2>. QED
    BY <2>1, <2>2
<1>. QED
  BY <1>4, <1>5 DEF OffsetsPut

LEMMA PushOffsetsPut ==
  ASSUME NEW b, Fine(b), Size(b) % 4 = 0, NEW offs \in Seq(1 .. Size(b))
  PROVE  OffsetsPut(b, PushOffsets(b, offs), offs, Len(offs), Len(offs))
<1>. DEFINE n == Len(offs)
<1>1. PICK f : PushedBy(b, offs, f)
  BY PushOffsetsSteps
<1>2. /\ f[0] = b /\ PushOffsets(b, offs) = f[n]
      /\ \A i \in 0 .. n : Grown(b, f[i])
      /\ \A i \in 1 .. n : f[i] = PushOffset(f[i - 1], offs[n - i + 1])
  BY <1>1 DEF PushedBy
<1>3. n \in Nat /\ \A i \in 1 .. n : offs[i] \in 1 .. Size(b)
  BY LenProperties, ElementOfSeq
<1>. DEFINE Reached == {i \in Nat : i \in 0 .. n => OffsetsPut(b, f[i], offs, n, i)}
<1>. HIDE DEF n
<1>4. 0 \in Reached
  <2>1. Size(b) = Size(b) + 4 * 0
    BY SizeFacts
  <2>2. \A j \in 1 .. 0 : FALSE
    OBVIOUS
  <2>3. OffsetsPut(b, b, offs, n, 0)
    BY <2>1, <2>2 DEF OffsetsPut
  <2>. QED
    BY <1>2, <2>3
<1>5. ASSUME NEW i \in Nat, i \in Reached
      PROVE  i + 1 \in Reached
  <2>1. SUFFICES ASSUME i + 1 \in 0 .. n PROVE OffsetsPut(b, f[i + 1], offs, n, i + 1)
    OBVIOUS
  <2>2. i \in 0 .. n /\ i \in 0 .. n - 1 /\ i + 1 \in 1 .. n /\ (i + 1) - 1 = i
        /\ n - (i + 1) + 1 \in 1 .. n
    BY <1>3, <2>1
  <2>. DEFINE off == offs[n - (i + 1) + 1]
  <2>3. OffsetsPut(b, f[i], offs, n, i) /\ Grown(b, f[i])
    BY <1>2, <1>5, <2>2
  <2>4. Fine(f[i]) /\ off \in 1 .. Size(f[i])
    <3>1. Fine(f[i]) /\ Size(b) <= Size(f[i]) /\ Size(f[i]) \in Nat /\ Size(b) \in Nat
      BY <2>3, GrownSize, SizeFacts
    <3>2. off \in 1 .. Size(b)
      BY <1>3, <2>2
    <3>. QED
      BY <3>1, <3>2
  <2>5. f[i + 1] = PushOffset(f[i], off)
    BY <1>2, <2>2
  <2>. DEFINE c == f[i]
              d == f[i + 1]
  <2>6. off = offs[n - (i + 1) + 1] /\ Fine(c) /\ off \in 1 .. Size(c)
        /\ OffsetsPut(b, c, offs, n, i) /\ d = PushOffset(c, off)
    BY <2>3, <2>4, <2>5
  <2>. HIDE DEF c, d, off
  <2>7. PutsOffset(c, d, off)
    BY <2>6, PushOffsetPuts
  <2>8. OffsetsPut(b, d, offs, n, i + 1)
    BY <1>3, <2>2, <2>6, <2>7, OnePut
  <2>. QED
    BY <2>8 DEF d
<1>6. n \in Reached
  <2>1. Nat \subseteq Reached
    <3>. HIDE DEF Reached
    <3>. QED
      BY <1>4, <1>5, SetInduction
  <2>. QED
    BY <1>3, <2>1
<1>7. OffsetsPut(b, f[n], offs, n, n)
  BY <1>3, <1>6
<1>. QED
  BY <1>2, <1>7 DEF n

\* From b to c a vector of offsets has been written.
PutsOffsets(b, c, offs) ==
  Grown(b, c) /\ c.ret = Size(c) /\ TablesIn(Data(c.buf), c.ret, offs)

LEMMA CreateVectorOfOffsetsPuts ==
  ASSUME NEW b, Fine(b), ~b.nested, b.num_field_loc = 0, NEW offs \in Seq(1 .. Size(b)),
         Size(CreateVectorOfOffsets(b, offs)) < MaxBufferSize
  PROVE  PutsOffsets(b, CreateVectorOfOffsets(b, offs), offs)
<1>. DEFINE n == Len(offs)
            d == Opened(b)
            q == StartVector(b, n, 4, 4)
            e == PushOffsets(q, offs)
            c == CreateVectorOfOffsets(b, offs)
<1>1. n \in Nat
  BY LenProperties
<1>2. c = EndVector(e, n)
  BY DEF CreateVectorOfOffsets
<1>3. Fine(q) /\ Grown(d, q) /\ Fine(d) /\ d.buf = b.buf
  <2>1. 4 \in Nat \ {0}
    OBVIOUS
  <2>. HIDE DEF n, d
  <2>2. Fine(d) /\ Grown(d, q)
    BY <1>1, <2>1, StartVectorGrows DEF d
  <2>3. d.buf = b.buf
    BY OpenedFine DEF d
  <2>. QED
    BY <2>2, <2>3 DEF Grown
<1>. DEFINE aligned == (Size(q) + (n * 4)) % 4 = 0
<1>4. n # 0 => aligned
  <2>1. 4 \in {1, 2, 4, 8}
    OBVIOUS
  <2>. HIDE DEF n, q
  <2>. QED
    BY <1>1, <2>1, StartVectorAligns DEF q
<1>5. offs \in Seq(1 .. Size(q))
  <2>. HIDE DEF q, d
  <2>1. Size(d) = Size(b) /\ Size(d) <= Size(q) /\ Size(q) \in Nat /\ Size(b) \in Nat
    BY <1>3, GrownSize, SizeFacts DEF Size
  <2>2. 1 .. Size(b) \subseteq 1 .. Size(q)
    BY <2>1
  <2>. QED
    BY <2>2, SeqMonotonic
<1>. HIDE DEF q
<1>6. Grown(q, e)
  BY <1>3, <1>5, PushOffsetsGrows
<1>7. n # 0 => OffsetsPut(q, e, offs, n, n)
  <2>1. SUFFICES ASSUME n # 0 PROVE OffsetsPut(q, e, offs, n, n)
    OBVIOUS
  <2>2. Size(q) % 4 = 0
    <3>. HIDE DEF n
    <3>1. (Size(q) + (n * 4)) % 4 = 0 /\ Size(q) \in Nat
      BY <1>3, <1>4, <2>1, SizeFacts
    <3>. QED
      BY <1>1, <3>1
  <2>. QED
    BY <1>3, <1>5, <2>2, PushOffsetsPut
<1>. HIDE DEF e
<1>8. Grown(d, e)
  BY <1>3, <1>6, GrownOn
<1>. HIDE DEF d, c
<1>9. /\ Grown(b, c) /\ c.ret = Size(c) /\ Block(Data(c.buf), Size(c), Bytes(n, 4))
      /\ Data(e.buf) \in Seq(Byte) /\ EndsWith(Data(c.buf), Data(e.buf))
      /\ Size(c) = Size(e) + PaddingBytes(Size(e), 4) + 4 /\ Size(e) \in Nat
      /\ Size(c) % 4 = 0 /\ Size(e) + 4 <= Size(c)
  <2>. HIDE DEF n
  <2>1. d = Opened(b)
    BY DEF d
  <2>. QED
    BY <1>1, <1>2, <1>8, <2>1, EndVectorPuts
<1>. HIDE DEF n
<1>10. Size(q) \in Nat /\ Size(c) \in Nat /\ Size(c) < MaxBufferSize
  <2>1. Size(q) \in Nat
    BY <1>3, SizeFacts
  <2>2. Size(c) \in Nat
    BY <1>9, GrownSize
  <2>. QED
    BY <2>1, <2>2 DEF c
<1>11. n # 0 => Size(e) = Size(q) + 4 * n /\ Size(c) = Size(e) + 4
  <2>1. SUFFICES ASSUME n # 0 PROVE Size(e) = Size(q) + 4 * n /\ Size(c) = Size(e) + 4
    OBVIOUS
  <2>2. Size(e) = Size(q) + 4 * n
    BY <1>7, <2>1 DEF OffsetsPut
  <2>3. Size(e) % 4 = 0
    BY <1>1, <1>4, <1>10, <2>1, <2>2
  <2>4. PaddingBytes(Size(e), 4) = 0
    BY <1>9, <2>3, PaddingFills
  <2>. QED
    BY <1>9, <2>2, <2>4
<1>12. IsInt32(n)
  BY <1>1, <1>10, <1>11 DEF IsInt32, MaxBufferSize
<1>13. ASSUME NEW i \in 1 .. n
       PROVE  Leads(Data(c.buf), c.ret - 4 - (i - 1) * 4, offs[i])
  <2>. DEFINE j == n - i + 1
  <2>1. n # 0 /\ j \in 1 .. n /\ n - j + 1 = i
    BY <1>1
  <2>2. Size(e) < MaxBufferSize
    BY <1>9, <1>10, <1>11, <2>1 DEF MaxBufferSize
  <2>3. Leads(Data(e.buf), Size(q) + 4 * j, offs[n - j + 1])
    <3>. HIDE DEF j
    <3>. QED
      BY <1>7, <2>1, <2>2 DEF OffsetsPut
  <2>4. Size(q) + 4 * j = c.ret - 4 - (i - 1) * 4
    BY <1>1, <1>9, <1>10, <1>11, <2>1
  <2>. HIDE DEF j
  <2>5. Leads(Data(e.buf), c.ret - 4 - (i - 1) * 4, offs[i])
    BY <2>1, <2>3, <2>4
  <2>. QED
    BY <1>9, <2>5, LeadsStay
<1>14. TablesIn(Data(c.buf), c.ret, offs)
  <2>1. Block(Data(c.buf), c.ret, Bytes(n, 4)) /\ c.ret % 4 = 0
    BY <1>9
  <2>2. 4 + 4 * n <= c.ret
    BY <1>1, <1>9, <1>10, <1>11
  <2>. QED
    BY <1>12, <1>13, <2>1, <2>2 DEF TablesIn, n
<1>. QED
  BY <1>9, <1>14 DEF PutsOffsets, c

----------------------------------------------------------------------------
(* Shared strings.                                                         *)

\* What was at the front is popped off.
PopsTo(v, w, below) == Good(w, Cell) /\ Scratch(w) = Scratch(v) /\ Data(w) = below

LEMMA PoppedOff ==
  ASSUME NEW b, Fine(b), NEW below \in Seq(Byte), EndsWith(Data(b.buf), below)
  PROVE  PopsTo(b.buf, Pop(b.buf, Size(b) - Len(below)), below) /\ Len(below) <= Size(b)
<1>. DEFINE n == Size(b) - Len(below)
            v == Pop(b.buf, n)
<1>0. PICK bytes \in Seq(Byte) : Data(b.buf) = bytes \o below
  BY DEF EndsWith
<1>1. Len(Data(b.buf)) = Len(bytes) + Len(below) /\ Len(bytes) \in Nat /\ Len(below) \in Nat
  BY <1>0, Joined, LenProperties
<1>2. Len(Data(b.buf)) = Size(b)
  BY SizeFacts
<1>3. n = Len(bytes) /\ n \in Nat /\ n <= Size(b) /\ Len(below) <= Size(b)
  BY <1>1, <1>2
<1>. HIDE DEF n
<1>4. Good(b.buf, Cell) /\ n <= b.buf.size
  BY <1>3 DEF Fine, Size
<1>5. /\ Good(v, Cell) /\ Scratch(v) = Scratch(b.buf)
      /\ Data(v) = SubSeq(Data(b.buf), n + 1, Len(Data(b.buf)))
  BY <1>3, <1>4, Cells, Popped
<1>6. SubSeq(bytes \o below, Len(bytes) + 1, Len(bytes \o below)) = below
  BY DropFront
<1>. HIDE DEF v
<1>7. PopsTo(b.buf, v, below)
  BY <1>0, <1>3, <1>5, <1>6 DEF PopsTo
<1>. QED
  BY <1>3, <1>7 DEF v, n

LEMMA TextIsOne ==
  ASSUME NEW mem \in Seq(Byte), NEW off, NEW s \in Seq(Byte), NEW t \in Seq(Byte),
         TextIn(mem, off, s), TextIn(mem, off, t)
  PROVE  s = t
BY TextIsRead

\* The strings of the pool are in the data, each of them once.
PoolIn(mem, pool) ==
  /\ \A o \in pool : \E str \in Seq(Byte) : TextIn(mem, o, str)
  /\ \A o, p \in pool : \A str \in Seq(Byte) :
       TextIn(mem, o, str) /\ TextIn(mem, p, str) => o = p

LEMMA PoolStays ==
  ASSUME NEW mem \in Seq(Byte), NEW new \in Seq(Byte), EndsWith(new, mem), NEW pool, PoolIn(mem, pool)
  PROVE  PoolIn(new, pool)
<1>1. \A o \in pool : \E str \in Seq(Byte) : TextIn(mem, o, str) /\ TextIn(new, o, str)
  BY TextStays DEF PoolIn
<1>2. ASSUME NEW o \in pool, NEW str \in Seq(Byte), TextIn(new, o, str)
      PROVE  TextIn(mem, o, str)
  BY <1>1, <1>2, TextIsOne
<1>. QED
  BY <1>1, <1>2 DEF PoolIn

\* A new string in the pool.
LEMMA PoolGrows ==
  ASSUME NEW mem \in Seq(Byte), NEW pool, PoolIn(mem, pool),
         NEW off, NEW str \in Seq(Byte), TextIn(mem, off, str),
         \A o \in pool : ~TextIn(mem, o, str)
  PROVE  PoolIn(mem, pool \cup {off})
<1>. DEFINE new == pool \cup {off}
<1>1. \A o \in new : \E s \in Seq(Byte) : TextIn(mem, o, s)
  BY DEF PoolIn
<1>2. ASSUME NEW o \in new, NEW p \in new, NEW s \in Seq(Byte),
             TextIn(mem, o, s), TextIn(mem, p, s)
      PROVE  o = p
  <2>1. CASE s = str
    BY <1>2, <2>1
  <2>2. CASE s # str
    <3>1. o # off /\ p # off
      BY <1>2, <2>2, TextIsOne
    <3>. QED
      BY <1>2, <3>1 DEF PoolIn
  <2>. QED
    BY <2>1, <2>2
<1>. QED
  BY <1>1, <1>2 DEF PoolIn

\* What is looked up is looked up by what the strings hold.
LEMMA SameStringIs ==
  ASSUME NEW c, Fine(c), PoolIn(Data(c.buf), c.string_pool), NEW off, NEW str \in Seq(Byte),
         TextIn(Data(c.buf), off, str)
  PROVE  SameString(c, off) = {o \in c.string_pool : TextIn(Data(c.buf), o, str)}
<1>. DEFINE mem == Data(c.buf)
<1>1. mem \in Seq(Byte) /\ Len(mem) = Size(c)
  BY SizeFacts DEF Fine
<1>2. \A o : StringAt(c, o) = StringBytes(mem, Position(mem, o))
  BY <1>1 DEF StringAt, Position
<1>. HIDE DEF mem
<1>3. TextIn(mem, off, str) /\ PoolIn(mem, c.string_pool)
  BY DEF mem
<1>4. StringAt(c, off) = str
  BY <1>1, <1>2, <1>3, TextIsRead
<1>5. ASSUME NEW o \in c.string_pool
      PROVE  StringAt(c, o) = str <=> TextIn(mem, o, str)
  <2>1. PICK s \in Seq(Byte) : TextIn(mem, o, s)
    BY <1>3 DEF PoolIn
  <2>2. StringAt(c, o) = s
    BY <1>1, <1>2, <2>1, TextIsRead
  <2>3. TextIn(mem, o, str) => s = str
    BY <1>1, <2>1, TextIsOne
  <2>. QED
    BY <2>1, <2>2, <2>3
<1>. QED
  BY <1>4, <1>5 DEF SameString, mem

\* From b to e a string is in the data and in the pool.
PutsShared(b, e, str) ==
  /\ Data(e.buf) \in Seq(Byte) /\ EndsWith(Data(e.buf), Data(b.buf))
  /\ Scratch(e.buf) = Scratch(b.buf) /\ TextIn(Data(e.buf), e.ret, str)
  /\ PoolIn(Data(e.buf), e.string_pool) /\ e.ret \in e.string_pool
  /\ b.string_pool \subseteq e.string_pool /\ e.max_voffset = b.max_voffset

LEMMA EndsWithItself ==
  ASSUME NEW mem \in Seq(Byte)
  PROVE  EndsWith(mem, mem)
<1>1. mem = <<>> \o mem /\ <<>> \in Seq(Byte)
  BY EmptySeq, ConcatEmptySeq
<1>. QED
  BY <1>1 DEF EndsWith

LEMMA CreateSharedStringPuts ==
  ASSUME NEW b, Fine(b), ~b.nested, b.num_field_loc = 0, NEW str \in Seq(Byte), IsInt32(Len(str)),
         PoolIn(Data(b.buf), b.string_pool)
  PROVE  PutsShared(b, CreateSharedString(b, str), str)
<1>. DEFINE c == CreateString(b, str)
            found == SameString(c, c.ret)
            e == CreateSharedString(b, str)
<1>1. Grown(b, c) /\ c.ret = Size(c) /\ TextIn(Data(c.buf), c.ret, str)
  BY CreateStringPuts DEF PutsText
<1>2. e = ShareString(c, found, Size(b))
  BY DEF CreateSharedString, ShareLast
<1>. HIDE DEF c, e
<1>3. /\ Data(b.buf) \in Seq(Byte) /\ Data(c.buf) \in Seq(Byte) /\ EndsWith(Data(c.buf), Data(b.buf))
      /\ Len(Data(b.buf)) = Size(b)
  BY <1>1, GrownEnds
<1>4. Fine(c) /\ Scratch(c.buf) = Scratch(b.buf) /\ c.string_pool = b.string_pool
      /\ c.max_voffset = b.max_voffset
  BY <1>1 DEF Grown
<1>5. PoolIn(Data(c.buf), c.string_pool)
  BY <1>3, <1>4, PoolStays
<1>6. found = {o \in c.string_pool : TextIn(Data(c.buf), o, str)}
  BY <1>1, <1>4, <1>5, SameStringIs
<1>. HIDE DEF found
<1>7. CASE found = {}
  <2>. DEFINE pool == c.string_pool \cup {c.ret}
  <2>1. e = [c EXCEPT !.string_pool = pool]
    BY <1>2, <1>7 DEF ShareString
  <2>2. PoolIn(Data(c.buf), pool)
    BY <1>1, <1>3, <1>5, <1>6, <1>7, PoolGrows
  <2>. HIDE DEF pool
  <2>3. e.buf = c.buf /\ e.ret = c.ret /\ e.string_pool = pool
        /\ e.max_voffset = b.max_voffset
    BY <1>4, <2>1 DEF Fine
  <2>4. e.ret \in e.string_pool /\ b.string_pool \subseteq e.string_pool
    BY <1>4, <2>3 DEF pool
  <2>. QED
    BY <1>1, <1>3, <1>4, <2>2, <2>3, <2>4 DEF PutsShared, e
<1>8. CASE found # {}
  <2>. DEFINE old == CHOOSE o \in found : TRUE
              n == Size(c) - Size(b)
              v == Pop(c.buf, n)
  <2>1. old \in c.string_pool /\ TextIn(Data(c.buf), old, str)
    BY <1>6, <1>8
  <2>2. e = [c EXCEPT !.buf = v, !.ret = old]
    BY <1>2, <1>8 DEF ShareString
  <2>4. Scratch(v) = Scratch(c.buf) /\ Data(v) = Data(b.buf)
    <3>. HIDE DEF v
    <3>1. PopsTo(c.buf, Pop(c.buf, Size(c) - Len(Data(b.buf))), Data(b.buf))
      BY <1>3, <1>4, PoppedOff
    <3>. QED
      BY <1>3, <3>1 DEF PopsTo, v
  <2>. HIDE DEF v, old
  <2>5. e.buf = v /\ e.ret = old /\ e.string_pool = b.string_pool
        /\ e.max_voffset = b.max_voffset
    BY <1>4, <2>2 DEF Fine
  <2>6. TextIn(Data(b.buf), old, str)
    <3>1. PICK s \in Seq(Byte) : TextIn(Data(b.buf), old, s)
      BY <1>4, <2>1 DEF PoolIn
    <3>2. TextIn(Data(c.buf), old, s)
      BY <1>3, <3>1, TextStays
    <3>3. s = str
      BY <1>3, <2>1, <3>2, TextIsOne
    <3>. QED
      BY <3>1, <3>3
  <2>7. EndsWith(Data(b.buf), Data(b.buf))
    BY <1>3, EndsWithItself
  <2>. QED
    BY <1>3, <1>4, <2>1, <2>4, <2>5, <2>6, <2>7 DEF PutsShared, e
<1>. QED
  BY <1>7, <1>8

----------------------------------------------------------------------------
(* The scratch pad: what is kept in it, and the fields over that.          *)

LEMMA ReadsFourBytes ==
  ASSUME NEW v, IsInt32(v), NEW s, NEW p, \A k \in 1 .. 4 : s[p + k] = Bytes(v, 4)[k]
  PROVE  ReadScalar(s, p, 4) = v
<1>0. v \in Int /\ v <= MaxBufferSize /\ v >= -MaxBufferSize - 1
  BY DEF IsInt32
<1>1. \A k \in 1 .. 4 : Bytes(v, 4)[k] = (v \div Place[k]) % 256
  <2>1. 4 \in 0 .. 4 /\ v \in Int
    BY <1>0
  <2>. QED
    BY <2>1, BytesFacts
<1>2. /\ s[p + 1] = (v \div 1) % 256 /\ s[p + 2] = (v \div 256) % 256
      /\ s[p + 3] = (v \div 65536) % 256 /\ s[p + 4] = (v \div 16777216) % 256
  BY <1>1 DEF Place
<1>3. ReadScalar(s, p, 4) = Signed(s[p + 1], s[p + 2], s[p + 3], s[p + 4])
  BY DEF ReadScalar, Signed
<1>. QED
  BY <1>0, <1>2, <1>3, FourBytesRead

\* Below the fields of the table that is being built, s is kept.
Keeps(b, s) ==
  /\ s \in Seq(Byte) /\ Len(s) = Len(Scratch(b.buf)) - b.num_field_loc * FieldLocSize
  /\ \A k \in 1 .. Len(s) : Scratch(b.buf)[k] = s[k]

LEMMA LocBytesBegin ==
  ASSUME NEW off \in Nat, NEW field \in Nat
  PROVE  \A j \in 1 .. 4 : LocBytes(off, field)[j] = Bytes(off, 4)[j]
<1>. DEFINE x == Bytes(off, 4)
            y == Bytes(field, 2)
            z == <<Undefined, Undefined>>
            w == x \o y
<1>1. x \in Seq(Cell) /\ Len(x) = 4 /\ y \in Seq(Cell)
  <2>1. off \in Int /\ field \in Int /\ 4 \in 0 .. 4 /\ 2 \in 0 .. 4
    OBVIOUS
  <2>2. x \in Seq(Byte) /\ Len(x) = 4 /\ y \in Seq(Byte)
    BY <2>1, BytesFacts
  <2>. QED
    BY <2>2, BytesAreCells
<1>2. z \in Seq(Cell)
  BY Cells
<1>. HIDE DEF x, y, z
<1>3. w \in Seq(Cell) /\ Len(w) = Len(x) + Len(y) /\ \A j \in 1 .. Len(x) : w[j] = x[j]
  <2>1. x \in Seq(Cell) /\ y \in Seq(Cell)
    BY <1>1
  <2>. QED
    BY <2>1, Joined
<1>4. Len(y) \in Nat
  BY <1>1, LenProperties
<1>. HIDE DEF w
<1>5. \A j \in 1 .. Len(w) : (w \o z)[j] = w[j]
  BY <1>2, <1>3, Joined
<1>6. \A j \in 1 .. 4 : (w \o z)[j] = x[j]
  BY <1>1, <1>3, <1>4, <1>5
<1>. QED
  BY <1>6 DEF LocBytes, w, x, y, z

\* From b to c a field at off has been put over those there are, which stay.
Places(b, c, field, off) ==
  /\ Locs(c)[b.num_field_loc + 1].off = off
  /\ \A s : Keeps(b, s) => Keeps(c, s)
  /\ c.max_voffset = IF field > b.max_voffset THEN field ELSE b.max_voffset
  /\ c.string_pool = b.string_pool

LEMMA TrackFieldPlaces ==
  ASSUME NEW b, Sound(b), NEW off \in Nat, off < MaxBufferSize, NEW field, IsVoffset(field)
  PROVE  Places(b, TrackField(b, field, off), field, off)
<1>0. field \in Nat
  BY DEF IsVoffset
<1>. DEFINE c == TrackField(b, field, off)
            n == b.num_field_loc
            s == Scratch(b.buf)
            u == LocBytes(off, field)
            t == s \o u
            length == Len(s)
            v == ScratchPush(b.buf, u)
            m == IF field > b.max_voffset THEN field ELSE b.max_voffset
<1>1. /\ u \in Seq(Cell) /\ Len(u) = FieldLocSize
      /\ \A j \in 1 .. 4 : u[j] = Bytes(off, 4)[j]
  BY <1>0, LocBytesFacts, LocBytesBegin
<1>2. Fine(b) /\ Good(b.buf, Cell)
  BY DEF Sound, Fine
<1>3. c = [b EXCEPT !.buf = v, !.num_field_loc = n + 1, !.max_voffset = m]
  BY <1>2 DEF TrackField, LocBytes, Fine
<1>. HIDE DEF u
<1>4. Scratch(v) = t
  BY <1>1, <1>2, Cells, ScratchPushed
<1>5. s \in Seq(Cell) /\ length \in Nat /\ n \in Nat
  BY <1>2, Cells, GoodStacks, LenProperties DEF Fine
<1>. HIDE DEF v, m, s
<1>6. /\ t \in Seq(Cell) /\ Len(t) = length + Len(u)
      /\ \A i \in 1 .. length : t[i] = s[i]
      /\ \A i \in 1 .. Len(u) : t[length + i] = u[i]
  <2>1. s \in Seq(Cell) /\ u \in Seq(Cell)
    BY <1>1, <1>5
  <2>. QED
    BY <2>1, Joined
<1>7. Len(t) = length + FieldLocSize
  BY <1>1, <1>6
<1>8. \A i \in 1 .. 4 : t[length + i] = Bytes(off, 4)[i]
  BY <1>1, <1>6 DEF FieldLocSize
<1>. HIDE DEF t, c
<1>9. /\ c.buf = v /\ c.num_field_loc = n + 1 /\ c.max_voffset = m
      /\ c.string_pool = b.string_pool
  <2>1. c \in [buf : {v}, num_field_loc : {n + 1}, max_voffset : {m}, nested : {b.nested},
               finished : {b.finished}, minalign : {b.minalign},
               string_pool : {b.string_pool}, ret : {b.ret}, ok : {b.ok}]
    BY <1>2, <1>3, TrackedRecord
  <2>. QED
    BY <2>1
<1>10. Scratch(c.buf) = t
  BY <1>4, <1>9
<1>11. Sound(c)
  BY TrackFieldSound DEF Tracks, c
<1>12. Locs(c)[n + 1].off = off
  <2>1. n + 1 \in 1 .. c.num_field_loc
    BY <1>5, <1>9
  <2>2. Locs(c)[n + 1] = FieldLoc(t, LocPlace(Len(t), n + 1, n + 1))
    BY <1>9, <1>10, <1>11, <2>1, LocsFacts
  <2>3. LocPlace(Len(t), n + 1, n + 1) = length
    <3>. HIDE DEF length, n
    <3>. QED
      BY <1>5, <1>7, LocPlaceOfLast
  <2>4. Locs(c)[n + 1].off = ReadScalar(t, length, 4)
    BY <2>2, <2>3 DEF FieldLoc
  <2>5. IsInt32(off)
    BY DEF IsInt32, MaxBufferSize
  <2>. HIDE DEF length
  <2>. QED
    BY <1>8, <2>4, <2>5, ReadsFourBytes
<1>13. ASSUME NEW k, Keeps(b, k)
       PROVE  Keeps(c, k)
  <2>1. /\ k \in Seq(Byte) /\ Len(k) = length - n * FieldLocSize
        /\ \A i \in 1 .. Len(k) : s[i] = k[i]
    BY <1>13 DEF Keeps, s
  <2>. HIDE DEF length, n
  <2>2. Len(k) \in Nat /\ Len(k) <= length
    BY <1>5, <2>1, LenProperties DEF FieldLocSize
  <2>3. Len(k) = Len(t) - (n + 1) * FieldLocSize
    BY <1>5, <1>7, <2>1 DEF FieldLocSize
  <2>4. \A i \in 1 .. Len(k) : t[i] = k[i]
    BY <1>5, <1>6, <2>1, <2>2
  <2>. QED
    BY <1>9, <1>10, <2>1, <2>3, <2>4 DEF Keeps
<1>. QED
  BY <1>9, <1>12, <1>13 DEF Places, c, m

LEMMA KeepsGrown ==
  ASSUME NEW b, NEW c, Grown(b, c), NEW s, Keeps(b, s)
  PROVE  Keeps(c, s)
BY DEF Grown, Keeps

\* When the fields go, what is kept is all there is.
LEMMA ClearOffsetsKeeps ==
  ASSUME NEW b, Sound(b), NEW s, Keeps(b, s)
  PROVE  Scratch(ClearOffsets(b).buf) = s
<1>. DEFINE c == ClearOffsets(b)
            n == b.num_field_loc * FieldLocSize
            t == Scratch(b.buf)
            v == ScratchPop(b.buf, n)
            m == Len(t) - n
<1>0. Fine(b) /\ Good(b.buf, Cell)
  BY DEF Sound, Fine
<1>1. /\ t \in Seq(Cell) /\ Len(t) = b.buf.scratch /\ Len(t) \in Nat /\ n \in Nat
  BY <1>0, Cells, GoodStacks, LenProperties DEF Fine, FieldLocSize
<1>2. /\ s \in Seq(Byte) /\ Len(s) = m /\ Len(s) \in Nat
      /\ \A k \in 1 .. Len(s) : t[k] = s[k]
  BY LenProperties DEF Keeps
<1>3. c.buf = v
  BY <1>0 DEF ClearOffsets, Fine
<1>. HIDE DEF n, t
<1>4. n <= b.buf.scratch
  BY <1>1, <1>2
<1>5. Scratch(v) = SubSeq(t, 1, m)
  BY <1>0, <1>1, <1>4, Cells, ScratchPopped DEF t
<1>. HIDE DEF v, c, m
<1>6. m \in Nat /\ \A k \in 1 .. m : t[0 + k] = s[k] /\ s[k] \in Byte
  <2>1. m \in Nat /\ \A k \in 1 .. m : t[k] = s[k] /\ s[k] \in Byte
    BY <1>2, ElementOfSeq
  <2>2. \A k \in 1 .. m : 0 + k = k
    BY <2>1
  <2>. QED
    BY <2>1, <2>2
<1>7. SubSeq(t, 0 + 1, 0 + m) = [k \in 1 .. m |-> t[0 + k]]
  <2>1. 0 \in Nat /\ \A k \in 1 .. m : t[0 + k] \in Byte
    BY <1>6
  <2>. QED
    BY <1>6, <2>1, SubSeqIs
<1>8. SubSeq(t, 1, m) = [k \in 1 .. m |-> s[k]]
  <2>1. 0 + 1 = 1 /\ 0 + m = m
    BY <1>6
  <2>. QED
    BY <1>6, <1>7, <2>1
<1>9. s = [k \in 1 .. m |-> s[k]]
  BY <1>2, LenProperties
<1>. QED
  BY <1>3, <1>5, <1>8, <1>9 DEF c

LEMMA NoFieldsKeeps ==
  ASSUME NEW b, Fine(b), b.num_field_loc = 0
  PROVE  /\ \A s : Keeps(b, s) => Scratch(b.buf) = s
         /\ Scratch(b.buf) \in Seq(Byte) => Keeps(b, Scratch(b.buf))
<1>. DEFINE t == Scratch(b.buf)
<1>1. t \in Seq(Cell) /\ Len(t) \in Nat
  BY Cells, GoodStacks, LenProperties DEF Fine
<1>2. b.num_field_loc * FieldLocSize = 0
  BY DEF FieldLocSize
<1>. HIDE DEF t
<1>3. ASSUME NEW s, Keeps(b, s)
      PROVE  t = s
  <2>1. s \in Seq(Byte) /\ Len(s) = Len(t) /\ \A k \in 1 .. Len(s) : t[k] = s[k]
    BY <1>1, <1>2, <1>3 DEF Keeps, t
  <2>2. s = [k \in 1 .. Len(s) |-> s[k]] /\ t = [k \in 1 .. Len(t) |-> t[k]]
    BY <1>1, <2>1, LenProperties
  <2>. QED
    BY <2>1, <2>2
<1>4. t \in Seq(Byte) => Keeps(b, t)
  BY <1>1, <1>2 DEF Keeps, t
<1>. QED
  BY <1>3, <1>4 DEF t

----------------------------------------------------------------------------
(* The vtables there are.                                                  *)

Offsets(s) == Range(VtableOffsets(s))

LEMMA OffsetsGrow ==
  ASSUME NEW s \in Seq(Byte), Len(s) % 4 = 0, NEW v, IsInt32(v),
         NEW t, t = s \o Bytes(v, 4)
  PROVE  t \in Seq(Byte) /\ Len(t) % 4 = 0 /\ Offsets(t) = Offsets(s) \cup {v}
<1>. DEFINE m == Len(s)
            n == m \div KeptOffsetSize
            bytes == Bytes(v, 4)
            f == VtableOffsets(s)
            g == VtableOffsets(t)
<1>1. m \in Nat /\ n \in Nat /\ m = 4 * n /\ (m + 4) \div KeptOffsetSize = n + 1 /\ (m + 4) % 4 = 0
  <2>1. m \in Nat
    BY LenProperties
  <2>2. \A i \in Nat : i % 4 = 0 =>
          /\ i \div 4 \in Nat /\ i = 4 * (i \div 4)
          /\ (i + 4) \div 4 = (i \div 4) + 1 /\ (i + 4) % 4 = 0
    OBVIOUS
  <2>. HIDE DEF m
  <2>3. m % 4 = 0
    BY DEF m
  <2>. QED
    BY <2>1, <2>2, <2>3 DEF KeptOffsetSize
<1>2. bytes \in Seq(Byte) /\ Len(bytes) = 4
  BY FourBytes DEF IsInt32
<1>. HIDE DEF bytes
<1>3. /\ t \in Seq(Byte) /\ Len(t) = m + 4
      /\ \A i \in 1 .. m : t[i] = s[i]
      /\ \A i \in 1 .. 4 : t[m + i] = bytes[i]
  <2>1. /\ s \o bytes \in Seq(Byte) /\ Len(s \o bytes) = Len(s) + Len(bytes)
        /\ \A i \in 1 .. Len(s) : (s \o bytes)[i] = s[i]
        /\ \A i \in 1 .. Len(bytes) : (s \o bytes)[Len(s) + i] = bytes[i]
    <3>1. s \in Seq(Byte) /\ bytes \in Seq(Byte)
      BY <1>2
    <3>. QED
      BY ONLY <3>1, JoinedBytes
  <2>2. t = s \o bytes
    BY DEF bytes
  <2>. QED
    BY <1>2, <2>1, <2>2
<1>. HIDE DEF m, n
<1>4. f = [k \in 1 .. n |-> ReadScalar(s, (k - 1) * 4, 4)]
  BY DEF VtableOffsets, KeptOffsetSize, m, n
<1>5. g = [k \in 1 .. n + 1 |-> ReadScalar(t, (k - 1) * 4, 4)]
  <2>1. Len(t) \div KeptOffsetSize = n + 1
    BY <1>1, <1>3
  <2>. QED
    BY <2>1 DEF VtableOffsets, KeptOffsetSize
<1>. HIDE DEF f, g
<1>6. ASSUME NEW k \in 1 .. n
      PROVE  g[k] = f[k]
  <2>. DEFINE p == (k - 1) * 4
  <2>1. p \in Nat /\ p + 4 <= m /\ k \in 1 .. n + 1 /\ 4 \in {1, 2, 4}
    BY <1>1
  <2>2. g[k] = ReadScalar(t, p, 4) /\ f[k] = ReadScalar(s, p, 4)
    BY <1>4, <1>5, <2>1
  <2>. HIDE DEF p
  <2>3. ReadScalar(t, p, 4) = ReadScalar(s, p, 4)
    <3>1. m \in Nat /\ (\A i \in 1 .. m : t[i] = s[i]) /\ p \in Nat /\ p + 4 <= m
      BY <1>1, <1>3, <2>1
    <3>2. \A width \in {1, 2, 4} : p + width <= m => ReadScalar(t, p, width) = ReadScalar(s, p, width)
      BY <3>1, ReadsSame
    <3>. QED
      BY <2>1, <3>1, <3>2
  <2>. QED
    BY <2>2, <2>3
<1>7. g[n + 1] = v
  <2>1. n + 1 \in 1 .. n + 1 /\ ((n + 1) - 1) * 4 = m
    BY <1>1
  <2>2. g[n + 1] = ReadScalar(t, m, 4)
    BY <1>5, <2>1
  <2>3. \A i \in 1 .. 4 : t[m + i] = Bytes(v, 4)[i]
    BY <1>3 DEF bytes
  <2>. QED
    BY <2>2, <2>3, ReadsFourBytes
<1>8. DOMAIN f = 1 .. n /\ DOMAIN g = 1 .. n + 1 /\ 1 .. n + 1 = (1 .. n) \cup {n + 1}
  BY <1>1, <1>4, <1>5
<1>9. Range(g) = Range(f) \cup {v}
  BY <1>6, <1>7, <1>8 DEF Range
<1>. QED
  BY <1>1, <1>3, <1>9 DEF Offsets, f, g

\* A vtable that is in the data is what is compared with others.
LEMMA VtableAtIs ==
  ASSUME NEW mem \in Seq(Byte), NEW vt, NEW slots \in Seq(Byte), VtableIn(mem, vt, slots)
  PROVE  VtableAt(mem, Position(mem, vt)) = slots
<1>. DEFINE p == Position(mem, vt)
            n == Len(slots)
<1>1. Block(mem, vt, slots) /\ SlotIs(slots, 0, n)
  BY DEF VtableIn
<1>2. vt \in Nat /\ Len(mem) \in Nat /\ p \in Int
  BY <1>1, BlockPlace DEF Position
<1>3. SubSeq(mem, p + 1, p + n) = slots
  BY <1>1, BlockIsRead
<1>4. ReadScalar(mem, p, 2) = n
  <2>. HIDE DEF n
  <2>1. ReadScalar(mem, Position(mem, vt) + 0, 2) = n
    BY <1>1, <1>2, SlotIsRead
  <2>2. Position(mem, vt) + 0 = p
    BY <1>2
  <2>. QED
    BY <2>1, <2>2
<1>. QED
  BY <1>3, <1>4 DEF VtableAt

LEMMA VtableIsOne ==
  ASSUME NEW mem \in Seq(Byte), NEW vt, NEW s \in Seq(Byte), NEW t \in Seq(Byte),
         VtableIn(mem, vt, s), VtableIn(mem, vt, t)
  PROVE  s = t
BY VtableAtIs

\* These vtables are in the data, each of them once unless they are not shared.
VtablesIn(mem, offs) ==
  /\ \A o \in offs : \E slots \in Seq(Byte) : VtableIn(mem, o, slots)
  /\ DedupVtables => \A o, p \in offs : \A slots \in Seq(Byte) :
                       VtableIn(mem, o, slots) /\ VtableIn(mem, p, slots) => o = p

LEMMA VtablesLast ==
  ASSUME NEW mem \in Seq(Byte), NEW new \in Seq(Byte), NEW offs, VtablesIn(mem, offs),
         \A o \in offs : \A slots \in Seq(Byte) : VtableIn(mem, o, slots) => VtableIn(new, o, slots)
  PROVE  VtablesIn(new, offs)
<1>1. \A o \in offs : \E slots \in Seq(Byte) : VtableIn(mem, o, slots) /\ VtableIn(new, o, slots)
  BY DEF VtablesIn
<1>2. ASSUME NEW o \in offs, NEW slots \in Seq(Byte), VtableIn(new, o, slots)
      PROVE  VtableIn(mem, o, slots)
  BY <1>1, <1>2, VtableIsOne
<1>. QED
  BY <1>1, <1>2 DEF VtablesIn

LEMMA VtablesStay ==
  ASSUME NEW mem \in Seq(Byte), NEW new \in Seq(Byte), EndsWith(new, mem), NEW offs,
         VtablesIn(mem, offs)
  PROVE  VtablesIn(new, offs)
BY VtableStays, VtablesLast

LEMMA VtablesGrow ==
  ASSUME NEW mem \in Seq(Byte), NEW offs, VtablesIn(mem, offs),
         NEW vt, NEW slots \in Seq(Byte), VtableIn(mem, vt, slots),
         DedupVtables => \A o \in offs : ~VtableIn(mem, o, slots)
  PROVE  VtablesIn(mem, offs \cup {vt})
<1>. DEFINE new == offs \cup {vt}
<1>1. \A o \in new : \E s \in Seq(Byte) : VtableIn(mem, o, s)
  BY DEF VtablesIn
<1>2. ASSUME DedupVtables, NEW o \in new, NEW p \in new, NEW s \in Seq(Byte),
             VtableIn(mem, o, s), VtableIn(mem, p, s)
      PROVE  o = p
  <2>1. CASE s = slots
    BY <1>2, <2>1
  <2>2. CASE s # slots
    <3>1. o # vt /\ p # vt
      BY <1>2, <2>2, VtableIsOne
    <3>. QED
      BY <1>2, <3>1 DEF VtablesIn
  <2>. QED
    BY <2>1, <2>2
<1>. QED
  BY <1>1, <1>2 DEF VtablesIn

\* The vtables that are kept in a scratch pad s.
KeptIn(mem, s) == s \in Seq(Byte) /\ Len(s) % 4 = 0 /\ VtablesIn(mem, Offsets(s))

LEMMA KeptStays ==
  ASSUME NEW mem \in Seq(Byte), NEW new \in Seq(Byte), EndsWith(new, mem), NEW s, KeptIn(mem, s)
  PROVE  KeptIn(new, s)
BY VtablesStay DEF KeptIn

\* From b to c a vtable is one that is kept.
PutsVtable(b, c, below, slots) ==
  /\ Data(c.buf) \in Seq(Byte) /\ EndsWith(Data(c.buf), below) /\ Len(below) <= Size(c)
  /\ c.string_pool = b.string_pool /\ c.max_voffset = b.max_voffset /\ c.ret \in Nat
  /\ VtableIn(Data(c.buf), c.ret, slots) /\ KeptIn(Data(c.buf), Scratch(c.buf))
  /\ c.ret \in Offsets(Scratch(c.buf)) /\ Offsets(Scratch(b.buf)) \subseteq Offsets(Scratch(c.buf))
  /\ \A o \in Offsets(Scratch(c.buf)) :
       o \in Offsets(Scratch(b.buf)) \/ (o = c.ret /\ o - Len(slots) = Len(below))

LEMMA UseVtablePuts ==
  ASSUME NEW b, Fine(b), NEW below \in Seq(Byte), NEW slots \in Seq(Byte),
         Data(b.buf) = slots \o below, VtableIn(Data(b.buf), Size(b), slots),
         KeptIn(below, Scratch(b.buf)), NEW loc, loc = Len(below),
         NEW c, c = UseVtable(b, loc), Fine(c), Size(c) < MaxBufferSize
  PROVE  PutsVtable(b, c, below, slots)
<1>. DEFINE offsets == Offsets(Scratch(b.buf))
            mem == Data(b.buf)
            same == {o \in offsets :
                       DedupVtables /\ SameLayout(VtableAt(mem, 0), VtableAt(mem, Position(mem, o)))}
<1>1. mem \in Seq(Byte) /\ Len(mem) = Size(b) /\ Size(b) \in Nat /\ EndsWith(mem, below)
  BY SizeFacts DEF Fine, EndsWith
<1>2. \/ /\ same # {}
         /\ c = [b EXCEPT !.buf = Pop(b.buf, Size(b) - loc), !.ret = Min(same)]
      \/ /\ same = {}
         /\ c = [b EXCEPT !.buf = ScratchPush(b.buf, Bytes(Size(b), 4)), !.ret = Size(b)]
  BY DEF UseVtable, Fine, Offsets
<1>3. VtablesIn(mem, offsets) /\ Scratch(b.buf) \in Seq(Byte)
  BY <1>1, VtablesStay DEF KeptIn
<1>4. same = {o \in offsets : DedupVtables /\ VtableIn(mem, o, slots)}
  <2>. HIDE DEF mem, offsets
  <2>1. VtableIn(mem, Size(b), slots)
    BY DEF mem
  <2>2. Position(mem, Size(b)) = 0
    BY <1>1 DEF Position
  <2>3. VtableAt(mem, 0) = slots
    BY <1>1, <2>1, <2>2, VtableAtIs
  <2>4. ASSUME NEW o \in offsets
        PROVE  VtableAt(mem, Position(mem, o)) = slots <=> VtableIn(mem, o, slots)
    <3>1. PICK s \in Seq(Byte) : VtableIn(mem, o, s)
      BY <1>3 DEF VtablesIn
    <3>2. VtableAt(mem, Position(mem, o)) = s
      BY <1>1, <3>1, VtableAtIs
    <3>3. VtableIn(mem, o, slots) => s = slots
      BY <1>1, <3>1, VtableIsOne
    <3>. QED
      BY <3>1, <3>2, <3>3
  <2>. QED
    BY <2>3, <2>4 DEF SameLayout
<1>5. offsets \subseteq Int /\ IsFiniteSet(offsets)
  BY <1>3, VtableOffsetsFacts DEF Offsets
<1>. HIDE DEF same, offsets
<1>6. CASE same # {}
  <2>. DEFINE v == Pop(b.buf, Size(b) - loc)
              vt == Min(same)
  <2>1. vt \in same
    <3>1. same \in SUBSET offsets
      BY <1>4
    <3>2. IsFiniteSet(same) /\ same \subseteq Int
      BY <1>5, <3>1, FS_Subset
    <3>. QED
      BY <1>6, <3>2, Extremes
  <2>2. PopsTo(b.buf, v, below)
    BY <1>1, PoppedOff
  <2>. HIDE DEF v, vt
  <2>3. c = [b EXCEPT !.buf = v, !.ret = vt]
    BY <1>2, <1>6 DEF v, vt
  <2>4. c.buf = v /\ c.ret = vt /\ c.string_pool = b.string_pool
        /\ c.max_voffset = b.max_voffset
    BY <2>3 DEF Fine
  <2>5. Data(c.buf) = below /\ Scratch(c.buf) = Scratch(b.buf)
    BY <2>2, <2>4 DEF PopsTo
  <2>6. VtableIn(below, vt, slots)
    <3>1. vt \in Offsets(Scratch(b.buf)) /\ VtableIn(mem, vt, slots)
      BY <1>4, <2>1 DEF offsets
    <3>2. PICK s \in Seq(Byte) : VtableIn(below, vt, s)
      BY <3>1 DEF KeptIn, VtablesIn
    <3>3. VtableIn(mem, vt, s)
      BY <1>1, <3>2, VtableStays
    <3>4. s = slots
      BY <1>1, <3>1, <3>3, VtableIsOne
    <3>. QED
      BY <3>2, <3>4
  <2>7. vt \in Nat
    BY <2>6, BlockPlace DEF VtableIn
  <2>8. EndsWith(below, below) /\ Len(below) <= Size(c)
    <3>1. Len(below) = Size(c) /\ Size(c) \in Nat
      BY <2>5, SizeFacts
    <3>. QED
      BY <3>1, EndsWithItself
  <2>9. vt \in Offsets(Scratch(b.buf))
    BY <1>4, <2>1 DEF offsets
  <2>. QED
    BY <2>4, <2>5, <2>6, <2>7, <2>8, <2>9 DEF PutsVtable
<1>7. CASE same = {}
  <2>. DEFINE kept == Bytes(Size(b), 4)
              v == ScratchPush(b.buf, kept)
              t == Scratch(b.buf) \o kept
  <2>1. kept \in Seq(Byte) /\ kept \in Seq(Cell)
    BY <1>1, FourBytes, BytesAreCells
  <2>2. Good(b.buf, Cell)
    BY DEF Fine
  <2>. HIDE DEF kept
  <2>3. Scratch(v) = t /\ Data(v) = mem
    BY <2>1, <2>2, Cells, ScratchPushed
  <2>. HIDE DEF v
  <2>4. c = [b EXCEPT !.buf = v, !.ret = Size(b)]
    BY <1>2, <1>7 DEF v, kept
  <2>5. c.buf = v /\ c.ret = Size(b) /\ c.string_pool = b.string_pool
        /\ c.max_voffset = b.max_voffset
    BY <2>4 DEF Fine
  <2>. HIDE DEF mem, t
  <2>6. Data(c.buf) = mem /\ Scratch(c.buf) = t /\ Size(c) = Size(b)
    BY <1>1, <2>3, <2>5, SizeFacts
  <2>7. t \in Seq(Byte) /\ Len(t) % 4 = 0 /\ Offsets(t) = Offsets(Scratch(b.buf)) \cup {Size(b)}
    <3>1. IsInt32(Size(b))
      BY <1>1, <2>6 DEF IsInt32, MaxBufferSize
    <3>2. Scratch(b.buf) \in Seq(Byte) /\ Len(Scratch(b.buf)) % 4 = 0
      BY DEF KeptIn
    <3>. QED
      BY <3>1, <3>2, OffsetsGrow DEF t, kept
  <2>8. VtableIn(mem, Size(b), slots)
    BY DEF mem
  <2>9. VtablesIn(mem, offsets \cup {Size(b)})
    BY <1>1, <1>3, <1>4, <1>7, <2>8, VtablesGrow
  <2>10. KeptIn(mem, t)
    BY <2>7, <2>9 DEF KeptIn, offsets
  <2>11. Len(below) <= Size(c)
    BY <1>1, <2>6, PoppedOff DEF mem
  <2>12. Size(b) - Len(slots) = Len(below)
    <3>1. Len(mem) = Len(slots) + Len(below) /\ Len(slots) \in Nat /\ Len(below) \in Nat
      BY Joined, LenProperties DEF mem
    <3>. QED
      BY <1>1, <3>1
  <2>. QED
    BY <1>1, <2>5, <2>6, <2>7, <2>8, <2>10, <2>11, <2>12 DEF PutsVtable
<1>. QED
  BY <1>6, <1>7

----------------------------------------------------------------------------
(* The offset of the vtable, in the table.                                 *)

\* From b to c some bytes have been written over those at loc.
Replaces(b, c, loc, bytes) ==
  /\ Scratch(c.buf) = Scratch(b.buf) /\ Size(c) = Size(b) /\ c.string_pool = b.string_pool
  /\ c.max_voffset = b.max_voffset /\ Len(Data(c.buf)) = Len(Data(b.buf))
  /\ Block(Data(c.buf), loc, bytes)
  /\ \A off : \A s \in Seq(Byte) :
       Block(Data(b.buf), off, s) /\ (off <= loc - 4 \/ loc <= off - Len(s))
         => Block(Data(c.buf), off, s)

LEMMA PointToVtableReplaces ==
  ASSUME NEW b, Fine(b), b.ret \in Int, NEW loc \in Nat, 4 <= loc, loc <= Size(b),
         NEW c, c = PointToVtable(b, loc), Fine(c)
  PROVE  Replaces(b, c, loc, Bytes(b.ret - loc, 4))
<1>. DEFINE d == b.ret - loc
            bytes == Bytes(d, 4)
            v == [b.buf EXCEPT !.buf = WriteAt(b.buf.buf, DataAt(b.buf, loc), bytes)]
            size == Size(b)
            s == Data(b.buf)
            t == Data(c.buf)
<1>0. /\ Good(b.buf, Cell) /\ s \in Seq(Byte) /\ t \in Seq(Byte)
      /\ size \in Nat /\ b.buf.size = size /\ Len(s) = size /\ Len(t) = Size(c)
  BY SizeFacts DEF Fine, Size
<1>1. bytes \in Seq(Byte) /\ bytes \in Seq(Cell) /\ Len(bytes) = 4
  <2>1. d \in Int
    OBVIOUS
  <2>. HIDE DEF d
  <2>. QED
    BY <2>1, FourBytes, BytesAreCells
<1>2. c.buf = v /\ c.string_pool = b.string_pool /\ c.max_voffset = b.max_voffset
  BY DEF PointToVtable, Fine, Good
<1>. HIDE DEF bytes
<1>3. Overwrites(b.buf, v, loc, bytes, Cell)
  <2>. DEFINE w == v
  <2>1. w = [b.buf EXCEPT !.buf = WriteAt(b.buf.buf, DataAt(b.buf, loc), bytes)]
    OBVIOUS
  <2>. HIDE DEF w
  <2>2. Undefined \in Cell /\ Len(bytes) <= loc /\ loc <= b.buf.size
    BY <1>0, <1>1, Cells
  <2>. QED
    <3>1. Overwrites(b.buf, w, loc, bytes, Cell)
      BY <1>0, <1>1, <2>1, <2>2, Overwritten
    <3>. QED
      BY <3>1 DEF w
<1>. HIDE DEF v
<1>4. /\ Scratch(c.buf) = Scratch(b.buf) /\ Size(c) = size
      /\ \A k \in 1 .. size :
           t[k] = IF k \in size - loc + 1 .. size - loc + 4 THEN bytes[k - (size - loc)] ELSE s[k]
  BY <1>0, <1>1, <1>2, <1>3 DEF Overwrites, Size
<1>. HIDE DEF s, t
<1>5. loc <= size
  OBVIOUS
<1>. HIDE DEF size
<1>6. Block(t, loc, bytes)
  <2>1. ASSUME NEW k \in 1 .. 4
        PROVE  t[size - loc + k] = bytes[k]
    <3>1. /\ size - loc + k \in 1 .. size /\ (size - loc + k) - (size - loc) = k
          /\ size - loc + k \in size - loc + 1 .. size - loc + 4
      BY <1>0, <1>5
    <3>. QED
      BY <1>4, <3>1
  <2>. QED
    BY <1>0, <1>1, <1>4, <1>5, <2>1 DEF Block
<1>7. ASSUME NEW off, NEW u \in Seq(Byte), Block(s, off, u), off <= loc - 4 \/ loc <= off - Len(u)
      PROVE  Block(t, off, u)
  <2>. DEFINE n == Len(u)
  <2>1. /\ off \in Nat /\ n <= off /\ off <= size /\ n \in Nat
        /\ \A k \in 1 .. n : s[size - off + k] = u[k]
    BY <1>0, <1>7, LenProperties DEF Block
  <2>2. off <= loc - 4 \/ loc <= off - n
    BY <1>7
  <2>. HIDE DEF n
  <2>3. ASSUME NEW k \in 1 .. n
        PROVE  t[size - off + k] = u[k]
    <3>1. size - off + k \in 1 .. size /\ size - off + k \notin size - loc + 1 .. size - loc + 4
      BY <1>0, <1>5, <2>1, <2>2
    <3>. QED
      BY <1>4, <2>1, <3>1
  <2>. QED
    BY <1>0, <1>4, <2>1, <2>3 DEF Block, n
<1>8. Len(t) = Len(s)
  BY <1>0, <1>4
<1>. QED
  BY <1>2, <1>4, <1>6, <1>7, <1>8 DEF Replaces, s, t, size, bytes

----------------------------------------------------------------------------
(* The slots of a vtable.                                                  *)

LEMMA TwoBytesTuple ==
  ASSUME NEW v \in Int
  PROVE  Bytes(v, 2) \in [1 .. 2 -> Byte]
<1>1. Bytes(v, 2) \in Seq(Byte) /\ Len(Bytes(v, 2)) = 2
  <2>1. 2 \in 0 .. 4
    OBVIOUS
  <2>. QED
    BY <2>1, BytesFacts
<1>. QED
  BY <1>1, LenProperties

\* In a vtable of some size, each field has its slot.
SlotsAre(slots, b, size, start, loc) ==
  /\ slots \in Seq(Byte) /\ Len(slots) = size
  /\ \A field \in Nat : field % 2 = 0 /\ field + 2 <= size =>
       /\ slots[field + 1] = Bytes(VtableSlot(field, Locs(b), size, start, loc), 2)[1]
       /\ slots[field + 2] = Bytes(VtableSlot(field, Locs(b), size, start, loc), 2)[2]

LEMMA VtableSlotsHold ==
  ASSUME NEW b, Sound(b), NEW size \in Nat, size % 2 = 0, NEW start \in Int, NEW loc \in Int
  PROVE  SlotsAre(VtableSlots(Locs(b), size, start, loc), b, size, start, loc)
<1>. DEFINE n == size \div 2
            value(field) == VtableSlot(field, Locs(b), size, start, loc)
            seqs == [k \in 1 .. n |-> Bytes(value(2 * (k - 1)), 2)]
            slots == FlattenSeq(seqs)
<1>1. n \in Nat /\ size = n * 2
  OBVIOUS
<1>2. ASSUME NEW k \in 1 .. n
      PROVE  Bytes(value(2 * (k - 1)), 2) \in [1 .. 2 -> Byte]
  <2>1. 2 * (k - 1) \in Int /\ size \in Int
    OBVIOUS
  <2>2. value(2 * (k - 1)) \in Int
    BY <2>1, VtableSlotInt
  <2>. HIDE DEF value
  <2>. QED
    BY <2>2, TwoBytesTuple
<1>3. VtableSlots(Locs(b), size, start, loc) = slots
  BY DEF VtableSlots
<1>. HIDE DEF n, value
<1>4. /\ seqs \in [1 .. n -> [1 .. 2 -> Byte]]
      /\ \A k \in 1 .. n : seqs[k] = Bytes(value(2 * (k - 1)), 2)
  BY <1>2
<1>. HIDE DEF seqs
<1>5. seqs \in Seq([1 .. 2 -> Byte]) /\ Len(seqs) = n
  BY <1>1, <1>4, TuplesAreSeqs
<1>. DEFINE width == 2
<1>6. width \in {1, 2, 4, 8} /\ seqs \in Seq([1 .. width -> Byte])
  BY <1>5
<1>. HIDE DEF width
<1>7. slots \in Seq(Byte) /\ Even(seqs, width, slots, n)
  BY <1>5, <1>6, FlattenedEvenly
<1>. HIDE DEF slots
<1>8. /\ Len(slots) = n * 2
      /\ \A i \in 1 .. n : slots[(i - 1) * 2 + 1] = seqs[i][1] /\ slots[(i - 1) * 2 + 2] = seqs[i][2]
  BY <1>7 DEF Even, width
<1>9. ASSUME NEW field \in Nat, field % 2 = 0, field + 2 <= size
      PROVE  /\ slots[field + 1] = Bytes(value(field), 2)[1]
             /\ slots[field + 2] = Bytes(value(field), 2)[2]
  <2>. DEFINE k == (field \div 2) + 1
  <2>1. k \in 1 .. n /\ (k - 1) * 2 = field /\ 2 * (k - 1) = field
    BY <1>1, <1>9
  <2>. HIDE DEF k
  <2>. QED
    BY <1>4, <1>8, <2>1
<1>. QED
  BY <1>1, <1>3, <1>7, <1>8, <1>9 DEF SlotsAre, value

\* The slot of a field that has one location, and of one that has none.
LEMMA SlotOfField ==
  ASSUME NEW b, Sound(b), NEW names, FieldsIn(b, names),
         NEW size \in Nat, size % 2 = 0, NEW start \in Int, NEW loc \in Int,
         NEW slots, SlotsAre(slots, b, size, start, loc),
         NEW field \in Nat, field % 2 = 0, field >= 4
  PROVE  /\ \A k \in 1 .. b.num_field_loc :
              Locs(b)[k].id = field /\ field + 2 <= size /\ IsVoffset(loc - Locs(b)[k].off)
                => SlotIs(slots, field, loc - Locs(b)[k].off)
         /\ (\A k \in 1 .. b.num_field_loc : Locs(b)[k].id # field)
              => field >= Len(slots) \/ SlotIs(slots, field, 0)
<1>. DEFINE which == LocsOf(Locs(b), field)
            slot == VtableSlot(field, Locs(b), size, start, loc)
            n == b.num_field_loc
<1>1. DOMAIN Locs(b) = 1 .. n /\ n \in Nat
  BY LocsFacts
<1>2. slot = LastOffset(Locs(b), which, loc)
  BY DEF VtableSlot
<1>3. which = {k \in 1 .. n : Locs(b)[k].id = field}
  BY <1>1 DEF LocsOf
<1>. HIDE DEF which, slot
<1>4. Len(slots) = size
  BY DEF SlotsAre
<1>5. field + 2 <= size => slots[field + 1] = Bytes(slot, 2)[1] /\ slots[field + 2] = Bytes(slot, 2)[2]
  BY DEF SlotsAre, slot
<1>6. field >= size \/ field + 2 <= size
  OBVIOUS
<1>7. ASSUME NEW k \in 1 .. n, Locs(b)[k].id = field, field + 2 <= size,
             IsVoffset(loc - Locs(b)[k].off)
      PROVE  SlotIs(slots, field, loc - Locs(b)[k].off)
  <2>1. which = {k}
    BY <1>3, <1>7 DEF FieldsIn
  <2>2. Max(which) = k
    <3>1. k \in Int
      BY <1>1
    <3>2. IsFiniteSet({k})
      BY FS_Singleton
    <3>3. Max({k}) \in {k}
      BY <3>1, <3>2, Extremes
    <3>. QED
      BY <2>1, <3>3
  <2>3. slot = loc - Locs(b)[k].off
    BY <1>2, <2>1, <2>2 DEF LastOffset
  <2>. QED
    BY <1>4, <1>5, <1>7, <2>3 DEF SlotIs
<1>8. ASSUME \A k \in 1 .. n : Locs(b)[k].id # field, field + 2 <= size
      PROVE  SlotIs(slots, field, 0)
  <2>1. which = {}
    BY <1>3, <1>8
  <2>2. slot = 0
    BY <1>2, <2>1 DEF LastOffset
  <2>3. IsVoffset(0)
    BY DEF IsVoffset
  <2>. QED
    BY <1>4, <1>5, <1>8, <2>2, <2>3 DEF SlotIs
<1>. QED
  BY <1>4, <1>6, <1>7, <1>8

\* The size of the vtable.
VtableSize(b) == Max({b.max_voffset + 2, FieldIndexToOffset(0)})

LEMMA VtableSizeFacts ==
  ASSUME NEW b, b.max_voffset \in Nat
  PROVE  /\ VtableSize(b) \in {b.max_voffset + 2, 4}
         /\ VtableSize(b) >= 4 /\ VtableSize(b) >= b.max_voffset + 2
<1>. DEFINE sizes == {b.max_voffset + 2, 4}
<1>1. sizes \subseteq Int /\ sizes # {} /\ VtableSize(b) = Max(sizes)
  BY DEF VtableSize, FieldIndexToOffset
<1>2. IsFiniteSet(sizes)
  <2>1. IsFiniteSet({4})
    BY FS_Singleton
  <2>2. IsFiniteSet({4} \cup {b.max_voffset + 2})
    BY <2>1, FS_AddElement
  <2>3. sizes = {4} \cup {b.max_voffset + 2}
    OBVIOUS
  <2>. QED
    BY <2>2, <2>3
<1>. HIDE DEF sizes
<1>3. Max(sizes) \in sizes /\ \A y \in sizes : Max(sizes) >= y
  BY <1>1, <1>2, Extremes
<1>. QED
  BY <1>1, <1>3 DEF sizes

LEMMA WriteVtableIs ==
  ASSUME NEW b, Sound(b), NEW names, FieldsIn(b, names), NEW start \in Int, NEW loc \in Int
  PROVE  WriteVtable(b, start, loc) =
           PushBytes(b, VtableSlots(Locs(b), VtableSize(b), start, loc))
<1>. DEFINE p == \A k \in DOMAIN Locs(b) : LocsOf(Locs(b), Locs(b)[k].id) = {k}
<1>1. p = TRUE
  <2>1. DOMAIN Locs(b) = 1 .. b.num_field_loc
    BY LocsFacts
  <2>2. \A j, k \in DOMAIN Locs(b) : Locs(b)[j].id = Locs(b)[k].id => j = k
    BY <2>1 DEF FieldsIn
  <2>. QED
    BY <2>2 DEF LocsOf
<1>2. WriteVtable(b, start, loc) =
        PushBytes(Asserting(b, p), VtableSlots(Locs(b), VtableSize(b), start, loc))
  BY DEF WriteVtable, VtableFrom, Locs, VtableSize
<1>. HIDE DEF p
<1>3. Fine(b)
  BY DEF Sound
<1>4. Asserting(b, p) = b
  BY <1>1, <1>3, AssertingHolds
<1>. QED
  BY <1>2, <1>4

----------------------------------------------------------------------------
(* The table that is being built.                                          *)

\* All fields that were added have a slot in the vtable there will be.
Reaches(b) ==
  /\ b.max_voffset \in Nat /\ b.max_voffset % 2 = 0 /\ IsVoffset(b.max_voffset + 2)
  /\ \A k \in 1 .. b.num_field_loc : Locs(b)[k].id \in 0 .. b.max_voffset

HasField(b, start, f, field, v) ==
  \E k \in 1 .. b.num_field_loc :
    /\ Locs(b)[k].id = field /\ Locs(b)[k].off \in start .. Size(b)
    /\ FieldIn(Data(b.buf), f, Locs(b)[k].off, v)

LacksField(b, f, field, v) ==
  v = Default(f) /\ \A k \in 1 .. b.num_field_loc : Locs(b)[k].id # field

\* The fields of the table begun at start have these values.
Filled(b, T, start, value) ==
  /\ start \in Nat /\ start <= Size(b) /\ Reaches(b)
  /\ value = [i \in DOMAIN Schema[T] |-> value[i]]
  /\ \A i \in DOMAIN Schema[T] :
       \/ HasField(b, start, Schema[T][i], Voffset(i), value[i])
       \/ LacksField(b, Schema[T][i], Voffset(i), value[i])

LEMMA EvenVoffset ==
  ASSUME NEW T \in DOMAIN Schema, NEW i \in DOMAIN Schema[T]
  PROVE  /\ Voffset(i) \in Nat /\ Voffset(i) >= 4 /\ Voffset(i) % 2 = 0
         /\ IsVoffset(Voffset(i) + 2) /\ IsVoffset(Voffset(i))
         /\ \A j \in DOMAIN Schema[T] : Voffset(j) = Voffset(i) => j = i
<1>1. /\ i \in Nat \ {0} /\ IsVoffset(Voffset(i) + 2)
      /\ \A j \in DOMAIN Schema[T] : j \in Nat \ {0}
  BY TablesAssumption
<1>2. \A j \in Nat \ {0} : Voffset(j) = 4 + 2 * (j - 1)
  BY DEF Voffset, FieldIndexToOffset
<1>3. IsVoffset(Voffset(i))
  BY Fields
<1>. QED
  BY <1>1, <1>2, <1>3

LEMMA HasFieldStays ==
  ASSUME NEW b, NEW c, NEW start \in Int, NEW f, NEW field, NEW v, HasField(b, start, f, field, v),
         Data(b.buf) \in Seq(Byte), EndsWith(Data(c.buf), Data(b.buf)),
         Size(b) \in Nat, Size(c) \in Nat, Size(b) <= Size(c),
         b.num_field_loc \in Nat, c.num_field_loc \in Nat, b.num_field_loc <= c.num_field_loc,
         \A k \in 1 .. b.num_field_loc : Locs(c)[k] = Locs(b)[k]
  PROVE  HasField(c, start, f, field, v)
<1>1. PICK k \in 1 .. b.num_field_loc :
        /\ Locs(b)[k].id = field /\ Locs(b)[k].off \in start .. Size(b)
        /\ FieldIn(Data(b.buf), f, Locs(b)[k].off, v)
  BY DEF HasField
<1>2. FieldIn(Data(c.buf), f, Locs(b)[k].off, v)
  BY <1>1, FieldStays
<1>3. start .. Size(b) \subseteq start .. Size(c)
  OBVIOUS
<1>4. k \in 1 .. c.num_field_loc /\ Locs(c)[k] = Locs(b)[k]
  BY <1>1
<1>. QED
  BY <1>1, <1>2, <1>3, <1>4 DEF HasField

LEMMA TrackLastFills ==
  ASSUME NEW b, NEW c, Sound(b), Grown(b, c), NEW names, FieldsIn(b, names),
         NEW T \in DOMAIN Schema, NEW i \in DOMAIN Schema[T], Voffset(i) \notin names,
         NEW start, NEW value, Filled(b, T, start, value),
         NEW v, FieldIn(Data(c.buf), Schema[T][i], Size(c), v), Size(c) < MaxBufferSize
  PROVE  Filled(TrackLast(c, Voffset(i)), T, start, [value EXCEPT ![i] = v])
<1>. DEFINE field == Voffset(i)
            d == TrackLast(c, field)
            n == b.num_field_loc
            new == [value EXCEPT ![i] = v]
<1>1. /\ field \in Nat /\ field >= 4 /\ field % 2 = 0 /\ IsVoffset(field + 2) /\ IsVoffset(field)
      /\ \A j \in DOMAIN Schema[T] : Voffset(j) = field => j = i
  BY EvenVoffset
<1>2. /\ Fine(b) /\ Sound(c) /\ Fine(c) /\ n \in Nat /\ c.num_field_loc = n /\ Locs(c) = Locs(b)
      /\ c.max_voffset = b.max_voffset
  BY GrownExtends DEF Extends, Sound, Fine, Grown, Locs
<1>3. /\ Data(b.buf) \in Seq(Byte) /\ EndsWith(Data(c.buf), Data(b.buf))
      /\ Size(b) \in Nat /\ Size(c) \in Nat /\ Size(b) <= Size(c)
  BY <1>2, GrownEnds
<1>. HIDE DEF field, d
<1>4. Tracks(c, d, field) /\ Places(c, d, field, Size(c))
  BY <1>1, <1>2, <1>3, TrackFieldSound, TrackFieldPlaces DEF TrackLast, d
<1>. HIDE DEF n
<1>5. /\ Sound(d) /\ Fine(d) /\ Data(d.buf) = Data(c.buf) /\ d.num_field_loc = n + 1
      /\ \A k \in 1 .. n : Locs(d)[k] = Locs(b)[k]
      /\ Locs(d)[n + 1].id = field /\ Locs(d)[n + 1].off = Size(c)
      /\ d.max_voffset = IF field > b.max_voffset THEN field ELSE b.max_voffset
  BY <1>2, <1>4 DEF Tracks, Places, Sound
<1>6. Size(d) = Size(c)
  BY <1>2, <1>5, SizeFacts
<1>7. \A k \in 1 .. n + 1 : k \in 1 .. n \/ k = n + 1
  BY <1>2
<1>8. start \in Nat /\ start <= Size(d) /\ start <= Size(c)
  BY <1>3, <1>6 DEF Filled
<1>9. Reaches(d)
  <2>1. /\ b.max_voffset \in Nat /\ b.max_voffset % 2 = 0 /\ IsVoffset(b.max_voffset + 2)
        /\ \A k \in 1 .. n : Locs(b)[k].id \in 0 .. b.max_voffset
    BY DEF Filled, Reaches, n
  <2>2. /\ d.max_voffset \in Nat /\ d.max_voffset % 2 = 0 /\ IsVoffset(d.max_voffset + 2)
        /\ b.max_voffset <= d.max_voffset /\ field <= d.max_voffset
    BY <1>1, <1>5, <2>1
  <2>3. \A k \in 1 .. n : Locs(d)[k].id \in 0 .. d.max_voffset
    BY <1>5, <2>1, <2>2
  <2>4. Locs(d)[n + 1].id \in 0 .. d.max_voffset
    BY <1>1, <1>5, <2>2
  <2>. QED
    BY <1>5, <1>7, <2>2, <2>3, <2>4 DEF Reaches
<1>10. DOMAIN value = DOMAIN Schema[T] /\ new = [j \in DOMAIN Schema[T] |-> new[j]] /\ new[i] = v
       /\ \A j \in DOMAIN Schema[T] \ {i} : new[j] = value[j]
  BY DEF Filled
<1>11. HasField(d, start, Schema[T][i], field, new[i])
  <2>1. FieldIn(Data(d.buf), Schema[T][i], Locs(d)[n + 1].off, new[i])
    BY <1>5, <1>10
  <2>2. n + 1 \in 1 .. n + 1 /\ Size(c) \in start .. Size(d)
    BY <1>2, <1>3, <1>6, <1>8
  <2>. QED
    BY <1>5, <2>1, <2>2 DEF HasField
<1>. HIDE DEF new
<1>12. ASSUME NEW j \in DOMAIN Schema[T], j # i
       PROVE  \/ HasField(d, start, Schema[T][j], Voffset(j), new[j])
              \/ LacksField(d, Schema[T][j], Voffset(j), new[j])
  <2>1. Voffset(j) # field /\ new[j] = value[j]
    BY <1>1, <1>10, <1>12
  <2>2. CASE HasField(b, start, Schema[T][j], Voffset(j), value[j])
    <3>1. start \in Int /\ d.num_field_loc \in Nat /\ n <= d.num_field_loc /\ EndsWith(Data(d.buf), Data(b.buf))
      BY <1>2, <1>3, <1>5, <1>8
    <3>2. HasField(d, start, Schema[T][j], Voffset(j), value[j])
      BY <1>2, <1>3, <1>5, <1>6, <2>2, <3>1, HasFieldStays DEF n
    <3>. QED
      BY <2>1, <3>2
  <2>3. CASE LacksField(b, Schema[T][j], Voffset(j), value[j])
    <3>1. \A k \in 1 .. n : Locs(d)[k].id # Voffset(j)
      BY <1>5, <2>3 DEF LacksField, n
    <3>2. \A k \in 1 .. d.num_field_loc : Locs(d)[k].id # Voffset(j)
      BY <1>5, <1>7, <2>1, <3>1
    <3>3. value[j] = Default(Schema[T][j])
      BY <2>3 DEF LacksField
    <3>. QED
      BY <2>1, <3>2, <3>3 DEF LacksField
  <2>. QED
    BY <2>2, <2>3 DEF Filled
<1>. QED
  BY <1>8, <1>9, <1>10, <1>11, <1>12 DEF Filled, d, field, new

\* A value that a field of a table can be set to.
Suits(b, f, v) ==
  /\ f.kind = "scalar" => IsInt32(v) /\ (f.width = 1 => v \in Byte)
  /\ f.kind = "struct" => v \in Seq(Byte) /\ Len(v) = f.width
  /\ f.kind \notin {"scalar", "struct"} => v \in 1 .. Size(b)

\* From b to c the value of a field is written and its place is tracked.
WritesField(b, c, f, field, v) ==
  \E p : /\ Grown(b, p) /\ c = TrackLast(p, field) /\ Size(p) < MaxBufferSize
         /\ FieldIn(Data(p.buf), f, Size(p), v)

LEMMA TrackLastSize ==
  ASSUME NEW b, NEW p, Sound(b), Grown(b, p), NEW field, IsVoffset(field)
  PROVE  Size(TrackLast(p, field)) = Size(p)
<1>1. Sound(p) /\ Fine(p) /\ Size(p) \in Nat
  BY GrownExtends, SizeFacts DEF Extends, Sound
<1>2. Tracks(p, TrackLast(p, field), field)
  BY <1>1, TrackFieldSound DEF TrackLast
<1>. DEFINE d == TrackLast(p, field)
<1>3. Fine(d) /\ Data(d.buf) = Data(p.buf)
  BY <1>2 DEF Tracks, Sound
<1>. HIDE DEF d
<1>4. Size(d) = Size(p)
  BY <1>1, <1>3, SizeFacts
<1>. QED
  BY <1>4 DEF d

LEMMA ScalarWrites ==
  ASSUME NEW b, Sound(b), NEW f, f.kind = "scalar", NEW width \in {1, 4}, f.width = width,
         f.align = width,
         NEW v, Suits(b, f, v), NEW field, IsVoffset(field),
         Size(AddElement(b, field, v, width, 0)) < MaxBufferSize
  PROVE  \/ AddElement(b, field, v, width, 0) = b /\ v = 0
         \/ WritesField(b, AddElement(b, field, v, width, 0), f, field, v)
<1>. DEFINE p == PushElement(b, v, width)
            c == AddElement(b, field, v, width, 0)
<1>1. v \in Int /\ IsInt32(v) /\ (width = 1 => v \in Byte) /\ width \in 1 .. 4 /\ Fine(b)
  BY DEF Suits, IsInt32, Sound
<1>2. Puts(b, p, Bytes(v, width)) /\ Size(p) = Size(b) + PaddingBytes(Size(b), width) + width
  BY <1>1, PushElementPuts
<1>5. Size(p) % width = 0
  <2>. HIDE DEF p
  <2>1. Size(b) \in Nat /\ width \in {1, 2, 4, 8}
    BY <1>1, SizeFacts
  <2>2. Padded(Size(b), width)
    BY <2>1, PaddingPads
  <2>. QED
    BY <1>2, <2>1, <2>2 DEF Padded
<1>3. (c = b /\ v = 0) \/ c = TrackLast(p, field)
  BY DEF AddElement
<1>. HIDE DEF p, c
<1>4. CASE c = TrackLast(p, field)
  <2>1. Grown(b, p)
    BY <1>2 DEF Puts
  <2>2. Size(p) < MaxBufferSize
    <3>1. Size(TrackLast(p, field)) = Size(p)
      BY <2>1, TrackLastSize
    <3>2. Size(c) < MaxBufferSize
      BY DEF c
    <3>. QED
      BY <1>4, <3>1, <3>2
  <2>3. FieldIn(Data(p.buf), f, Size(p), v)
    BY <1>1, <1>2, <1>5 DEF FieldIn, Puts
  <2>4. WritesField(b, c, f, field, v)
    BY <1>4, <2>1, <2>2, <2>3 DEF WritesField
  <2>. QED
    BY <2>4 DEF c
<1>. QED
  BY <1>3, <1>4 DEF c

LEMMA StructWrites ==
  ASSUME NEW b, Sound(b), NEW f, f.kind = "struct", NEW align \in {1, 4}, f.align = align,
         f.width % align = 0,
         NEW v, Suits(b, f, v), NEW field, IsVoffset(field),
         Size(AddStruct(b, field, v, align)) < MaxBufferSize
  PROVE  WritesField(b, AddStruct(b, field, v, align), f, field, v)
<1>. DEFINE a == Align(b, align)
            p == PushBytes(a, v)
            c == AddStruct(b, field, v, align)
<1>1. v \in Seq(Byte) /\ Len(v) = f.width /\ Fine(b) /\ align \in Nat \ {0}
  BY DEF Suits, Sound
<1>2. Grown(b, a) /\ Fine(a) /\ Size(a) = Size(b) + PaddingBytes(Size(b), align)
  BY <1>1, AlignGrows, AlignSize DEF Grown
<1>3. c = TrackLast(p, field)
  BY DEF AddStruct
<1>. HIDE DEF a, c
<1>4. Puts(a, p, v) /\ Size(p) = Size(a) + Len(v)
  BY <1>1, <1>2, PushBytesPuts
<1>. HIDE DEF p
<1>9. Size(p) % align = 0
  <2>1. Size(b) \in Nat /\ align \in {1, 2, 4, 8} /\ Len(v) \in Nat /\ Len(v) % align = 0
    BY <1>1, SizeFacts, LenProperties
  <2>2. Padded(Size(b), align)
    BY <2>1, PaddingPads
  <2>3. Size(a) \in Nat /\ Size(a) % align = 0
    BY <1>2, <2>1, <2>2 DEF Padded
  <2>. QED
    BY <1>4, <2>1, <2>3
<1>5. Grown(b, p)
  BY <1>1, <1>2, <1>4, GrownOn DEF Puts
<1>6. Size(p) < MaxBufferSize
  <2>1. Size(TrackLast(p, field)) = Size(p)
    BY <1>5, TrackLastSize
  <2>2. Size(c) < MaxBufferSize
    BY DEF c
  <2>. QED
    BY <1>3, <2>1, <2>2
<1>7. FieldIn(Data(p.buf), f, Size(p), v)
  BY <1>1, <1>4, <1>9 DEF FieldIn, Puts
<1>8. WritesField(b, c, f, field, v)
  BY <1>3, <1>5, <1>6, <1>7 DEF WritesField
<1>. QED
  BY <1>8 DEF c

LEMMA OffsetWrites ==
  ASSUME NEW b, Sound(b), NEW f, f.kind \notin {"scalar", "struct"},
         NEW v, Suits(b, f, v), NEW field, IsVoffset(field),
         Size(AddOffset(b, field, v)) < MaxBufferSize
  PROVE  WritesField(b, AddOffset(b, field, v), f, field, v)
<1>. DEFINE p == PushOffset(b, v)
            c == AddOffset(b, field, v)
<1>1. v \in 1 .. Size(b) /\ v \in Int /\ Fine(b) /\ v # 0
  BY SizeFacts DEF Suits, Sound
<1>2. PutsOffset(b, p, v)
  BY <1>1, PushOffsetPuts
<1>3. c = TrackLast(p, field)
  BY <1>1 DEF AddOffset
<1>. HIDE DEF p, c
<1>4. Grown(b, p)
  BY <1>2 DEF PutsOffset
<1>5. Size(p) < MaxBufferSize
  <2>1. Size(TrackLast(p, field)) = Size(p)
    BY <1>4, TrackLastSize
  <2>2. Size(c) < MaxBufferSize
    BY DEF c
  <2>. QED
    BY <1>3, <2>1, <2>2
<1>6. FieldIn(Data(p.buf), f, Size(p), v)
  BY <1>1, <1>2, <1>5 DEF FieldIn, PutsOffset
<1>7. WritesField(b, c, f, field, v)
  BY <1>3, <1>4, <1>5, <1>6 DEF WritesField
<1>. QED
  BY <1>7 DEF c

LEMMA AddToWrites ==
  ASSUME NEW b, Sound(b), NEW T \in DOMAIN Schema, NEW i \in DOMAIN Schema[T],
         NEW v, Suits(b, Schema[T][i], v),
         Size(AddTo(b, Schema[T][i], Voffset(i), v)) < MaxBufferSize
  PROVE  \/ AddTo(b, Schema[T][i], Voffset(i), v) = b /\ v = 0 /\ Schema[T][i].kind = "scalar"
         \/ WritesField(b, AddTo(b, Schema[T][i], Voffset(i), v), Schema[T][i], Voffset(i), v)
<1>. DEFINE f == Schema[T][i]
            field == Voffset(i)
            c == AddTo(b, f, field, v)
<1>1. /\ IsVoffset(field) /\ (f.kind = "scalar" => f.width \in {1, 4} /\ f.align = f.width)
      /\ (f.kind = "struct" => f.align \in {1, 4} /\ f.width % f.align = 0)
  BY TablesAssumption, Fields
<1>2. /\ f.kind = "scalar" => c = AddElement(b, field, v, f.width, 0)
      /\ f.kind = "struct" => c = AddStruct(b, field, v, f.align)
      /\ f.kind \notin {"scalar", "struct"} => c = AddOffset(b, field, v)
  BY DEF AddTo
<1>3. Suits(b, f, v) /\ Size(c) < MaxBufferSize
  OBVIOUS
<1>. HIDE DEF f, field, c
<1>4. CASE f.kind = "scalar"
  BY <1>1, <1>2, <1>3, <1>4, ScalarWrites DEF f, field, c
<1>5. CASE f.kind = "struct"
  BY <1>1, <1>2, <1>3, <1>5, StructWrites DEF f, field, c
<1>6. CASE f.kind \notin {"scalar", "struct"}
  BY <1>1, <1>2, <1>3, <1>6, OffsetWrites DEF f, field, c
<1>. QED
  BY <1>4, <1>5, <1>6

\* From b to c the data has grown, and what is kept is still kept.
Builds(b, c) ==
  /\ EndsWith(Data(c.buf), Data(b.buf)) /\ c.string_pool = b.string_pool
  /\ \A s : Keeps(b, s) => Keeps(c, s)

LEMMA BuildsItself ==
  ASSUME NEW b, Fine(b)
  PROVE  Builds(b, b)
BY EndsWithItself DEF Fine, Builds

LEMMA FieldFills ==
  ASSUME NEW b, Sound(b), NEW names, FieldsIn(b, names),
         NEW T \in DOMAIN Schema, NEW i \in DOMAIN Schema[T], Voffset(i) \notin names,
         NEW start, NEW value, Filled(b, T, start, value),
         NEW c, NEW v, WritesField(b, c, Schema[T][i], Voffset(i), v)
  PROVE  Builds(b, c) /\ Filled(c, T, start, [value EXCEPT ![i] = v])
<1>. DEFINE field == Voffset(i)
<1>1. PICK p : /\ Grown(b, p) /\ c = TrackLast(p, field) /\ Size(p) < MaxBufferSize
               /\ FieldIn(Data(p.buf), Schema[T][i], Size(p), v)
  BY DEF WritesField
<1>2. Filled(c, T, start, [value EXCEPT ![i] = v])
  BY <1>1, TrackLastFills
<1>3. IsVoffset(field)
  BY EvenVoffset
<1>. HIDE DEF field
<1>4. Fine(b) /\ Sound(p) /\ Fine(p) /\ Size(p) \in Nat
  BY <1>1, GrownExtends, SizeFacts DEF Extends, Sound
<1>5. Tracks(p, c, field) /\ Places(p, c, field, Size(p))
  BY <1>1, <1>3, <1>4, TrackFieldSound, TrackFieldPlaces DEF TrackLast
<1>6. EndsWith(Data(c.buf), Data(b.buf))
  <2>1. EndsWith(Data(p.buf), Data(b.buf))
    BY <1>1, <1>4, GrownEnds
  <2>. QED
    BY <1>5, <2>1 DEF Tracks
<1>7. \A s : Keeps(b, s) => Keeps(c, s)
  BY <1>1, <1>5, KeepsGrown DEF Places
<1>8. c.string_pool = b.string_pool
  BY <1>1, <1>5 DEF Places, Grown
<1>. QED
  BY <1>2, <1>6, <1>7, <1>8 DEF Builds

\* What is not written is what it was.
LEMMA AddToFills ==
  ASSUME NEW b, Sound(b), NEW names, FieldsIn(b, names),
         NEW T \in DOMAIN Schema, NEW i \in DOMAIN Schema[T], Voffset(i) \notin names,
         NEW start, NEW value, Filled(b, T, start, value),
         NEW v, Suits(b, Schema[T][i], v),
         NEW c, c = AddTo(b, Schema[T][i], Voffset(i), v), Size(c) < MaxBufferSize
  PROVE  Builds(b, c) /\ Filled(c, T, start, [value EXCEPT ![i] = v])
<1>1. CASE c = b /\ v = 0 /\ Schema[T][i].kind = "scalar"
  <2>1. ~HasField(b, start, Schema[T][i], Voffset(i), value[i])
    BY DEF HasField, FieldsIn
  <2>2. value[i] = 0
    BY <1>1, <2>1 DEF Filled, LacksField, Default
  <2>3. [value EXCEPT ![i] = v] = value
    BY <1>1, <2>2 DEF Filled
  <2>. QED
    BY <1>1, <2>3, BuildsItself DEF Sound
<1>2. CASE WritesField(b, c, Schema[T][i], Voffset(i), v)
  BY <1>2, FieldFills
<1>. QED
  BY <1>1, <1>2, AddToWrites

\* A table that was just begun has the defaults.
LEMMA StartTableFills ==
  ASSUME NEW b, Sound(b), ~b.nested, b.num_field_loc = 0, b.max_voffset = 0,
         NEW T \in DOMAIN Schema, NEW c, c = StartTable(b)
  PROVE  /\ Builds(b, c)
         /\ Filled(c, T, c.ret, [i \in DOMAIN Schema[T] |-> Default(Schema[T][i])])
<1>. DEFINE o == Opened(b)
            value == [i \in DOMAIN Schema[T] |-> Default(Schema[T][i])]
<1>0. Fine(b)
  BY DEF Sound
<1>1. /\ Fine(o) /\ o.buf = b.buf /\ o.max_voffset = b.max_voffset
      /\ o.num_field_loc = b.num_field_loc /\ o.string_pool = b.string_pool
  BY <1>0, OpenedFine
<1>2. c = Returning(o)
  BY <1>0, NotNestedHolds DEF StartTable, Opened
<1>. HIDE DEF o
<1>3. Grown(o, c) /\ c.buf = o.buf /\ c.ret = Size(o)
  BY <1>1, <1>2, ReturningGrows
<1>4. /\ c.buf = b.buf /\ c.num_field_loc = 0 /\ c.max_voffset = 0
      /\ c.string_pool = b.string_pool /\ c.ret = Size(c)
  BY <1>1, <1>3 DEF Grown, Size
<1>5. Builds(b, c)
  BY <1>0, <1>4, EndsWithItself DEF Builds, Keeps, Fine
<1>6. Size(c) \in Nat
  BY <1>3, SizeFacts DEF Grown
<1>7. Reaches(c)
  <2>1. IsVoffset(0 + 2)
    BY DEF IsVoffset
  <2>2. c.max_voffset \in Nat /\ c.max_voffset % 2 = 0
    BY <1>4
  <2>. QED
    BY <1>4, <2>1, <2>2 DEF Reaches
<1>8. value = [i \in DOMAIN Schema[T] |-> value[i]]
  OBVIOUS
<1>9. \A i \in DOMAIN Schema[T] : LacksField(c, Schema[T][i], Voffset(i), value[i])
  BY <1>4 DEF LacksField
<1>. HIDE DEF value
<1>10. Filled(c, T, c.ret, value)
  BY <1>4, <1>6, <1>7, <1>8, <1>9 DEF Filled
<1>. QED
  BY <1>5, <1>10 DEF value

----------------------------------------------------------------------------
(* A table that is completed is in the data.                               *)

\* From b to c a vtable has been written for a table that begins at start and
\* whose offset of it is at the front.
WritesVtable(b, c, start, slots) ==
  /\ Grown(b, c) /\ slots \in Seq(Byte) /\ Data(c.buf) = slots \o Data(b.buf)
  /\ VtableIn(Data(c.buf), Size(c), slots)
  /\ VtableSize(b) \in Nat /\ VtableSize(b) % 2 = 0
  /\ SlotsAre(slots, b, VtableSize(b), start, Size(b))

LEMMA WriteVtablePuts ==
  ASSUME NEW b, Sound(b), NEW names, FieldsIn(b, names), Reaches(b), NEW start \in Int,
         Size(b) % 4 = 0, Size(b) >= 4
  PROVE  WritesVtable(b, WriteVtable(b, start, Size(b)), start,
                      VtableSlots(Locs(b), VtableSize(b), start, Size(b)))
<1>. DEFINE loc == Size(b)
            size == VtableSize(b)
            slots == VtableSlots(Locs(b), size, start, loc)
            c == WriteVtable(b, start, loc)
<1>0. Fine(b) /\ loc \in Nat /\ loc \in Int
  BY SizeFacts DEF Sound
<1>1. /\ b.max_voffset \in Nat /\ b.max_voffset % 2 = 0 /\ IsVoffset(b.max_voffset + 2)
  BY DEF Reaches
<1>2. size \in {b.max_voffset + 2, 4}  /\ size >= 4
  BY <1>1, VtableSizeFacts
<1>3. size \in Nat /\ size % 2 = 0 /\ IsVoffset(size)
  <2>1. IsVoffset(4)
    BY DEF IsVoffset
  <2>. HIDE DEF size
  <2>. QED
    BY <1>1, <1>2, <2>1
<1>. HIDE DEF size, loc
<1>4. SlotsAre(slots, b, size, start, loc)
  BY <1>0, <1>3, VtableSlotsHold
<1>5. c = PushBytes(b, slots)
  BY <1>0, WriteVtableIs DEF size
<1>. HIDE DEF slots, c
<1>6. slots \in Seq(Byte) /\ Len(slots) = size
  BY <1>4 DEF SlotsAre
<1>7. /\ Grown(b, c) /\ Data(c.buf) = slots \o Data(b.buf)
      /\ Block(Data(c.buf), Size(c), slots) /\ Size(c) = loc + size
  BY <1>0, <1>5, <1>6, PushBytesGrows, PushBytesPuts DEF Puts, loc
<1>8. SlotIs(slots, 0, Len(slots))
  <2>1. VtableSlot(0, Locs(b), size, start, loc) = size
    BY DEF VtableSlot
  <2>2. 0 + 2 <= size /\ 0 \in Nat /\ 0 % 2 = 0
    BY <1>2, <1>3
  <2>3. slots[0 + 1] = Bytes(size, 2)[1] /\ slots[0 + 2] = Bytes(size, 2)[2]
    BY <1>4, <2>1, <2>2 DEF SlotsAre
  <2>. QED
    BY <1>3, <1>6, <2>2, <2>3 DEF SlotIs
<1>10. Size(c) % 2 = 0 /\ size < Len(Data(c.buf))
  <2>1. loc % 4 = 0 /\ loc >= 4
    BY DEF loc
  <2>2. Len(Data(c.buf)) = Size(c)
    BY <1>7, SizeFacts DEF Grown
  <2>3. Size(c) % 2 = 0
    BY <1>0, <1>3, <1>7, <2>1
  <2>. QED
    BY <1>0, <1>3, <1>7, <2>1, <2>2, <2>3
<1>9. VtableIn(Data(c.buf), Size(c), slots)
  BY <1>3, <1>6, <1>7, <1>8, <1>10 DEF VtableIn
<1>. QED
  BY <1>3, <1>4, <1>6, <1>7, <1>9 DEF WritesVtable, c, slots, size, loc

\* The vtables there are stay when the table's offset of its own is written.
LEMMA VtablesSurvive ==
  ASSUME NEW x, NEW y, NEW z, NEW below \in Seq(Byte), NEW slots \in Seq(Byte),
         PutsVtable(x, y, below, slots), NEW base \in Seq(Byte), KeptIn(base, Scratch(x.buf)),
         Data(z.buf) \in Seq(Byte), Len(base) + 4 <= Len(below),
         NEW bytes, Replaces(y, z, Len(below), bytes)
  PROVE  \A o \in Offsets(Scratch(y.buf)) : \A t \in Seq(Byte) :
           VtableIn(Data(y.buf), o, t) => VtableIn(Data(z.buf), o, t)
<1>. DEFINE loc == Len(below)
            mem == Data(y.buf)
            new == Data(z.buf)
<1>0. loc \in Nat /\ Len(base) \in Nat
  BY LenProperties
<1>1. /\ mem \in Seq(Byte) /\ VtableIn(mem, y.ret, slots)
      /\ \A o \in Offsets(Scratch(y.buf)) :
           o \in Offsets(Scratch(x.buf)) \/ (o = y.ret /\ o - Len(slots) = loc)
  BY DEF PutsVtable
<1>2. \A off : \A t \in Seq(Byte) :
        Block(mem, off, t) /\ (off <= loc - 4 \/ loc <= off - Len(t)) => Block(new, off, t)
  BY DEF Replaces
<1>9. Len(new) = Len(mem)
  BY DEF Replaces
<1>3. ASSUME NEW o \in Offsets(Scratch(x.buf))
      PROVE  o <= loc - 4
  <2>1. PICK t \in Seq(Byte) : VtableIn(base, o, t)
    BY DEF KeptIn, VtablesIn
  <2>2. o \in Nat /\ o <= Len(base)
    BY <2>1, BlockPlace DEF VtableIn
  <2>. QED
    BY <1>0, <2>2
<1>4. TAKE o \in Offsets(Scratch(y.buf))
<1>. TAKE t \in Seq(Byte)
<1>5. HAVE VtableIn(mem, o, t)
<1>6. Block(mem, o, t) /\ SlotIs(t, 0, Len(t))
  BY <1>5 DEF VtableIn
<1>7. CASE o \in Offsets(Scratch(x.buf))
  BY <1>2, <1>3, <1>5, <1>6, <1>7, <1>9 DEF VtableIn
<1>8. CASE o = y.ret /\ o - Len(slots) = loc
  <2>1. t = slots
    BY <1>1, <1>5, <1>8, VtableIsOne
  <2>2. loc <= o - Len(t)
    BY <1>0, <1>8, <2>1
  <2>. QED
    BY <1>2, <1>5, <1>6, <1>9, <2>2 DEF VtableIn
<1>. QED
  BY <1>1, <1>7, <1>8

\* The fields of the table are where its vtable says.
LEMMA FieldsAreLaid ==
  ASSUME NEW b, Sound(b), NEW names, FieldsIn(b, names), NEW T \in DOMAIN Schema,
         NEW start, NEW value, Filled(b, T, start, value),
         NEW loc \in Nat, Size(b) + 4 <= loc, IsVoffset(loc - start),
         NEW slots, VtableSize(b) % 2 = 0, VtableSize(b) \in Nat,
         SlotsAre(slots, b, VtableSize(b), start, loc),
         NEW new, EndsWith(new, Data(b.buf))
  PROVE  \A i \in DOMAIN Schema[T] :
           \/ AddedIn(new, loc, slots, Schema[T][i], Voffset(i), value[i])
           \/ NotAdded(slots, Schema[T][i], Voffset(i), value[i])
<1>. DEFINE size == VtableSize(b)
<1>1. /\ Fine(b) /\ Size(b) \in Nat /\ Data(b.buf) \in Seq(Byte) /\ start \in Nat /\ start \in Int
      /\ start <= Size(b)
  BY SizeFacts DEF Sound, Fine, Filled
<1>2. /\ b.max_voffset \in Nat /\ b.max_voffset + 2 <= size
      /\ \A k \in 1 .. b.num_field_loc : Locs(b)[k].id \in 0 .. b.max_voffset
  BY VtableSizeFacts DEF Filled, Reaches
<1>3. TAKE i \in DOMAIN Schema[T]
<1>. DEFINE f == Schema[T][i]
            field == Voffset(i)
            v == value[i]
<1>4. field \in Nat /\ field >= 4 /\ field % 2 = 0
  BY EvenVoffset
<1>5. HasField(b, start, f, field, v) \/ LacksField(b, f, field, v)
  BY DEF Filled
<1>. HIDE DEF f, field, v, size
<1>6. /\ \A k \in 1 .. b.num_field_loc :
           Locs(b)[k].id = field /\ field + 2 <= size /\ IsVoffset(loc - Locs(b)[k].off)
             => SlotIs(slots, field, loc - Locs(b)[k].off)
      /\ (\A k \in 1 .. b.num_field_loc : Locs(b)[k].id # field)
           => field >= Len(slots) \/ SlotIs(slots, field, 0)
  <2>1. size \in Nat /\ size % 2 = 0 /\ SlotsAre(slots, b, size, start, loc) /\ loc \in Int
    BY DEF size
  <2>. QED
    BY <1>1, <1>4, <2>1, SlotOfField
<1>9. size \in Nat
  BY DEF size
<1>7. CASE HasField(b, start, f, field, v)
  <2>1. PICK k \in 1 .. b.num_field_loc :
          /\ Locs(b)[k].id = field /\ Locs(b)[k].off \in start .. Size(b)
          /\ FieldIn(Data(b.buf), f, Locs(b)[k].off, v)
    BY <1>7 DEF HasField
  <2>. DEFINE at == Locs(b)[k].off
  <2>2. at \in Int /\ loc - at >= 1 /\ IsVoffset(loc - at)
    <3>1. at \in start .. Size(b)
      BY <2>1
    <3>. HIDE DEF at
    <3>. QED
      BY <1>1, <3>1 DEF IsVoffset
  <2>3. field + 2 <= size
    <3>1. field \in 0 .. b.max_voffset
      BY <1>2, <2>1
    <3>. HIDE DEF at
    <3>2. \A m \in Nat : field \in 0 .. m /\ m + 2 <= size => field + 2 <= size
      BY <1>4, <1>9
    <3>. QED
      BY <1>2, <3>1, <3>2
  <2>4. SlotIs(slots, field, loc - at)
    BY <1>6, <2>1, <2>2, <2>3
  <2>5. FieldIn(new, f, at, v)
    BY <1>1, <2>1, FieldStays
  <2>. HIDE DEF at
  <2>. QED
    BY <2>2, <2>4, <2>5 DEF AddedIn, f, field, v
<1>8. CASE LacksField(b, f, field, v)
  BY <1>6, <1>8 DEF LacksField, NotAdded, f, field, v
<1>. QED
  BY <1>5, <1>7, <1>8

\* The table points to one of these vtables.
PointsInto(mem, off, offs) ==
  \E vt \in offs : IsInt32(vt - off) /\ Block(mem, off, Bytes(vt - off, 4))

\* From b to c a table with these fields has been completed.
TableEnds(b, c, T, value, s) ==
  /\ TableIn(Data(c.buf), c.ret, T, value) /\ KeptIn(Data(c.buf), Scratch(c.buf))
  /\ PointsInto(Data(c.buf), c.ret, Offsets(Scratch(c.buf)))
  /\ Offsets(s) \subseteq Offsets(Scratch(c.buf))
  /\ EndsWith(Data(c.buf), Data(b.buf))
  /\ c.string_pool = b.string_pool /\ c.max_voffset = 0

LEMMA EndTablePuts ==
  ASSUME NEW b, Sound(b), b.nested = TRUE, NEW names, FieldsIn(b, names),
         NEW T \in DOMAIN Schema, NEW start, NEW value, Filled(b, T, start, value),
         IsVoffset(PushElement(b, 0, 4).ret - start),
         NEW s, Keeps(b, s), KeptIn(Data(b.buf), s),
         Size(EndTable(b, start)) < MaxBufferSize
  PROVE  TableEnds(b, EndTable(b, start), T, value, s)
<1>. DEFINE p == PushElement(b, 0, 4)
            loc == p.ret
            w == WriteVtable(p, start, loc)
            slots == VtableSlots(Locs(p), VtableSize(p), start, loc)
            x == ClearOffsets(w)
            y == UseVtable(x, loc)
            z == PointToVtable(y, loc)
            base == Data(b.buf)
            below == Data(p.buf)
<1>0. Fine(b) /\ start \in Int /\ start \in Nat
  BY DEF Sound, Filled
<1>1. EndTable(b, start) = z
  <2>1. Asserting(b, b.nested) = b
    BY <1>0, AssertingHolds
  <2>. QED
    BY <2>1 DEF EndTable, EndPlaced, EndTableAt
<1>2. Grown(b, p) /\ loc = Size(p) /\ Size(b) + 4 <= Size(p) /\ loc % 4 = 0 /\ loc >= 4
  <2>1. 0 \in Int /\ 4 \in 1 .. 4 /\ Size(b) \in Nat
    BY <1>0, SizeFacts
  <2>2. Grown(b, p) /\ p.ret = Size(p) /\ Size(b) + 4 <= Size(p)
    BY <1>0, <2>1, PushElementGrows
  <2>3. Size(p) = Size(b) + PaddingBytes(Size(b), 4) + 4
    BY <1>0, <2>1, PushElementPuts
  <2>4. Padded(Size(b), 4)
    BY <2>1, PaddingPads
  <2>. HIDE DEF p
  <2>5. Size(p) % 4 = 0 /\ Size(p) >= 4
    BY <2>1, <2>3, <2>4 DEF Padded
  <2>. QED
    BY <2>2, <2>5
<1>3. IsVoffset(loc - start) /\ Size(z) < MaxBufferSize
  BY <1>1
<1>4. Ends(b, z)
  BY <1>0, <1>1, EndTableEnds
<1>. HIDE DEF p, loc
<1>5. /\ Sound(p) /\ Fine(p) /\ FieldsIn(p, names) /\ Reaches(p) /\ loc \in Nat /\ loc \in Int
      /\ Size(b) \in Nat /\ Locs(p) = Locs(b) /\ VtableSize(p) = VtableSize(b)
  <2>1. Sound(p) /\ Fine(p)
    BY <1>2, GrownExtends DEF Extends, Sound
  <2>2. FieldsIn(p, names)
    BY <1>2, GrownFields
  <2>3. Size(b) \in Nat /\ Size(p) \in Nat
    BY <1>0, <2>1, SizeFacts
  <2>4. Locs(p) = Locs(b) /\ VtableSize(p) = VtableSize(b) /\ Reaches(p)
    BY <1>2 DEF Grown, Locs, VtableSize, Filled, Reaches
  <2>. QED
    BY <1>2, <2>1, <2>2, <2>3, <2>4
<1>6. WritesVtable(p, w, start, slots)
  <2>1. WritesVtable(p, WriteVtable(p, start, Size(p)), start,
                     VtableSlots(Locs(p), VtableSize(p), start, Size(p)))
    BY <1>0, <1>2, <1>5, WriteVtablePuts
  <2>. QED
    BY <1>2, <2>1
<1>. HIDE DEF w, slots
<1>7. /\ Grown(p, w) /\ Sound(w) /\ slots \in Seq(Byte) /\ Data(w.buf) = slots \o below
      /\ VtableIn(Data(w.buf), Size(w), slots)
  BY <1>5, <1>6, GrownExtends DEF WritesVtable, Extends
<1>8. /\ Sound(x) /\ Fine(x) /\ Data(x.buf) = Data(w.buf) /\ Scratch(x.buf) = s
      /\ x.num_field_loc = 0 /\ x.max_voffset = 0 /\ x.string_pool = b.string_pool
      /\ s \in Seq(Byte)
  <2>1. Keeps(w, s)
    BY <1>2, <1>7, KeepsGrown
  <2>2. Scratch(x.buf) = s
    BY <1>7, <2>1, ClearOffsetsKeeps
  <2>3. /\ Sound(x) /\ Data(x.buf) = Data(w.buf)
        /\ x.num_field_loc = 0 /\ x.max_voffset = 0 /\ x.string_pool = w.string_pool
    BY <1>7, ClearOffsetsSound
  <2>4. w.string_pool = b.string_pool
    BY <1>2, <1>7 DEF Grown
  <2>. QED
    BY <2>2, <2>3, <2>4 DEF Sound, Keeps
<1>. HIDE DEF x
<1>9. Size(x) = Size(w)
  <2>1. Fine(w)
    BY <1>7 DEF Sound
  <2>. QED
    BY <1>8, <2>1, SizeFacts
<1>10. /\ base \in Seq(Byte) /\ below \in Seq(Byte) /\ Len(base) = Size(b) /\ Len(below) = loc
       /\ EndsWith(below, base)
  BY <1>0, <1>2, GrownEnds
<1>11. KeptIn(base, s) /\ KeptIn(below, s)
  BY <1>10, KeptStays
<1>. HIDE DEF base, below
<1>12. Uses(x, UseVtable(x, loc), below)
  <2>1. Data(x.buf) = slots \o below
    BY <1>7, <1>8
  <2>2. x.string_pool \subseteq 1 .. loc
    <3>1. x.string_pool \subseteq 1 .. Size(b)
      BY <1>8 DEF Sound
    <3>2. 1 .. Size(b) \subseteq 1 .. loc
      BY <1>2, <1>5
    <3>. QED
      BY <3>1, <3>2
  <2>. QED
    BY <1>7, <1>8, <1>10, <2>1, <2>2, UseVtableSound
<1>13. Sound(y) /\ Fine(y) /\ loc <= Size(y) /\ Size(y) \in Nat /\ y.ret \in Int
  <2>1. Sound(y) /\ Fine(y)
    BY <1>12 DEF Uses, Sound
  <2>. HIDE DEF y
  <2>2. PICK bytes \in Seq(Byte) : Data(y.buf) = bytes \o below
    BY <1>12 DEF Uses, y
  <2>3. Len(Data(y.buf)) = Len(bytes) + Len(below) /\ Len(bytes) \in Nat
    BY <1>10, <2>2, Joined, LenProperties
  <2>4. Size(y) \in Nat /\ Len(Data(y.buf)) = Size(y) /\ y.ret \in Int
    BY <2>1, SizeFacts DEF Fine
  <2>. QED
    BY <1>5, <1>10, <2>1, <2>3, <2>4
<1>14. Replaces(y, z, loc, Bytes(y.ret - loc, 4))
  <2>1. Fine(z)
    BY <1>4 DEF Ends, Sound
  <2>2. 4 <= loc
    BY <1>2, <1>5
  <2>. HIDE DEF y
  <2>. QED
    BY <1>5, <1>13, <2>1, <2>2, PointToVtableReplaces
<1>15. Size(z) = Size(y) /\ Scratch(z.buf) = Scratch(y.buf)
       /\ z.string_pool = y.string_pool /\ z.max_voffset = y.max_voffset
  BY <1>14 DEF Replaces
<1>16. PutsVtable(x, y, below, slots)
  <2>1. Data(x.buf) = slots \o below /\ VtableIn(Data(x.buf), Size(x), slots)
    BY <1>7, <1>8, <1>9
  <2>2. KeptIn(below, Scratch(x.buf)) /\ loc = Len(below)
    BY <1>8, <1>10, <1>11
  <2>3. Size(y) < MaxBufferSize
    BY <1>3, <1>15
  <2>. QED
    BY <1>7, <1>8, <1>10, <1>13, <2>1, <2>2, <2>3, UseVtablePuts
<1>17. /\ Data(y.buf) \in Seq(Byte) /\ y.string_pool = x.string_pool /\ y.max_voffset = x.max_voffset
       /\ y.ret \in Nat /\ VtableIn(Data(y.buf), y.ret, slots) /\ KeptIn(Data(y.buf), Scratch(y.buf))
       /\ y.ret \in Offsets(Scratch(y.buf)) /\ Offsets(s) \subseteq Offsets(Scratch(y.buf))
  BY <1>8, <1>16 DEF PutsVtable
<1>. DEFINE new == Data(z.buf)
            offs == Offsets(Scratch(y.buf))
<1>18. new \in Seq(Byte) /\ EndsWith(new, base) /\ z.ret = loc
  <2>1. new \in Seq(Byte) /\ EndsWith(new, base)
    BY <1>4 DEF Ends, Sound, Fine, EndsWith, base
  <2>. HIDE DEF y
  <2>. QED
    BY <1>13, <2>1 DEF PointToVtable, Fine
<1>. HIDE DEF y, z
<1>19. \A o \in offs : \A t \in Seq(Byte) : VtableIn(Data(y.buf), o, t) => VtableIn(new, o, t)
  <2>1. KeptIn(base, Scratch(x.buf)) /\ Len(base) + 4 <= Len(below)
    BY <1>2, <1>8, <1>10, <1>11
  <2>2. Replaces(y, z, Len(below), Bytes(y.ret - loc, 4))
    BY <1>10, <1>14
  <2>. QED
    <3>1. Data(z.buf) \in Seq(Byte) /\ base \in Seq(Byte) /\ below \in Seq(Byte) /\ slots \in Seq(Byte)
      BY <1>7, <1>10, <1>18
    <3>. DEFINE bytes == Bytes(y.ret - loc, 4)
    <3>. HIDE DEF new, offs, slots, below, base, bytes
    <3>2. Replaces(y, z, Len(below), bytes)
      BY <2>2 DEF bytes
    <3>3. PutsVtable(x, y, below, slots) /\ KeptIn(base, Scratch(x.buf)) /\ Len(base) + 4 <= Len(below)
      BY <1>16, <2>1
    <3>4. \A o \in Offsets(Scratch(y.buf)) : \A t \in Seq(Byte) :
            VtableIn(Data(y.buf), o, t) => VtableIn(Data(z.buf), o, t)
      BY <3>1, <3>2, <3>3, VtablesSurvive
    <3>. QED
      BY <3>4 DEF new, offs
<1>20. KeptIn(new, Scratch(z.buf)) /\ VtableIn(new, y.ret, slots)
  <2>1. VtablesIn(Data(y.buf), offs)
    BY <1>17 DEF KeptIn
  <2>. HIDE DEF new, offs
  <2>2. VtablesIn(new, offs)
    BY <1>17, <1>18, <1>19, <2>1, VtablesLast
  <2>. QED
    <3>1. VtableIn(new, y.ret, slots)
      BY <1>7, <1>17, <1>19 DEF offs
    <3>2. KeptIn(new, Scratch(y.buf))
      BY <1>17, <2>2 DEF KeptIn, offs
    <3>. QED
      BY <1>15, <3>1, <3>2
<1>21. IsInt32(y.ret - loc) /\ Block(new, loc, Bytes(y.ret - loc, 4))
  <2>1. y.ret <= Size(y)
    <3>1. y.ret <= Len(Data(y.buf))
      BY <1>7, <1>17, BlockPlace DEF VtableIn
    <3>. QED
      BY <1>13, <3>1, SizeFacts
  <2>2. Size(y) < MaxBufferSize
    BY <1>3, <1>15
  <2>3. Block(new, loc, Bytes(y.ret - loc, 4))
    BY <1>14 DEF Replaces
  <2>4. IsInt32(y.ret - loc)
    BY <1>5, <1>13, <1>17, <2>1, <2>2 DEF IsInt32, MaxBufferSize
  <2>. QED
    BY <2>3, <2>4
<1>22. \A i \in DOMAIN Schema[T] :
          \/ AddedIn(new, loc, slots, Schema[T][i], Voffset(i), value[i])
          \/ NotAdded(slots, Schema[T][i], Voffset(i), value[i])
  <2>1. /\ VtableSize(b) \in Nat /\ VtableSize(b) % 2 = 0
        /\ SlotsAre(slots, p, VtableSize(b), start, loc)
    BY <1>2, <1>5, <1>6 DEF WritesVtable
  <2>2. SlotsAre(slots, b, VtableSize(b), start, loc)
    BY <1>5, <2>1 DEF SlotsAre
  <2>3. Size(b) + 4 <= loc /\ EndsWith(new, Data(b.buf))
    BY <1>2, <1>18 DEF base
  <2>. HIDE DEF new
  <2>. QED
    BY <1>3, <1>5, <2>1, <2>2, <2>3, FieldsAreLaid
<1>23. TableIn(new, loc, T, value)
  <2>1. value = [i \in DOMAIN Schema[T] |-> value[i]]
    BY DEF Filled
  <2>. HIDE DEF new
  <2>2. LaidOut(new, loc, T, value, y.ret, slots)
    BY <1>2, <1>5, <1>20, <1>21, <1>22, <2>1 DEF LaidOut
  <2>. QED
    BY <1>7, <1>13, <2>2 DEF TableIn
<1>24. PointsInto(new, loc, Offsets(Scratch(z.buf)))
  <2>. HIDE DEF new
  <2>. QED
    BY <1>15, <1>17, <1>21 DEF PointsInto
<1>25. z.string_pool = b.string_pool /\ z.max_voffset = 0 /\ Offsets(s) \subseteq Offsets(Scratch(z.buf))
  BY <1>8, <1>15, <1>17
<1>26. TableEnds(b, z, T, value, s)
  BY <1>18, <1>20, <1>23, <1>24, <1>25 DEF TableEnds, base
<1>. QED
  BY <1>1, <1>26

----------------------------------------------------------------------------
(* The invariant.                                                          *)

\* An object is in the data; a table's vtable is one of those kept, and a
\* shared string is one of the pool.
Stored(mem, o, offs, pool) ==
  /\ ObjectIn(mem, o)
  /\ o.kind = "table" => PointsInto(mem, o.off, offs)
  /\ o.kind = "string" /\ o.type = "shared" => o.off \in pool

\* All objects are stored, with the vtables that s keeps and the strings of pool.
Holds(mem, objs, s, pool) ==
  /\ PoolIn(mem, pool) /\ KeptIn(mem, s)
  /\ \A o \in objs : Stored(mem, o, Offsets(s), pool)

\* Until the buffer is finished, what is kept is in the scratch pad.
Remembers(b, s, pool) == ~b.finished => Keeps(b, s) /\ b.string_pool = pool

\* Everything that was built is in the data, the fields of the table that is
\* being built are as they were set, and outside of tables there are none.
ReadInv ==
  /\ BuildInv
  /\ \E s, pool : Holds(Data(bld.buf), objects, s, pool) /\ Remembers(bld, s, pool)
  /\ open.started => Filled(bld, open.type, open.start, open.value)
  /\ ~open.started /\ ~bld.finished => bld.max_voffset = 0

LEMMA StoredStays ==
  ASSUME NEW mem \in Seq(Byte), NEW new, EndsWith(new, mem), NEW o,
         NEW offs, NEW offs2, offs \subseteq offs2, NEW pool, NEW pool2, pool \subseteq pool2,
         Stored(mem, o, offs, pool)
  PROVE  Stored(new, o, offs2, pool2)
<1>1. ObjectIn(new, o)
  BY ObjectStays DEF Stored
<1>2. o.kind = "table" => PointsInto(new, o.off, offs2)
  <2>. HAVE o.kind = "table"
  <2>1. PICK vt \in offs : IsInt32(vt - o.off) /\ Block(mem, o.off, Bytes(vt - o.off, 4))
    BY DEF Stored, PointsInto
  <2>2. Block(new, o.off, Bytes(vt - o.off, 4))
    BY <2>1, BlocksStay DEF IsInt32
  <2>. QED
    BY <2>1, <2>2 DEF PointsInto
<1>. QED
  BY <1>1, <1>2 DEF Stored

LEMMA HoldsStays ==
  ASSUME NEW mem \in Seq(Byte), NEW new \in Seq(Byte), EndsWith(new, mem), NEW objs, NEW s, NEW pool,
         Holds(mem, objs, s, pool)
  PROVE  Holds(new, objs, s, pool)
BY StoredStays, PoolStays, KeptStays DEF Holds

\* One more object.
LEMMA HoldsMore ==
  ASSUME NEW mem, NEW objs, NEW s, NEW pool, Holds(mem, objs, s, pool),
         NEW o, Stored(mem, o, Offsets(s), pool)
  PROVE  Holds(mem, objs \cup {o}, s, pool)
BY DEF Holds

\* What outside of tables is appended to is an idle builder.
LEMMA IdleReads ==
  ASSUME ReadInv, Idle
  PROVE  /\ Sound(bld) /\ Fine(bld) /\ ~bld.nested /\ bld.num_field_loc = 0
         /\ bld.max_voffset = 0 /\ ~bld.finished /\ open = NoTable
         /\ Data(bld.buf) \in Seq(Byte)
BY IdleBuilder DEF ReadInv, Idle, Fine

\* An object has been written that is no table and not shared.
LEMMA RecordReads ==
  ASSUME ReadInv, Idle, BuildInv', NEW c, Grown(bld, c),
         NEW kind, NEW type, NEW value, Record(c, kind, type, value), UNCHANGED open,
         kind # "table", kind = "string" => type # "shared",
         ObjectIn(Data(c.buf), [off |-> c.ret, kind |-> kind, type |-> type, value |-> value])
  PROVE  ReadInv'
<1>. DEFINE o == [off |-> c.ret, kind |-> kind, type |-> type, value |-> value]
<1>1. /\ Fine(bld) /\ bld.max_voffset = 0 /\ ~bld.finished /\ open = NoTable
  BY IdleReads
<1>2. bld' = c /\ objects' = objects \cup {o} /\ open' = NoTable
  BY <1>1 DEF Record
<1>3. /\ Data(bld.buf) \in Seq(Byte) /\ Data(c.buf) \in Seq(Byte)
      /\ EndsWith(Data(c.buf), Data(bld.buf))
  BY <1>1, GrownEnds
<1>4. PICK s, pool : Holds(Data(bld.buf), objects, s, pool) /\ Remembers(bld, s, pool)
  BY DEF ReadInv
<1>5. Stored(Data(c.buf), o, Offsets(s), pool)
  <2>1. ObjectIn(Data(c.buf), o) /\ o.kind = kind /\ o.type = type
    OBVIOUS
  <2>. HIDE DEF o
  <2>. QED
    BY <2>1 DEF Stored
<1>. HIDE DEF o
<1>6. Holds(Data(c.buf), objects \cup {o}, s, pool)
  BY <1>3, <1>4, <1>5, HoldsStays, HoldsMore
<1>7. Remembers(c, s, pool)
  BY <1>4, KeepsGrown DEF Remembers, Grown
<1>8. ~open'.started /\ c.max_voffset = 0
  BY <1>1, <1>2 DEF NoTable, Grown
<1>. QED
  BY <1>2, <1>6, <1>7, <1>8 DEF ReadInv

LEMMA TextLength ==
  ASSUME NEW str \in Texts
  PROVE  str \in Seq(Byte) /\ IsInt32(Len(str))
<1>1. str \in Seq(Byte) /\ Len(str) < MaxBufferSize
  BY MessageAssumption
<1>2. Len(str) \in Nat
  BY <1>1, LenProperties
<1>. QED
  BY <1>1, <1>2 DEF IsInt32, MaxBufferSize

LEMMA CreateTextReads ==
  ASSUME ReadInv, BuildInv', NEW str \in Texts, CreateText(str)
  PROVE  ReadInv'
<1>1. Idle /\ UNCHANGED open
  BY DEF CreateText
<1>2. str \in Seq(Byte) /\ IsInt32(Len(str))
  BY TextLength
<1>3. /\ Fine(bld) /\ Sound(bld) /\ ~bld.nested /\ bld.num_field_loc = 0 /\ bld.max_voffset = 0
      /\ ~bld.finished /\ open = NoTable /\ Data(bld.buf) \in Seq(Byte)
  BY <1>1, IdleReads
<1>4. CASE Record(CreateString(bld, str), "string", "", str)
  <2>. DEFINE c == CreateString(bld, str)
  <2>1. PutsText(bld, c, str)
    BY <1>2, <1>3, CreateStringPuts
  <2>2. Record(c, "string", "", str)
    BY <1>4
  <2>. HIDE DEF c
  <2>3. Grown(bld, c) /\ TextIn(Data(c.buf), c.ret, str)
    BY <2>1 DEF PutsText
  <2>4. ObjectIn(Data(c.buf), [off |-> c.ret, kind |-> "string", type |-> "", value |-> str])
    BY <1>2, <2>3 DEF ObjectIn
  <2>. QED
    BY <1>1, <2>2, <2>3, <2>4, RecordReads
<1>5. CASE Record(CreateSharedString(bld, str), "string", "shared", str)
  <2>. DEFINE c == CreateSharedString(bld, str)
              o == [off |-> c.ret, kind |-> "string", type |-> "shared", value |-> str]
              mem == Data(c.buf)
              more == c.string_pool
  <2>1. PICK s, pool : Holds(Data(bld.buf), objects, s, pool) /\ Remembers(bld, s, pool)
    BY DEF ReadInv
  <2>2. Keeps(bld, s) /\ bld.string_pool = pool /\ PoolIn(Data(bld.buf), bld.string_pool)
    BY <1>3, <2>1 DEF Remembers, Holds
  <2>3. PutsShared(bld, c, str)
    BY <1>2, <1>3, <2>2, CreateSharedStringPuts
  <2>4. Extends(bld, c)
    BY <1>2, <1>3, CreateSharedStringExtends
  <2>5. bld' = c /\ objects' = objects \cup {o} /\ open' = NoTable
    BY <1>1, <1>3, <1>5 DEF Record
  <2>6. o.off = c.ret /\ o.kind = "string" /\ o.type = "shared" /\ o.value = str
    OBVIOUS
  <2>. HIDE DEF c, o
  <2>7. /\ mem \in Seq(Byte) /\ EndsWith(mem, Data(bld.buf)) /\ Scratch(c.buf) = Scratch(bld.buf)
        /\ TextIn(mem, c.ret, str) /\ PoolIn(mem, more) /\ c.ret \in more
        /\ pool \subseteq more /\ c.max_voffset = 0
    BY <1>3, <2>2, <2>3 DEF PutsShared
  <2>8. c.num_field_loc = bld.num_field_loc
    BY <2>4 DEF Extends
  <2>. HIDE DEF mem, more
  <2>9. KeptIn(mem, s)
    BY <1>3, <2>1, <2>7, KeptStays DEF Holds
  <2>10. Stored(mem, o, Offsets(s), more)
    BY <1>2, <2>6, <2>7 DEF Stored, ObjectIn
  <2>11. \A p \in objects : Stored(mem, p, Offsets(s), more)
    BY <1>3, <2>1, <2>7, StoredStays DEF Holds
  <2>12. Holds(mem, objects \cup {o}, s, more)
    BY <2>7, <2>9, <2>10, <2>11 DEF Holds
  <2>13. Remembers(c, s, more)
    BY <2>2, <2>7, <2>8 DEF Remembers, Keeps, more
  <2>. QED
    BY <2>5, <2>7, <2>12, <2>13 DEF ReadInv, NoTable, mem
<1>. QED
  BY <1>4, <1>5 DEF CreateText

LEMMA CreateScalarsReads ==
  ASSUME ReadInv, BuildInv', LimitsKept', NEW type \in DOMAIN Vectors, NEW elements \in Vectors[type],
         CreateScalars(type, elements)
  PROVE  ReadInv'
<1>. DEFINE width == Widths[type]
            c == CreateVector(bld, elements, width)
<1>1. Idle /\ UNCHANGED open /\ Record(c, "scalars", type, elements)
  BY DEF CreateScalars
<1>2. width \in {1, 2, 4, 8} /\ elements \in Seq([1 .. width -> Byte])
  BY MessageAssumption
<1>3. Fine(bld) /\ ~bld.nested /\ bld.num_field_loc = 0
  BY <1>1, IdleReads
<1>4. elements \in Seq(Seq(Byte)) /\ width \in Nat
  BY Contents
<1>5. Size(c) < MaxBufferSize
  BY <1>1 DEF Record, LimitsKept, Size
<1>6. PutsScalars(bld, c, elements, width)
  <2>. HIDE DEF width
  <2>. QED
    BY <1>2, <1>3, <1>5, CreateVectorPuts
<1>. HIDE DEF c
<1>7. Grown(bld, c) /\ ScalarsIn(Data(c.buf), c.ret, elements, Widths[type])
  BY <1>6 DEF PutsScalars
<1>8. ObjectIn(Data(c.buf), [off |-> c.ret, kind |-> "scalars", type |-> type, value |-> elements])
  BY <1>4, <1>7 DEF ObjectIn
<1>. QED
  BY <1>1, <1>7, <1>8, RecordReads

LEMMA CreateTablesReads ==
  ASSUME ReadInv, BuildInv', LimitsKept', NEW T \in Types, CreateTables(T)
  PROVE  ReadInv'
<1>1. Idle /\ UNCHANGED open
  BY DEF CreateTables
<1>length. PICK n \in 0 .. MaxTables :
        \E offs \in [1 .. n -> OffsetsOf(T)] :
          Record(CreateVectorOfOffsets(bld, offs), "tables", T, offs)
  BY DEF CreateTables
<1>2. PICK offs \in [1 .. n -> OffsetsOf(T)] :
        Record(CreateVectorOfOffsets(bld, offs), "tables", T, offs)
  BY <1>length
<1>. DEFINE c == CreateVectorOfOffsets(bld, offs)
<1>3. Fine(bld) /\ ~bld.nested /\ bld.num_field_loc = 0
  BY <1>1, IdleReads
<1>4. offs \in Seq(1 .. Size(bld)) /\ offs \in Seq(Int)
  <2>1. OffsetsOf(T) \subseteq 1 .. Size(bld)
    BY DEF OffsetsOf, ReadInv, BuildInv
  <2>2. n \in Nat
    BY MessageAssumption
  <2>3. offs \in [1 .. n -> 1 .. Size(bld)]
    BY <2>1
  <2>4. offs \in Seq(1 .. Size(bld))
    BY <2>2, <2>3, TuplesAreSeqs
  <2>5. offs \in [1 .. n -> Int]
    BY <2>3
  <2>6. offs \in Seq(Int)
    BY <2>2, <2>5, TuplesAreSeqs
  <2>. QED
    BY <2>4, <2>6
<1>5. Size(c) < MaxBufferSize
  BY <1>2 DEF Record, LimitsKept, Size
<1>6. PutsOffsets(bld, c, offs)
  BY <1>3, <1>4, <1>5, CreateVectorOfOffsetsPuts
<1>7. Record(c, "tables", T, offs)
  BY <1>2
<1>. HIDE DEF c
<1>8. Grown(bld, c) /\ TablesIn(Data(c.buf), c.ret, offs)
  BY <1>6 DEF PutsOffsets
<1>9. ObjectIn(Data(c.buf), [off |-> c.ret, kind |-> "tables", type |-> T, value |-> offs])
  BY <1>4, <1>8 DEF ObjectIn
<1>. QED
  BY <1>1, <1>7, <1>8, <1>9, RecordReads


LEMMA BeginReads ==
  ASSUME ReadInv, BuildInv', NEW T \in Types, Begin(T)
  PROVE  ReadInv'
<1>. DEFINE c == StartTable(bld)
            value == [i \in DOMAIN Schema[T] |-> Default(Schema[T][i])]
<1>1. /\ Idle /\ bld' = c /\ UNCHANGED objects
      /\ open' = [started |-> TRUE, type |-> T, start |-> c.ret, added |-> {}, value |-> value]
  BY DEF Begin
<1>2. /\ Sound(bld) /\ ~bld.nested /\ bld.num_field_loc = 0 /\ bld.max_voffset = 0
      /\ ~bld.finished
  BY <1>1, IdleReads
<1>3. T \in DOMAIN Schema
  BY TablesAssumption
<1>4. c.buf = bld.buf
  BY <1>2, StartTableOpens
<1>5. Builds(bld, c) /\ Filled(c, T, c.ret, value)
  BY <1>2, <1>3, StartTableFills
<1>. HIDE DEF c, value
<1>6. PICK s, pool : Holds(Data(bld.buf), objects, s, pool) /\ Remembers(bld, s, pool)
  BY DEF ReadInv
<1>7. Remembers(c, s, pool)
  BY <1>2, <1>5, <1>6 DEF Remembers, Builds
<1>8. Holds(Data(bld'.buf), objects', s, pool)
  BY <1>1, <1>4, <1>6
<1>9. open'.started = TRUE /\ Filled(bld', open'.type, open'.start, open'.value)
  BY <1>1, <1>5
<1>. QED
  BY <1>1, <1>7, <1>8, <1>9 DEF ReadInv

\* What a field is set to suits it.
LEMMA ValueSuits ==
  ASSUME BuildInv, NEW T \in DOMAIN Schema, NEW i \in DOMAIN Schema[T],
         NEW value \in FieldValues(Schema[T][i])
  PROVE  Suits(bld, Schema[T][i], value)
<1>. DEFINE f == Schema[T][i]
<1>1. \A p \in objects : p.off \in 1 .. Size(bld)
  BY DEF BuildInv
<1>2. /\ Structs \subseteq Seq(Byte) /\ \A n \in Numbers : IsInt32(n)
      /\ f.kind = "struct" => \A struct \in Structs : Len(struct) = f.width
  BY MessageAssumption, TablesAssumption
<1>. HIDE DEF f
<1>3. value \in FieldValues(f)
  BY DEF f
<1>4. Suits(bld, f, value)
  BY <1>1, <1>2, <1>3 DEF FieldValues, Suits
<1>. QED
  BY <1>4 DEF f

LEMMA AddFieldReads ==
  ASSUME ReadInv, BuildInv', LimitsKept', AddField
  PROVE  ReadInv'
<1>. DEFINE T == open.type
            names == Names(open.added)
            is == open.added
            start == open.start
            values == open.value
<1>1. /\ Opens(open) /\ bld.nested = TRUE /\ ~bld.finished /\ FieldsIn(bld, names)
      /\ Sound(bld) /\ open.started /\ BuildInv
  BY DEF ReadInv, BuildInv, AddField, NoTable
<1>field. PICK i \in DOMAIN Schema[T] \ open.added :
        \E value \in FieldValues(Schema[T][i]) : Add(i, value)
  BY DEF AddField
<1>2. PICK value \in FieldValues(Schema[T][i]) : Add(i, value)
  BY <1>field
<1>. DEFINE f == Schema[T][i]
            c == AddTo(bld, f, Voffset(i), value)
            w == [values EXCEPT ![i] = value]
<1>3. /\ bld' = c /\ UNCHANGED objects
      /\ open' = [open EXCEPT !.added = @ \cup {i}, !.value[i] = value]
  BY <1>2 DEF Add
<1>4. T \in DOMAIN Schema /\ i \in DOMAIN Schema[T] /\ is \subseteq DOMAIN Schema[T] /\ i \notin is
  BY <1>1 DEF Opens
<1>5. i \in Int /\ is \subseteq Int
  BY <1>4, Fields
<1>6. Voffset(i) \notin names
  <2>. HIDE DEF is, T
  <2>1. Voffset(i) \notin Names(is)
    BY <1>4, <1>5, Voffsets
  <2>. QED
    BY <2>1 DEF is
<1>7. Suits(bld, f, value)
  <2>. HIDE DEF T
  <2>. QED
    BY <1>1, <1>2, <1>4, ValueSuits
<1>8. Filled(bld, T, start, values)
  BY <1>1 DEF ReadInv
<1>9. Size(c) < MaxBufferSize
  BY <1>3 DEF LimitsKept, Size
<1>10. Builds(bld, c) /\ Filled(c, T, start, w)
  <2>. HIDE DEF T, start, values, names
  <2>. QED
    BY <1>1, <1>4, <1>6, <1>7, <1>8, <1>9, AddToFills
<1>11. open'.started = TRUE /\ open'.type = T /\ open'.start = start /\ open'.value = w
  BY <1>1, <1>3 DEF Opens
<1>. HIDE DEF c, w
<1>12. PICK s, pool : Holds(Data(bld.buf), objects, s, pool) /\ Remembers(bld, s, pool)
  BY DEF ReadInv
<1>13. Remembers(c, s, pool)
  BY <1>1, <1>10, <1>12 DEF Remembers, Builds
<1>14. Data(bld.buf) \in Seq(Byte) /\ Data(c.buf) \in Seq(Byte)
  BY <1>1, <1>3 DEF BuildInv, Sound, Fine
<1>15. Holds(Data(c.buf), objects, s, pool)
  BY <1>10, <1>12, <1>14, HoldsStays DEF Builds
<1>16. Filled(bld', open'.type, open'.start, open'.value)
  BY <1>3, <1>10, <1>11
<1>. QED
  BY <1>3, <1>11, <1>13, <1>15, <1>16 DEF ReadInv

LEMMA EndReads ==
  ASSUME ReadInv, LimitsKept, BuildInv', LimitsKept', End
  PROVE  ReadInv'
<1>. DEFINE T == open.type
            names == Names(open.added)
            start == open.start
            value == open.value
            c == EndTable(bld, start)
            o == [off |-> c.ret, kind |-> "table", type |-> T, value |-> value]
            kept == Scratch(c.buf)
<1>1. /\ Opens(open) /\ bld.nested = TRUE /\ ~bld.finished /\ FieldsIn(bld, names)
      /\ Sound(bld) /\ open.started
  BY DEF ReadInv, BuildInv, End, NoTable
<1>2. bld' = c /\ objects' = objects \cup {o} /\ open' = NoTable
  BY DEF End, Record
<1>3. T \in DOMAIN Schema /\ Filled(bld, T, start, value)
  BY <1>1 DEF Opens, ReadInv
<1>4. IsVoffset(PushElement(bld, 0, 4).ret - start)
  BY <1>1 DEF LimitsKept
<1>5. Size(c) < MaxBufferSize
  BY <1>2 DEF LimitsKept, Size
<1>6. PICK s, pool : Holds(Data(bld.buf), objects, s, pool) /\ Remembers(bld, s, pool)
  BY DEF ReadInv
<1>7. Keeps(bld, s) /\ KeptIn(Data(bld.buf), s) /\ bld.string_pool = pool
  BY <1>1, <1>6 DEF Holds, Remembers
<1>8. TableEnds(bld, c, T, value, s)
  <2>. HIDE DEF T, start, value, names
  <2>. QED
    BY <1>1, <1>3, <1>4, <1>5, <1>7, EndTablePuts
<1>9. Fine(c) /\ c.num_field_loc = 0 /\ Data(bld.buf) \in Seq(Byte) /\ Data(c.buf) \in Seq(Byte)
  BY <1>1, <1>2 DEF BuildInv, Sound, Fine, NoTable, Opens
<1>10. o.off = c.ret /\ o.kind = "table" /\ o.type = T /\ o.value = value
  OBVIOUS
<1>. HIDE DEF c, o, T, value, start
<1>11. /\ TableIn(Data(c.buf), c.ret, T, value) /\ KeptIn(Data(c.buf), kept)
       /\ PointsInto(Data(c.buf), c.ret, Offsets(kept))
       /\ Offsets(s) \subseteq Offsets(kept)
       /\ EndsWith(Data(c.buf), Data(bld.buf))
       /\ c.string_pool = pool /\ c.max_voffset = 0
  BY <1>7, <1>8 DEF TableEnds
<1>12. Keeps(c, kept)
  <2>1. kept \in Seq(Byte)
    BY <1>11 DEF KeptIn
  <2>. QED
    BY <1>9, <2>1, NoFieldsKeeps
<1>. HIDE DEF kept
<1>13. Stored(Data(c.buf), o, Offsets(kept), pool)
  BY <1>3, <1>10, <1>11 DEF Stored, ObjectIn
<1>14. \A p \in objects : Stored(Data(c.buf), p, Offsets(kept), pool)
  BY <1>6, <1>9, <1>11, StoredStays DEF Holds
<1>15. PoolIn(Data(c.buf), pool)
  BY <1>6, <1>9, <1>11, PoolStays DEF Holds
<1>16. Holds(Data(c.buf), objects \cup {o}, kept, pool)
  BY <1>11, <1>13, <1>14, <1>15 DEF Holds
<1>17. Remembers(c, kept, pool)
  BY <1>11, <1>12 DEF Remembers
<1>. QED
  BY <1>2, <1>11, <1>16, <1>17 DEF ReadInv, NoTable


----------------------------------------------------------------------------
(* The message.                                                            *)

\* From b to c no more than n bytes have been written.
Near(b, c, n) == Size(b) \in Nat /\ Size(c) \in Nat /\ Size(b) <= Size(c) /\ Size(c) <= Size(b) + n

LEMMA ElementIsNear ==
  ASSUME NEW b, Sound(b), NEW field, IsVoffset(field), NEW v \in Int, NEW width \in {1, 4}
  PROVE  Near(b, AddElement(b, field, v, width, 0), 8) /\ Near(b, PushElement(b, v, width), 8)
<1>. DEFINE p == PushElement(b, v, width)
            c == AddElement(b, field, v, width, 0)
<1>1. Fine(b) /\ Size(b) \in Nat /\ width \in 1 .. 4
  BY SizeFacts DEF Sound
<1>2. Puts(b, p, Bytes(v, width)) /\ Size(p) = Size(b) + PaddingBytes(Size(b), width) + width
  BY <1>1, PushElementPuts
<1>3. PaddingBytes(Size(b), width) \in Nat /\ PaddingBytes(Size(b), width) <= width
  <2>1. Size(b) \in Int /\ width \in {1, 2, 4, 8}
    BY <1>1
  <2>. QED
    BY <2>1, PaddingIsLess
<1>4. c = b \/ c = TrackLast(p, field)
  BY DEF AddElement
<1>. HIDE DEF p, c
<1>5. Size(TrackLast(p, field)) = Size(p)
  BY <1>2, TrackLastSize DEF Puts
<1>6. Size(p) \in Nat /\ Size(b) <= Size(p) /\ Size(p) <= Size(b) + 8
  BY <1>1, <1>2, <1>3
<1>7. Size(c) = Size(b) \/ Size(c) = Size(p)
  BY <1>4, <1>5
<1>8. Near(b, c, 8) /\ Near(b, p, 8)
  BY <1>1, <1>6, <1>7 DEF Near
<1>. QED
  BY <1>8 DEF p, c

LEMMA OffsetIsNear ==
  ASSUME NEW b, Sound(b), NEW field, IsVoffset(field), NEW off \in 1 .. Size(b)
  PROVE  Near(b, AddOffset(b, field, off), 8)
<1>. DEFINE p == PushOffset(b, off)
            c == AddOffset(b, field, off)
<1>1. Fine(b) /\ Size(b) \in Nat
  BY SizeFacts DEF Sound
<1>2. PutsOffset(b, p, off)
  BY <1>1, PushOffsetPuts
<1>3. c = TrackLast(p, field)
  BY <1>1 DEF AddOffset
<1>. HIDE DEF p, c
<1>4. Grown(b, p) /\ Size(p) <= Size(b) + 8
  BY <1>2 DEF PutsOffset
<1>5. Size(c) = Size(p)
  BY <1>3, <1>4, TrackLastSize
<1>6. Size(p) \in Nat /\ Size(b) <= Size(p)
  BY <1>1, <1>4, GrownSize
<1>7. Near(b, c, 8)
  BY <1>1, <1>4, <1>5, <1>6 DEF Near
<1>. QED
  BY <1>7 DEF c

\* From b to c the buffer has been finished, and begins with where the root is.
FinishesAt(b, c, root) ==
  /\ Finishes(b, c) /\ Size(b) \in Nat /\ Size(c) \in Nat /\ Size(b) <= Size(c)
  /\ (Size(c) < MaxBufferSize => Leads(Data(c.buf), Size(c), root))

LEMMA FinishPuts ==
  ASSUME NEW b, Sound(b), b.num_field_loc = 0, ~b.nested, NEW root \in 1 .. Size(b)
  PROVE  FinishesAt(b, Finish(b, root), root)
<1>. DEFINE d == WithBuf(b, ClearScratch(b.buf))
            f == PreAlign(d, 4 + Len(<<>>), b.minalign)
            g == PushBytes(f, <<>>)
            h == PushOffset(g, root)
            c == Finish(b, root)
<1>0. Fine(b) /\ b.minalign \in Nat \ {0}
  BY DEF Sound, Fine
<1>1. c = FinishedBuilder(h)
  <2>1. NotNested(b) = b
    BY <1>0, NotNestedHolds
  <2>. QED
    BY <2>1 DEF Finish, FinishWith, FinishAligned, FrontAligned, Prefixed, WithBuf,
                FinishedBuilder
<1>2. Extends(b, d)
  BY ScratchClearedExtends
<1>12. Finishes(b, c)
  BY FinishFinishes
<1>. HIDE DEF d, c
<1>3. Fine(d)
  BY <1>2 DEF Extends, Sound
<1>4. Grown(d, f)
  <2>1. 4 + Len(<<>>) \in Nat
    OBVIOUS
  <2>. QED
    BY <1>0, <1>3, <2>1, PreAlignGrows
<1>. HIDE DEF f
<1>5. Fine(f)
  BY <1>4 DEF Grown
<1>6. Grown(f, g)
  BY <1>5, EmptySeq, PushBytesGrows
<1>. HIDE DEF g
<1>7. Extends(b, f)
  BY <1>0, <1>2, <1>4, ExtendsOn
<1>8. Extends(b, g)
  BY <1>0, <1>6, <1>7, ExtendsOn
<1>9. Fine(g) /\ root \in 1 .. Size(g) /\ Size(b) \in Nat /\ Size(g) \in Nat /\ Size(b) <= Size(g)
  <2>1. Fine(g) /\ Size(b) \in Nat /\ Size(g) \in Nat /\ Size(b) <= Size(g)
    BY <1>0, <1>8, ExtendsSize DEF Extends, Sound
  <2>. QED
    BY <2>1
<1>10. PutsOffset(g, h, root)
  BY <1>9, PushOffsetPuts
<1>. HIDE DEF h
<1>11. Fine(h) /\ Size(h) \in Nat /\ Size(g) <= Size(h)
  BY <1>9, <1>10, GrownSize DEF PutsOffset
<1>13. c.buf = h.buf
  BY <1>1, <1>11 DEF FinishedBuilder, Fine
<1>14. Size(c) = Size(h)
  BY <1>13 DEF Size
<1>15. Size(c) < MaxBufferSize => Leads(Data(c.buf), Size(c), root)
  BY <1>10, <1>13, <1>14 DEF PutsOffset
<1>16. FinishesAt(b, c, root)
  BY <1>9, <1>11, <1>12, <1>14, <1>15 DEF FinishesAt
<1>. QED
  BY <1>16 DEF c



LEMMA EnvelopeFields ==
  /\ Envelope \in DOMAIN Schema /\ {1, 2, 3, 4} \subseteq DOMAIN Schema[Envelope]
  /\ \A i \in {1, 2} : Schema[Envelope][i].kind = "scalar" /\ Schema[Envelope][i].width = 4
  /\ Schema[Envelope][3].kind = "scalar" /\ Schema[Envelope][3].width = 1
  /\ Schema[Envelope][4].kind = "union"
  /\ \A i \in {1, 2, 3, 4} : IsVoffset(Voffset(i))
BY TablesAssumption, Fields

LEMMA EnvelopeAdds ==
  ASSUME NEW b, NEW v
  PROVE  /\ \A i \in {1, 2} : AddTo(b, Schema[Envelope][i], Voffset(i), v) = AddElement(b, Voffset(i), v, 4, 0)
         /\ AddTo(b, Schema[Envelope][3], Voffset(3), v) = AddElement(b, Voffset(3), v, 1, 0)
         /\ AddTo(b, Schema[Envelope][4], Voffset(4), v) = AddOffset(b, Voffset(4), v)
BY EnvelopeFields DEF AddTo

\* From b to c one of the fields has been added to those in is.
Laid(b, c, is) == Sound(c) /\ c.nested = TRUE /\ FieldsIn(c, Names(is)) /\ Near(b, c, 8)

LEMMA EnvelopeFieldLaid ==
  ASSUME NEW b, Sound(b), b.nested = TRUE, NEW is, is \subseteq {1, 2, 3, 4}, FieldsIn(b, Names(is)),
         NEW i \in {1, 2, 3, 4}, i \notin is, NEW v, Suits(b, Schema[Envelope][i], v)
  PROVE  Laid(b, AddTo(b, Schema[Envelope][i], Voffset(i), v), is \cup {i})
<1>. DEFINE f == Schema[Envelope][i]
            c == AddTo(b, f, Voffset(i), v)
            names == Names(is)
<1>1. Voffset(i) \notin names /\ Names(is \cup {i}) = names \cup {Voffset(i)}
  <2>1. is \subseteq Int /\ i \in Int
    OBVIOUS
  <2>. QED
    BY <2>1, Voffsets
<1>2. Envelope \in DOMAIN Schema /\ i \in DOMAIN Schema[Envelope] /\ IsVoffset(Voffset(i))
  BY EnvelopeFields
<1>3. Fits(b, f, v)
  BY DEF Suits, Fits, IsInt32
<1>4. AddsOne(b, c, names, Voffset(i))
  <2>1. FieldsIn(b, names)
    OBVIOUS
  <2>. HIDE DEF names
  <2>. QED
    BY <1>1, <1>2, <1>3, <2>1, AddOneField
<1>5. Near(b, c, 8)
  <2>1. CASE i \in {1, 2}
    <3>1. f.kind = "scalar" /\ v \in Int /\ c = AddElement(b, Voffset(i), v, 4, 0)
      BY <1>3, <2>1, EnvelopeFields, EnvelopeAdds DEF Fits
    <3>. HIDE DEF c
    <3>. QED
      BY <1>2, <3>1, ElementIsNear
  <2>2. CASE i = 3
    <3>1. f.kind = "scalar" /\ v \in Int /\ c = AddElement(b, Voffset(i), v, 1, 0)
      BY <1>3, <2>2, EnvelopeFields, EnvelopeAdds DEF Fits
    <3>. HIDE DEF c
    <3>. QED
      BY <1>2, <3>1, ElementIsNear
  <2>3. CASE i = 4
    <3>1. f.kind = "union" /\ v \in 1 .. Size(b) /\ c = AddOffset(b, Voffset(i), v)
      BY <1>3, <2>3, EnvelopeFields, EnvelopeAdds DEF Fits
    <3>. HIDE DEF c
    <3>. QED
      BY <1>2, <3>1, OffsetIsNear
  <2>. QED
    BY <2>1, <2>2, <2>3
<1>. HIDE DEF c, f
<1>6. Laid(b, c, is \cup {i})
  BY <1>1, <1>4, <1>5 DEF Laid, AddsOne, Adds
<1>. QED
  BY <1>6 DEF c, f

LEMMA EnvelopeFieldFilled ==
  ASSUME NEW b, Sound(b), NEW is, is \subseteq {1, 2, 3, 4}, FieldsIn(b, Names(is)),
         NEW i \in {1, 2, 3, 4}, i \notin is, NEW v, Suits(b, Schema[Envelope][i], v),
         NEW start, NEW value, Filled(b, Envelope, start, value),
         NEW c, c = AddTo(b, Schema[Envelope][i], Voffset(i), v), Size(c) < MaxBufferSize
  PROVE  Builds(b, c) /\ Filled(c, Envelope, start, [value EXCEPT ![i] = v])
<1>1. Voffset(i) \notin Names(is)
  <2>1. is \subseteq Int /\ i \in Int
    OBVIOUS
  <2>. QED
    BY <2>1, Voffsets
<1>2. Envelope \in DOMAIN Schema /\ i \in DOMAIN Schema[Envelope]
  BY EnvelopeFields
<1>. DEFINE names == Names(is)
<1>. HIDE DEF names
<1>3. FieldsIn(b, names) /\ Voffset(i) \notin names
  BY <1>1 DEF names
<1>. QED
  BY <1>2, <1>3, AddToFills

LEMMA EndsWithOn ==
  ASSUME NEW x \in Seq(Byte), NEW y, NEW z, EndsWith(y, x), EndsWith(z, y)
  PROVE  EndsWith(z, x)
<1>1. PICK s \in Seq(Byte) : y = s \o x
  BY DEF EndsWith
<1>2. PICK t \in Seq(Byte) : z = t \o y
  BY DEF EndsWith
<1>3. t \o s \in Seq(Byte)
  BY <1>1, <1>2, ConcatProperties
<1>4. t \o (s \o x) = (t \o s) \o x
  BY <1>1, <1>2, ConcatAssociative
<1>. QED
  BY <1>1, <1>2, <1>3, <1>4 DEF EndsWith

LEMMA BuildsOn ==
  ASSUME NEW a, NEW b, NEW c, Fine(a), Builds(a, b), Builds(b, c)
  PROVE  Builds(a, c)
<1>1. Data(a.buf) \in Seq(Byte)
  BY DEF Fine
<1>2. EndsWith(Data(c.buf), Data(a.buf))
  BY <1>1, EndsWithOn DEF Builds
<1>. QED
  BY <1>2 DEF Builds


\* From b to c an envelope with these fields has been put around a message,
\* and the buffer begins with where it is.
MadeOf(b, c, threadId, id, tag, message) ==
  /\ EndsWith(Data(c.buf), Data(b.buf))
  /\ \E root \in Nat : \E value :
       /\ Leads(Data(c.buf), Size(c), root) /\ TableIn(Data(c.buf), root, Envelope, value)
       /\ value[1] = threadId /\ value[2] = id /\ value[3] = tag /\ value[4] = message

LEMMA StartTableRet ==
  ASSUME NEW b, Sound(b), ~b.nested, b.num_field_loc = 0
  PROVE  StartTable(b).ret = Size(b) /\ Size(StartTable(b)) = Size(b)
<1>. DEFINE o == Opened(b)
<1>1. Fine(b)
  BY DEF Sound
<1>2. Fine(o) /\ o.buf = b.buf
  BY <1>1, OpenedFine
<1>3. StartTable(b) = Returning(o)
  <2>1. NotNested(b) = b
    BY <1>1, NotNestedHolds
  <2>. QED
    BY <2>1 DEF StartTable, Opened
<1>. HIDE DEF o
<1>4. Returning(o).ret = Size(o) /\ Size(Returning(o)) = Size(o)
  BY <1>2, ReturningGrows
<1>5. Size(o) = Size(b)
  BY <1>2 DEF Size
<1>. QED
  BY <1>3, <1>4, <1>5

LEMMA EnvelopePuts ==
  ASSUME NEW b, Sound(b), b.num_field_loc = 0, ~b.nested, b.max_voffset = 0,
         NEW kept, Keeps(b, kept), KeptIn(Data(b.buf), kept),
         NEW threadId, IsInt32(threadId), NEW id, IsInt32(id), NEW tag \in Byte,
         NEW message \in 1 .. Size(b),
         NEW c, c = FinishLast(CreateMessageEnvelope(b, threadId, id, tag, message)),
         Size(c) < MaxBufferSize
  PROVE  MadeOf(b, c, threadId, id, tag, message)
<1>. DEFINE s == StartTable(b)
            f4 == AddTo(s, Schema[Envelope][4], Voffset(4), message)
            f2 == AddTo(f4, Schema[Envelope][2], Voffset(2), id)
            f1 == AddTo(f2, Schema[Envelope][1], Voffset(1), threadId)
            f3 == AddTo(f1, Schema[Envelope][3], Voffset(3), tag)
            start == s.ret
            p == PushElement(f3, 0, 4)
            e == EndTable(f3, start)
            v0 == [i \in DOMAIN Schema[Envelope] |-> Default(Schema[Envelope][i])]
            v4 == [v0 EXCEPT ![4] = message]
            v2 == [v4 EXCEPT ![2] = id]
            v1 == [v2 EXCEPT ![1] = threadId]
            v3 == [v1 EXCEPT ![3] = tag]
<1>1. c = Finish(e, e.ret)
  <2>1. f4 = AddOffset(s, Voffset(4), message)
    BY EnvelopeAdds
  <2>2. f2 = AddElement(f4, Voffset(2), id, 4, 0)
    BY EnvelopeAdds
  <2>3. f1 = AddElement(f2, Voffset(1), threadId, 4, 0)
    BY EnvelopeAdds
  <2>4. f3 = AddElement(f1, Voffset(3), tag, 1, 0)
    BY EnvelopeAdds
  <2>. HIDE DEF s, f4, f2, f1, f3
  <2>5. FillEnvelope(s, threadId, id, tag, message) = EndTable(f3, s.ret)
    BY <2>1, <2>2, <2>3, <2>4 DEF FillEnvelope, AddIds
  <2>. QED
    BY <2>5 DEF FinishLast, CreateMessageEnvelope, s
<1>2. v3[1] = threadId /\ v3[2] = id /\ v3[3] = tag /\ v3[4] = message
  <2>1. /\ DOMAIN v0 = DOMAIN Schema[Envelope]
        /\ v4 = [v0 EXCEPT ![4] = message] /\ v2 = [v4 EXCEPT ![2] = id]
        /\ v1 = [v2 EXCEPT ![1] = threadId] /\ v3 = [v1 EXCEPT ![3] = tag]
    OBVIOUS
  <2>2. {1, 2, 3, 4} \subseteq DOMAIN v0
    BY <2>1, EnvelopeFields
  <2>. HIDE DEF v0, v4, v2, v1, v3
  <2>. QED
    BY <2>1, <2>2
<1>3. /\ Sound(s) /\ s.nested = TRUE /\ FieldsIn(s, Names({})) /\ s.buf = b.buf
  <2>1. Sound(s) /\ s.nested = TRUE /\ FieldsIn(s, {}) /\ s.buf = b.buf
    BY StartTableOpens
  <2>2. Names({}) = {}
    BY DEF Names
  <2>. HIDE DEF s
  <2>. QED
    BY <2>1, <2>2
<1>4. start = Size(b) /\ Size(s) = Size(b) /\ Size(b) \in Nat /\ Fine(b)
  BY StartTableRet, SizeFacts DEF Sound
<1>5. Builds(b, s) /\ Filled(s, Envelope, start, v0)
  BY EnvelopeFields, StartTableFills
<1>. HIDE DEF s, start, v0
<1>6. \A x : /\ Suits(x, Schema[Envelope][2], id) /\ Suits(x, Schema[Envelope][1], threadId)
             /\ Suits(x, Schema[Envelope][3], tag)
  <2>1. IsInt32(tag)
    BY DEF IsInt32, Byte, MaxBufferSize
  <2>2. /\ Schema[Envelope][1].kind = "scalar" /\ Schema[Envelope][1].width = 4
        /\ Schema[Envelope][2].kind = "scalar" /\ Schema[Envelope][2].width = 4
        /\ Schema[Envelope][3].kind = "scalar"
    BY EnvelopeFields
  <2>. QED
    BY <2>1, <2>2 DEF Suits
<1>7. Suits(s, Schema[Envelope][4], message)
  BY <1>4, EnvelopeFields DEF Suits
<1>8. Laid(s, f4, {4})
  <2>1. {} \cup {4} = {4} /\ {} \subseteq {1, 2, 3, 4} /\ 4 \in {1, 2, 3, 4} /\ 4 \notin {}
    OBVIOUS
  <2>2. Laid(s, f4, {} \cup {4})
    BY <1>3, <1>7, <2>1, EnvelopeFieldLaid
  <2>. QED
    BY <2>1, <2>2
<1>. HIDE DEF f4
<1>9. Laid(f4, f2, {4, 2})
  <2>1. {4} \cup {2} = {4, 2} /\ {4} \subseteq {1, 2, 3, 4} /\ 2 \in {1, 2, 3, 4} /\ 2 \notin {4}
    OBVIOUS
  <2>2. Laid(f4, f2, {4} \cup {2})
    BY <1>6, <1>8, <2>1, EnvelopeFieldLaid DEF Laid
  <2>. QED
    BY <2>1, <2>2
<1>. HIDE DEF f2
<1>10. Laid(f2, f1, {4, 2, 1})
  <2>1. /\ {4, 2} \cup {1} = {4, 2, 1} /\ {4, 2} \subseteq {1, 2, 3, 4} /\ 1 \in {1, 2, 3, 4}
        /\ 1 \notin {4, 2}
    OBVIOUS
  <2>2. Laid(f2, f1, {4, 2} \cup {1})
    BY <1>6, <1>9, <2>1, EnvelopeFieldLaid DEF Laid
  <2>. QED
    BY <2>1, <2>2
<1>. HIDE DEF f1
<1>11. Laid(f1, f3, {4, 2, 1, 3})
  <2>1. /\ {4, 2, 1} \cup {3} = {4, 2, 1, 3} /\ {4, 2, 1} \subseteq {1, 2, 3, 4}
        /\ 3 \in {1, 2, 3, 4} /\ 3 \notin {4, 2, 1}
    OBVIOUS
  <2>2. Laid(f1, f3, {4, 2, 1} \cup {3})
    BY <1>6, <1>10, <2>1, EnvelopeFieldLaid DEF Laid
  <2>. QED
    BY <2>1, <2>2
<1>. HIDE DEF f3
<1>12. Ends(f3, e)
  <2>1. start \in Int
    BY <1>4
  <2>. QED
    BY <1>11, <2>1, EndTableEnds DEF Laid
<1>. HIDE DEF e
<1>13. FinishesAt(e, c, e.ret) /\ e.ret \in Nat
  <2>1. Sound(e) /\ e.num_field_loc = 0 /\ ~e.nested /\ e.ret \in 1 .. Size(e)
    BY <1>12 DEF Ends
  <2>. QED
    BY <1>1, <2>1, FinishPuts
<1>14. /\ Size(e) < MaxBufferSize /\ Size(f3) < MaxBufferSize /\ Size(f1) < MaxBufferSize
       /\ Size(f2) < MaxBufferSize /\ Size(f4) < MaxBufferSize
  <2>1. Size(e) \in Nat /\ Size(c) \in Nat /\ Size(e) <= Size(c)
    BY <1>13 DEF FinishesAt
  <2>2. Size(f3) \in Nat /\ Size(e) \in Nat /\ Size(f3) <= Size(e)
    <3>1. Size(f3) \in Nat /\ Size(e) \in Nat /\ 1 .. Size(f3) \subseteq 1 .. Size(e)
      BY <1>11, <1>12, EndsSize DEF Laid
    <3>. QED
      BY <3>1
  <2>3. Near(f4, f2, 8) /\ Near(f2, f1, 8) /\ Near(f1, f3, 8)
    BY <1>9, <1>10, <1>11 DEF Laid
  <2>. QED
    BY <2>1, <2>2, <2>3 DEF Near, MaxBufferSize
<1>15. Builds(s, f4) /\ Filled(f4, Envelope, start, v4)
  <2>1. FieldsIn(s, Names({})) /\ {} \subseteq {1, 2, 3, 4} /\ 4 \notin {} /\ 4 \in {1, 2, 3, 4}
    BY <1>3
  <2>2. f4 = AddTo(s, Schema[Envelope][4], Voffset(4), message)
    BY DEF f4
  <2>. QED
    BY <1>3, <1>5, <1>7, <1>14, <2>1, <2>2, EnvelopeFieldFilled
<1>. HIDE DEF v4
<1>16. Builds(f4, f2) /\ Filled(f2, Envelope, start, v2)
  <2>1. FieldsIn(f4, Names({4})) /\ {4} \subseteq {1, 2, 3, 4} /\ 2 \notin {4} /\ 2 \in {1, 2, 3, 4}
    BY <1>8 DEF Laid
  <2>2. f2 = AddTo(f4, Schema[Envelope][2], Voffset(2), id) /\ Sound(f4)
    BY <1>8 DEF f2, Laid
  <2>. QED
    BY <1>6, <1>14, <1>15, <2>1, <2>2, EnvelopeFieldFilled
<1>. HIDE DEF v2
<1>17. Builds(f2, f1) /\ Filled(f1, Envelope, start, v1)
  <2>1. /\ FieldsIn(f2, Names({4, 2})) /\ {4, 2} \subseteq {1, 2, 3, 4} /\ 1 \notin {4, 2}
        /\ 1 \in {1, 2, 3, 4}
    BY <1>9 DEF Laid
  <2>2. f1 = AddTo(f2, Schema[Envelope][1], Voffset(1), threadId) /\ Sound(f2)
    BY <1>9 DEF f1, Laid
  <2>. QED
    BY <1>6, <1>14, <1>16, <2>1, <2>2, EnvelopeFieldFilled
<1>. HIDE DEF v1
<1>18. Builds(f1, f3) /\ Filled(f3, Envelope, start, v3)
  <2>1. /\ FieldsIn(f1, Names({4, 2, 1})) /\ {4, 2, 1} \subseteq {1, 2, 3, 4} /\ 3 \notin {4, 2, 1}
        /\ 3 \in {1, 2, 3, 4}
    BY <1>10 DEF Laid
  <2>2. f3 = AddTo(f1, Schema[Envelope][3], Voffset(3), tag) /\ Sound(f1)
    BY <1>10 DEF f3, Laid
  <2>. QED
    BY <1>6, <1>14, <1>17, <2>1, <2>2, EnvelopeFieldFilled
<1>. HIDE DEF v3
<1>19. Builds(b, f3)
  <2>1. Fine(s) /\ Fine(f4) /\ Fine(f2) /\ Fine(f1)
    BY <1>3, <1>8, <1>9, <1>10 DEF Laid, Sound
  <2>2. Builds(b, f4)
    BY <1>4, <1>5, <1>15, BuildsOn
  <2>3. Builds(b, f2)
    BY <1>4, <1>16, <2>2, BuildsOn
  <2>4. Builds(b, f1)
    BY <1>4, <1>17, <2>3, BuildsOn
  <2>. QED
    BY <1>4, <1>18, <2>4, BuildsOn
<1>20. IsVoffset(p.ret - start)
  <2>1. p.ret = Size(p) /\ Near(f3, p, 8)
    <3>1. Sound(f3) /\ Fine(f3) /\ 0 \in Int /\ 4 \in {1, 4} /\ 4 \in 1 .. 4 /\ IsVoffset(Voffset(3))
      BY <1>11, EnvelopeFields DEF Laid, Sound
    <3>2. p.ret = Size(p)
      BY <3>1, PushElementGrows
    <3>. QED
      BY <3>1, <3>2, ElementIsNear
  <2>2. Near(s, f4, 8) /\ Near(f4, f2, 8) /\ Near(f2, f1, 8) /\ Near(f1, f3, 8)
    BY <1>8, <1>9, <1>10, <1>11 DEF Laid
  <2>. HIDE DEF p
  <2>3. Size(p) \in Nat /\ Size(b) <= Size(p) /\ Size(p) <= Size(b) + 40
    BY <1>4, <2>1, <2>2 DEF Near
  <2>. QED
    BY <1>4, <2>1, <2>3 DEF IsVoffset
<1>21. TableEnds(f3, e, Envelope, v3, kept)
  <2>1. Keeps(f3, kept)
    BY <1>19 DEF Builds
  <2>2. Data(b.buf) \in Seq(Byte) /\ Data(f3.buf) \in Seq(Byte)
    BY <1>4, <1>11 DEF Laid, Sound, Fine
  <2>3. KeptIn(Data(f3.buf), kept)
    BY <1>19, <2>2, KeptStays DEF Builds
  <2>4. Size(EndTable(f3, start)) < MaxBufferSize
    BY <1>14 DEF e
  <2>5. Sound(f3) /\ f3.nested = TRUE /\ FieldsIn(f3, Names({4, 2, 1, 3})) /\ Envelope \in DOMAIN Schema
    BY <1>11, EnvelopeFields DEF Laid
  <2>6. IsVoffset(PushElement(f3, 0, 4).ret - start)
    BY <1>20
  <2>. DEFINE names == Names({4, 2, 1, 3})
  <2>7. FieldsIn(f3, names)
    BY <2>5
  <2>. HIDE DEF names
  <2>. QED
    BY <1>18, <2>1, <2>3, <2>4, <2>5, <2>6, <2>7, EndTablePuts DEF e
<1>22. /\ Data(b.buf) \in Seq(Byte) /\ Data(f3.buf) \in Seq(Byte) /\ Data(e.buf) \in Seq(Byte)
       /\ Data(c.buf) \in Seq(Byte)
  BY <1>4, <1>11, <1>12, <1>13 DEF Laid, Ends, FinishesAt, Finishes, Sound, Fine
<1>23. EndsWith(Data(c.buf), Data(e.buf))
  BY <1>13 DEF FinishesAt, Finishes, EndsWith
<1>24. EndsWith(Data(e.buf), Data(b.buf))
  <2>1. EndsWith(Data(e.buf), Data(f3.buf)) /\ EndsWith(Data(f3.buf), Data(b.buf))
    BY <1>19, <1>21 DEF TableEnds, Builds
  <2>. QED
    BY <1>22, <2>1, EndsWithOn
<1>25. EndsWith(Data(c.buf), Data(b.buf))
  BY <1>22, <1>23, <1>24, EndsWithOn
<1>26. TableIn(Data(c.buf), e.ret, Envelope, v3)
  <2>1. TableIn(Data(e.buf), e.ret, Envelope, v3)
    BY <1>21 DEF TableEnds
  <2>. QED
    BY <1>22, <1>23, <2>1, TableStays
<1>27. Leads(Data(c.buf), Size(c), e.ret)
  BY <1>13 DEF FinishesAt
<1>. QED
  BY <1>2, <1>13, <1>25, <1>26, <1>27 DEF MadeOf


\* The message that make_message makes of a builder.
LEMMA make_messageMakes ==
  ASSUME ReadInv, LimitsKept', NEW o \in objects, NEW e \in EffectIds, NEW t \in Ids, NEW n \in Ids,
         make_message(o, e, t, n)
  PROVE  MadeOf(bld, bld', t, n, TagOf(o.type), o.off) /\ bld'.finished = TRUE
<1>. DEFINE tag == TagOf(o.type)
            off == o.off
            f == FinishLast(CreateMessageEnvelope(bld, t, n, tag, off))
<1>1. Idle /\ bld' = GetBufferPointer(f) /\ BuildInv
  BY DEF make_message, ReadInv
<1>2. /\ Sound(bld) /\ ~bld.nested /\ bld.num_field_loc = 0 /\ bld.max_voffset = 0 /\ ~bld.finished
  BY <1>1, IdleReads
<1>3. off \in 1 .. Size(bld) /\ IsInt32(t) /\ IsInt32(n) /\ t \in Int /\ n \in Int
  BY <1>1, MessageAssumption DEF BuildInv, IsInt32
<1>4. tag \in Byte /\ tag \in Int
  <2>1. tag \in Byte
    BY TagOfType DEF make_message
  <2>. QED
    BY <2>1 DEF Byte
<1>. HIDE DEF tag, off
<1>5. Sound(f) /\ f.finished = TRUE
  BY <1>2, <1>3, <1>4, EnvelopeFinishes
<1>. HIDE DEF f
<1>6. bld' = f
  <2>1. Fine(f)
    BY <1>5 DEF Sound
  <2>. QED
    BY <1>1, <1>5, <2>1, AssertingHolds DEF GetBufferPointer
<1>7. Size(f) < MaxBufferSize
  BY <1>6 DEF LimitsKept, Size
<1>8. PICK s, pool : Holds(Data(bld.buf), objects, s, pool) /\ Remembers(bld, s, pool)
  BY DEF ReadInv
<1>9. Keeps(bld, s) /\ KeptIn(Data(bld.buf), s)
  BY <1>2, <1>8 DEF Holds, Remembers
<1>10. f = FinishLast(CreateMessageEnvelope(bld, t, n, tag, off))
  BY DEF f
<1>11. MadeOf(bld, f, t, n, tag, off)
  BY <1>2, <1>3, <1>4, <1>7, <1>9, <1>10, EnvelopePuts
<1>. QED
  BY <1>5, <1>6, <1>11 DEF tag, off

LEMMA make_messageReads ==
  ASSUME ReadInv, BuildInv', LimitsKept', NEW o \in objects, NEW e \in EffectIds,
         NEW t \in Ids, NEW n \in Ids, make_message(o, e, t, n)
  PROVE  ReadInv'
<1>1. EndsWith(Data(bld'.buf), Data(bld.buf)) /\ bld'.finished = TRUE
  BY make_messageMakes DEF MadeOf
<1>2. UNCHANGED <<objects, open>> /\ Idle
  BY DEF make_message
<1>3. Data(bld.buf) \in Seq(Byte) /\ Data(bld'.buf) \in Seq(Byte)
  BY DEF ReadInv, BuildInv, Sound, Fine
<1>4. PICK s, pool : Holds(Data(bld.buf), objects, s, pool)
  BY DEF ReadInv
<1>5. Holds(Data(bld'.buf), objects, s, pool)
  BY <1>1, <1>3, <1>4, HoldsStays
<1>6. Remembers(bld', s, pool)
  BY <1>1 DEF Remembers
<1>. QED
  BY <1>1, <1>2, <1>5, <1>6 DEF ReadInv, Idle

----------------------------------------------------------------------------
(* Beginning anew.                                                         *)

LEMMA NoOffsets == Offsets(<<>>) = {} /\ Len(<<>>) % 4 = 0 /\ <<>> \in Seq(Byte)
<1>1. Len(<<>>) = 0 /\ <<>> \in Seq(Byte)
  OBVIOUS
<1>2. VtableOffsets(<<>>) = [k \in {} |-> ReadScalar(<<>>, (k - 1) * KeptOffsetSize, 4)]
  <2>1. 1 .. 0 \div 4 = {}
    OBVIOUS
  <2>. QED
    BY <1>1, <2>1 DEF VtableOffsets, KeptOffsetSize
<1>3. DOMAIN VtableOffsets(<<>>) = {}
  BY <1>2
<1>. QED
  BY <1>1, <1>3 DEF Offsets, Range

LEMMA FreshReads ==
  ASSUME NEW b, Fresh(b)
  PROVE  Holds(Data(b.buf), {}, <<>>, {}) /\ Remembers(b, <<>>, {}) /\ b.max_voffset = 0
<1>. DEFINE mem == Data(b.buf)
<1>1. KeptIn(mem, <<>>)
  BY NoOffsets DEF KeptIn, VtablesIn
<1>2. PoolIn(mem, {})
  BY DEF PoolIn
<1>3. Holds(mem, {}, <<>>, {})
  BY <1>1, <1>2 DEF Holds
<1>4. Keeps(b, <<>>)
  <2>1. Len(<<>>) = 0 /\ Len(Scratch(b.buf)) - b.num_field_loc * FieldLocSize = 0
    BY DEF Fresh, FieldLocSize
  <2>. QED
    BY <2>1, NoOffsets DEF Keeps
<1>5. Remembers(b, <<>>, {})
  BY <1>4 DEF Remembers, Fresh
<1>. QED
  BY <1>3, <1>5 DEF Fresh

LEMMA ClearReads ==
  ASSUME ReadInv, BuildInv', ClearForReuse \/ ResetForReuse
  PROVE  ReadInv'
<1>1. Fresh(ClearBuilder(bld)) /\ Fresh(ResetBuilder(bld))
  BY ClearBuilderFresh DEF ReadInv, BuildInv
<1>2. /\ bld' = ClearBuilder(bld) \/ bld' = ResetBuilder(bld)
      /\ objects' = {} /\ open' = NoTable
  BY DEF ClearForReuse, ResetForReuse
<1>3. Fresh(bld')
  BY <1>1, <1>2
<1>4. /\ Holds(Data(bld'.buf), {}, <<>>, {}) /\ Remembers(bld', <<>>, {})
      /\ bld'.max_voffset = 0
  BY <1>3, FreshReads
<1>. QED
  BY <1>2, <1>4 DEF ReadInv, NoTable

LEMMA InitReads == Init => ReadInv
<1>. HAVE Init
<1>1. Fresh(bld) /\ objects = {} /\ open = NoTable
  BY NewBuilderFresh DEF Init
<1>2. /\ Holds(Data(bld.buf), {}, <<>>, {}) /\ Remembers(bld, <<>>, {})
      /\ bld.max_voffset = 0
  BY <1>1, FreshReads
<1>. QED
  BY <1>1, <1>2, InitBuild DEF ReadInv, NoTable

LEMMA NextReads == ReadInv /\ LimitsKept /\ LimitsKept' /\ [Next]_vars => ReadInv'
<1>. SUFFICES ASSUME ReadInv, LimitsKept, LimitsKept', [Next]_vars PROVE ReadInv'
  OBVIOUS
<1>0. BuildInv'
  BY NextBuild DEF ReadInv
<1>1. CASE UNCHANGED vars
  BY <1>0, <1>1 DEF vars, ReadInv
<1>2. CASE \E str \in Texts : CreateText(str)
  BY <1>0, <1>2, CreateTextReads
<1>3. CASE \E type \in DOMAIN Vectors : \E elements \in Vectors[type] :
             CreateScalars(type, elements)
  BY <1>0, <1>3, CreateScalarsReads
<1>4. CASE \E T \in Types : CreateTables(T) \/ Begin(T)
  BY <1>0, <1>4, CreateTablesReads, BeginReads
<1>5. CASE AddField
  BY <1>0, <1>5, AddFieldReads
<1>6. CASE End
  BY <1>0, <1>6, EndReads
<1>7. CASE \E o \in objects, e \in EffectIds, t, n \in Ids : make_message(o, e, t, n)
  BY <1>0, <1>7, make_messageReads
<1>8. CASE ClearForReuse \/ ResetForReuse
  BY <1>0, <1>8, ClearReads
<1>. QED
  BY <1>1, <1>2, <1>3, <1>4, <1>5, <1>6, <1>7, <1>8 DEF Next

\* The invariant holds as long as the builder's limits are kept.
THEOREM ReadInvHolds == Spec /\ []LimitsKept => []ReadInv
BY InitReads, NextReads, PTL DEF Spec

\* Whatever has been built is read back as it was built, in every state, for
\* any schemas, texts, vectors, structs and numbers, as long as the builder's
\* limits are kept.
THEOREM ReadBackHolds == Spec /\ []LimitsKept => []ReadBack
<1>1. ReadInv => ReadBack
  <2>. HAVE ReadInv
  <2>. DEFINE mem == Data(bld.buf)
  <2>1. mem \in Seq(Byte)
    BY DEF ReadInv, BuildInv, Sound, Fine
  <2>2. \A o \in objects : ObjectIn(mem, o)
    BY DEF ReadInv, Holds, Stored
  <2>. HIDE DEF mem
  <2>3. \A o \in objects : ReadObject(mem, o) = o.value
    BY <2>1, <2>2, ObjectIsRead
  <2>. QED
    BY <2>3 DEF ReadBack, mem
<1>. QED
  BY <1>1, ReadInvHolds, PTL


\* The vtable that a table has is one of those kept.
LEMMA VtableIsKept ==
  ASSUME NEW mem \in Seq(Byte), NEW off, NEW s, KeptIn(mem, s), PointsInto(mem, off, Offsets(s))
  PROVE  \E vt \in Offsets(s) : \E slots \in Seq(Byte) :
           /\ VtableIn(mem, vt, slots) /\ GetVTable(mem, Position(mem, off)) = Position(mem, vt)
           /\ VtableAt(mem, Position(mem, vt)) = slots
<1>1. PICK vt \in Offsets(s) : IsInt32(vt - off) /\ Block(mem, off, Bytes(vt - off, 4))
  BY DEF PointsInto
<1>2. vt \in Int
  BY VtableOffsetsFacts DEF KeptIn, Offsets
<1>3. PICK slots \in Seq(Byte) : VtableIn(mem, vt, slots)
  BY DEF KeptIn, VtablesIn
<1>4. VtableAt(mem, Position(mem, vt)) = slots
  BY <1>3, VtableAtIs
<1>. DEFINE d == vt - off
<1>5. IsInt32(d) /\ Block(mem, off, Bytes(d, 4))
  BY <1>1
<1>6. off \in Nat /\ Len(mem) \in Nat /\ ReadScalar(mem, Position(mem, off), 4) = d
  <2>. HIDE DEF d
  <2>. QED
    BY <1>5, BlockOfFour
<1>7. GetVTable(mem, Position(mem, off)) = Position(mem, vt)
  BY <1>2, <1>6 DEF GetVTable, Position
<1>. QED
  BY <1>3, <1>4, <1>7

LEMMA SharedAreOne ==
  ASSUME DedupVtables, ReadInv
  PROVE  SharedOnce
<1>. DEFINE mem == Data(bld.buf)
            vtable(o) == GetVTable(mem, Position(mem, o.off))
            layout(o) == SubSeq(mem, vtable(o) + 1, vtable(o) + ReadScalar(mem, vtable(o), 2))
<1>1. mem \in Seq(Byte)
  BY DEF ReadInv, BuildInv, Sound, Fine
<1>2. PICK s, pool : Holds(mem, objects, s, pool)
  BY DEF ReadInv
<1>3. \A o : layout(o) = VtableAt(mem, vtable(o))
  BY DEF VtableAt
<1>. HIDE DEF mem
<1>4. KeptIn(mem, s) /\ PoolIn(mem, pool) /\ \A o \in objects : Stored(mem, o, Offsets(s), pool)
  BY <1>2 DEF Holds
<1>5. ASSUME NEW o \in objects, NEW p \in objects, o.kind = "table", p.kind = "table",
             VtableAt(mem, vtable(o)) = VtableAt(mem, vtable(p))
      PROVE  vtable(o) = vtable(p)
  <2>1. PointsInto(mem, o.off, Offsets(s)) /\ PointsInto(mem, p.off, Offsets(s))
    BY <1>4, <1>5 DEF Stored
  <2>. DEFINE q == o.off
              r == p.off
  <2>2. PointsInto(mem, q, Offsets(s)) /\ PointsInto(mem, r, Offsets(s))
    BY <2>1
  <2>. HIDE DEF q, r
  <2>3. PICK vt \in Offsets(s) : \E slots \in Seq(Byte) :
           /\ VtableIn(mem, vt, slots) /\ GetVTable(mem, Position(mem, q)) = Position(mem, vt)
           /\ VtableAt(mem, Position(mem, vt)) = slots
    BY <1>1, <1>4, <2>2, VtableIsKept
  <2>4. PICK wt \in Offsets(s) : \E slots \in Seq(Byte) :
           /\ VtableIn(mem, wt, slots) /\ GetVTable(mem, Position(mem, r)) = Position(mem, wt)
           /\ VtableAt(mem, Position(mem, wt)) = slots
    BY <1>1, <1>4, <2>2, VtableIsKept
  <2>5. vtable(o) = Position(mem, vt) /\ vtable(p) = Position(mem, wt)
    BY <2>3, <2>4 DEF q, r
  <2>6. VtableAt(mem, Position(mem, vt)) = VtableAt(mem, Position(mem, wt))
    BY <1>5, <2>5
  <2>7. \E slots \in Seq(Byte) : VtableIn(mem, vt, slots) /\ VtableIn(mem, wt, slots)
    BY <2>3, <2>4, <2>6
  <2>8. vt = wt
    BY <1>4, <2>7 DEF KeptIn, VtablesIn
  <2>. QED
    BY <2>5, <2>8
<1>6. ASSUME NEW o \in objects, NEW p \in objects, o.kind = "string", p.kind = "string",
             o.type = "shared", p.type = "shared", o.value = p.value
      PROVE  o.off = p.off
  <2>1. o.off \in pool /\ p.off \in pool
    BY <1>4, <1>6 DEF Stored
  <2>2. o.value \in Seq(Byte) /\ TextIn(mem, o.off, o.value)
    BY <1>4, <1>6 DEF Stored, ObjectIn
  <2>3. TextIn(mem, p.off, p.value)
    BY <1>4, <1>6 DEF Stored, ObjectIn
  <2>. QED
    BY <1>4, <1>6, <2>1, <2>2, <2>3 DEF PoolIn
<1>7. \A o, p \in objects :
        /\ o.kind = "table" /\ p.kind = "table" /\ layout(o) = layout(p)
             => vtable(o) = vtable(p)
        /\ o.kind = "string" /\ p.kind = "string" /\ o.type = "shared" /\ p.type = "shared"
             /\ o.value = p.value => o.off = p.off
  <2>. HIDE DEF vtable, layout
  <2>. QED
    BY <1>3, <1>5, <1>6
<1>. QED
  BY <1>7 DEF SharedOnce, mem

\* Unless the builder was told not to, equal vtables and equal shared strings
\* are in the buffer once, wherever they came from and whatever was built, or
\* taken back, between them.
THEOREM SharedOnceHolds ==
  ASSUME DedupVtables
  PROVE  Spec /\ []LimitsKept => []SharedOnce
<1>1. ReadInv => SharedOnce
  BY SharedAreOne
<1>. QED
  BY <1>1, ReadInvHolds, PTL


----------------------------------------------------------------------------
(* Receiving.                                                              *)

\* The buffer begins with where an envelope is, with the fields of a message.
Shows(mem, m) ==
  \E root \in Nat : \E value :
    /\ Leads(mem, Len(mem), root) /\ TableIn(mem, root, Envelope, value)
    /\ value[1] = m.threadId /\ value[2] = m.id
    /\ value[3] = TagOf(m.message.type) /\ value[4] = m.message.off

\* The message that was made is the effect id and the buffer, which is finished.
SentInv ==
  sent.made =>
    /\ bld.finished /\ sent.message.type \in Range(UnionTypes[Message])
    /\ sent.message \in objects /\ sent.message.kind = "table"
    /\ IsInt32(sent.effectId) /\ sent.msg = CopyBuffer(bld, sent.effectId)
    /\ Shows(Data(bld.buf), sent)

LEMMA make_messageSends ==
  ASSUME ReadInv, BuildInv', LimitsKept', NEW o \in objects, NEW e \in EffectIds,
         NEW t \in Ids, NEW n \in Ids, make_message(o, e, t, n)
  PROVE  SentInv'
<1>1. MadeOf(bld, bld', t, n, TagOf(o.type), o.off) /\ bld'.finished = TRUE
  BY make_messageMakes
<1>2. /\ o.type \in Range(UnionTypes[Message]) /\ o.kind = "table" /\ objects' = objects
      /\ sent' = [made |-> TRUE, msg |-> CopyBuffer(bld', e), effectId |-> e,
                  threadId |-> t, id |-> n, message |-> o]
  BY DEF make_message
<1>3. IsInt32(e)
  BY MessageAssumption
<1>4. Len(Data(bld'.buf)) = Size(bld')
  BY SizeFacts DEF BuildInv, Sound
<1>5. Shows(Data(bld'.buf), sent')
  <2>. DEFINE m == sent'
              tag == TagOf(o.type)
              mem == Data(bld'.buf)
  <2>1. m.threadId = t /\ m.id = n /\ TagOf(m.message.type) = tag /\ m.message.off = o.off
    BY <1>2
  <2>2. \E root \in Nat : \E value :
          /\ Leads(mem, Len(mem), root) /\ TableIn(mem, root, Envelope, value)
          /\ value[1] = t /\ value[2] = n /\ value[3] = tag /\ value[4] = o.off
    <3>. HIDE DEF tag
    <3>1. MadeOf(bld, bld', t, n, tag, o.off)
      BY <1>1 DEF tag
    <3>. QED
      BY <1>4, <3>1 DEF MadeOf
  <2>. HIDE DEF m, tag, mem
  <2>3. Shows(mem, m)
    BY <2>1, <2>2 DEF Shows
  <2>. QED
    BY <2>3 DEF m, mem
<1>. QED
  BY <1>1, <1>2, <1>3, <1>5 DEF SentInv

\* While a message is there nothing is built; it goes with the buffer.
LEMMA NextSends == ReadInv /\ SentInv /\ LimitsKept /\ LimitsKept' /\ [Next]_vars => SentInv'
<1>. SUFFICES ASSUME ReadInv, SentInv, LimitsKept, LimitsKept', [Next]_vars PROVE SentInv'
  OBVIOUS
<1>0. BuildInv' /\ (open.started => ~bld.finished)
  BY NextBuild DEF ReadInv, BuildInv, NoTable
<1>1. CASE UNCHANGED vars
  BY <1>1 DEF vars, SentInv
<1>2. CASE Idle /\ sent' = sent
  BY <1>2 DEF SentInv, Idle
<1>3. CASE open.started /\ sent' = sent
  BY <1>0, <1>3 DEF SentInv
<1>4. CASE \E o \in objects, e \in EffectIds, t, n \in Ids : make_message(o, e, t, n)
  BY <1>0, <1>4, make_messageSends
<1>5. CASE ClearForReuse \/ ResetForReuse
  BY <1>5 DEF ClearForReuse, ResetForReuse, SentInv, Nothing
<1>6. ASSUME NEW str \in Texts, CreateText(str)
      PROVE  Idle /\ sent' = sent
  BY <1>6 DEF CreateText, Record
<1>7. ASSUME NEW type \in DOMAIN Vectors, NEW elements \in Vectors[type],
             CreateScalars(type, elements)
      PROVE  Idle /\ sent' = sent
  BY <1>7 DEF CreateScalars, Record
<1>8. ASSUME NEW T \in Types, CreateTables(T) \/ Begin(T)
      PROVE  Idle /\ sent' = sent
  BY <1>8 DEF CreateTables, Begin, Record
<1>9. ASSUME AddField
      PROVE  open.started /\ sent' = sent
  BY <1>9 DEF AddField, Add
<1>10. ASSUME End
       PROVE  open.started /\ sent' = sent
  BY <1>10 DEF End, Record
<1>. QED
  BY <1>1, <1>2, <1>3, <1>4, <1>5, <1>6, <1>7, <1>8, <1>9, <1>10 DEF Next

\* What make_message has sent shows the message it was given, until the next
\* one is built.
THEOREM SentInvHolds == Spec /\ []LimitsKept => []SentInv
<1>1. Init => SentInv
  BY DEF Init, SentInv, Nothing
<1>. QED
  BY <1>1, NextSends, ReadInvHolds, PTL DEF Spec

\* The bytes that are received.
LEMMA ReceivedBytes ==
  ASSUME NEW mem \in Seq(Byte), NEW v, IsInt32(v), NEW msg, msg = Bytes(v, 4) \o mem
  PROVE  MessageEnvelope(msg) = mem /\ effect_id(msg) = v
<1>. DEFINE s == Bytes(v, 4)
<1>1. s \in Seq(Byte) /\ Len(s) = 4
  BY BytesFacts DEF IsInt32
<1>. HIDE DEF s
<1>2. msg = s \o mem
  BY DEF s
<1>3. SubSeq(msg, Len(s) + 1, Len(msg)) = mem
  BY <1>1, <1>2, DropFront
<1>4. MessageEnvelope(msg) = mem
  BY <1>1, <1>3 DEF MessageEnvelope
<1>5. \A k \in 1 .. 4 : msg[0 + k] = s[k]
  <2>. DEFINE u == s \o mem
  <2>0. s \in Seq(Byte) /\ mem \in Seq(Byte)
    BY <1>1
  <2>1. \A k \in 1 .. Len(s) : (s \o mem)[k] = s[k] /\ s[k] \in Byte
    BY ONLY <2>0, Joined
  <2>2. msg = u
    BY <1>2
  <2>5. \A k \in 1 .. Len(s) : u[k] = s[k]
    BY <2>1
  <2>. HIDE DEF u
  <2>3. \A k \in 1 .. 4 : u[k] = s[k]
    BY <1>1, <2>5
  <2>. TAKE k \in 1 .. 4
  <2>4. 0 + k = k
    OBVIOUS
  <2>. QED
    BY <2>2, <2>3, <2>4
<1>6. ReadScalar(msg, 0, 4) = v
  <2>1. \A k \in 1 .. 4 : msg[0 + k] = Bytes(v, 4)[k]
    BY <1>5 DEF s
  <2>. QED
    BY <2>1, ReadsFourBytes
<1>. QED
  BY <1>4, <1>6 DEF effect_id

\* The envelope's fields.
LEMMA EnvelopeIsRead ==
  ASSUME NEW mem \in Seq(Byte), NEW m, Shows(mem, m), NEW msg, MessageEnvelope(msg) = mem
  PROVE  /\ EnvelopeField(msg, 1) = m.threadId /\ EnvelopeField(msg, 2) = m.id
         /\ EnvelopeField(msg, 3) = TagOf(m.message.type)
         /\ EnvelopeField(msg, 4) = m.message.off
<1>1. PICK root \in Nat : \E value :
        /\ Leads(mem, Len(mem), root) /\ TableIn(mem, root, Envelope, value)
        /\ value[1] = m.threadId /\ value[2] = m.id
        /\ value[3] = TagOf(m.message.type) /\ value[4] = m.message.off
  BY DEF Shows
<1>2. PICK value :
        /\ Leads(mem, Len(mem), root) /\ TableIn(mem, root, Envelope, value)
        /\ value[1] = m.threadId /\ value[2] = m.id
        /\ value[3] = TagOf(m.message.type) /\ value[4] = m.message.off
  BY <1>1
<1>3. GetRoot(mem) = Position(mem, root)
  <2>. DEFINE at == Len(mem)
  <2>1. Leads(mem, at, root) /\ root \in Int
    BY <1>2
  <2>. HIDE DEF at
  <2>2. FromEnd(mem, Indirect(mem, Position(mem, at))) = root /\ Len(mem) \in Nat
    BY <2>1, LeadsThere
  <2>3. Position(mem, at) = 0
    BY <2>2 DEF Position, at
  <2>4. Len(mem) - GetRoot(mem) = root
    BY <2>2, <2>3 DEF GetRoot, FromEnd
  <2>5. GetRoot(mem) \in Int
    <3>1. ReadScalar(mem, Position(mem, at), 4) = at - root
      BY <2>1, BlockOfFour DEF Leads
    <3>. QED
      BY <2>1, <2>2, <2>3, <3>1 DEF GetRoot, Indirect, at
  <2>. QED
    BY <2>2, <2>4, <2>5 DEF Position
<1>4. [i \in DOMAIN Schema[Envelope] |-> ReadField(mem, Position(mem, root), Schema[Envelope][i], i)]
        = value
  BY <1>2, EnvelopeFields, TableIsRead
<1>5. \A i \in {1, 2, 3, 4} : EnvelopeField(msg, i) = value[i]
  <2>. DEFINE field(i) == ReadField(mem, Position(mem, root), Schema[Envelope][i], i)
  <2>1. \A i : EnvelopeField(msg, i) = field(i)
    BY <1>3 DEF EnvelopeField
  <2>2. [i \in DOMAIN Schema[Envelope] |-> field(i)] = value
    BY <1>4
  <2>3. {1, 2, 3, 4} \subseteq DOMAIN Schema[Envelope]
    BY EnvelopeFields
  <2>. HIDE DEF field
  <2>. QED
    BY <2>1, <2>2, <2>3
<1>. QED
  BY <1>2, <1>5

\* What is asked for by its type.
LEMMA MessageIsRead ==
  ASSUME NEW msg, NEW o, o.type \in Range(UnionTypes[Message]),
         message_type(msg) = TagOf(o.type), EnvelopeField(msg, 4) = o.off,
         NEW T
  PROVE  message_as(msg, T) = IF T = o.type THEN [off |-> o.off, type |-> T] ELSE Mismatch
<1>1. TagOf(o.type) \in DOMAIN UnionTypes[Message] /\ UnionTypes[Message][TagOf(o.type)] = o.type
  BY TagOfType
<1>2. (\E tag \in DOMAIN UnionTypes[Message] :
         message_type(msg) = tag /\ UnionTypes[Message][tag] = T) <=> T = o.type
  BY <1>1
<1>. QED
  BY <1>2 DEF message_as

LEMMA ReceivesAll ==
  ASSUME ReadInv, SentInv
  PROVE  MessageIntact
<1>. SUFFICES ASSUME sent.made = TRUE
              PROVE  /\ effect_id(sent.msg) = sent.effectId
                     /\ message_thread_id(sent.msg) = sent.threadId
                     /\ message_id(sent.msg) = sent.id
                     /\ \A T \in Range(UnionTypes[Message]) :
                          message_as(sent.msg, T) =
                            IF T = sent.message.type THEN [off |-> sent.message.off, type |-> T]
                            ELSE Mismatch
                     /\ \A o \in objects : ReadObject(MessageEnvelope(sent.msg), o) = o.value
  BY DEF MessageIntact
<1>. DEFINE mem == Data(bld.buf)
            msg == sent.msg
            v == sent.effectId
            m == sent
            o == sent.message
<1>1. /\ o.type \in Range(UnionTypes[Message]) /\ IsInt32(v) /\ msg = Bytes(v, 4) \o mem
      /\ Shows(mem, m)
  BY DEF SentInv, CopyBuffer
<1>2. mem \in Seq(Byte)
  BY DEF ReadInv, BuildInv, Sound, Fine
<1>3. \A p \in objects : ObjectIn(mem, p)
  BY DEF ReadInv, Holds, Stored
<1>4. m.threadId = sent.threadId /\ m.id = sent.id /\ m.message = o
  OBVIOUS
<1>. HIDE DEF mem, msg, v, m, o
<1>5. MessageEnvelope(msg) = mem /\ effect_id(msg) = v
  BY <1>1, <1>2, ReceivedBytes
<1>6. /\ EnvelopeField(msg, 1) = m.threadId /\ EnvelopeField(msg, 2) = m.id
      /\ EnvelopeField(msg, 3) = TagOf(m.message.type) /\ EnvelopeField(msg, 4) = m.message.off
  BY <1>1, <1>2, <1>5, EnvelopeIsRead
<1>7. /\ message_thread_id(msg) = m.threadId /\ message_id(msg) = m.id
      /\ message_type(msg) = TagOf(o.type)
  BY <1>4, <1>6 DEF message_thread_id, message_id, message_type
<1>8. \A T : message_as(msg, T) = IF T = o.type THEN [off |-> o.off, type |-> T] ELSE Mismatch
  BY <1>1, <1>4, <1>6, <1>7, MessageIsRead
<1>9. \A p \in objects : ReadObject(mem, p) = p.value
  BY <1>2, <1>3, ObjectIsRead
<1>. QED
  BY <1>4, <1>5, <1>7, <1>8, <1>9 DEF msg, v, o

\* Who receives a message reads what make_message was given: whose it is, by
\* which thread, which message of what type, and every object in it.
THEOREM MessageIntactHolds == Spec /\ []LimitsKept => []MessageIntact
BY ReceivesAll, ReadInvHolds, SentInvHolds, PTL

----------------------------------------------------------------------------
(* What is referred to is there.                                           *)

\* What the fields of a table refer to, other than those that are unions, is
\* among these objects; and what its unions are, of the type that they say.
PlainRefs(objs, T, value) ==
  \A i \in DOMAIN Schema[T] :
    Schema[T][i].kind \in {"string", "scalars", "tables"} /\ value[i] # 0 =>
      \E o \in objs : o.off = value[i] /\ Refers(Schema[T][i], o)

IsUnion(objs, f, tag, off) ==
  /\ tag \in DOMAIN UnionTypes[f.of]
  /\ \E o \in objs : o.off = off /\ o.kind = "table" /\ o.type = UnionTypes[f.of][tag]

UnionRefs(objs, T, value) ==
  \A i \in DOMAIN Schema[T] :
    Schema[T][i].kind = "union" /\ value[i] # 0 =>
      IsUnion(objs, Schema[T][i], value[i - 1], value[i])

ElementRefs(objs, T, offs) ==
  \A k \in 1 .. Len(offs) : \E o \in objs : o.off = offs[k] /\ o.kind = "table" /\ o.type = T

Referred(objs, o) ==
  /\ o.kind = "table" => PlainRefs(objs, o.type, o.value) /\ UnionRefs(objs, o.type, o.value)
  /\ o.kind = "tables" => ElementRefs(objs, o.type, o.value)

\* Whatever an object that was built refers to was built too, and is what the
\* schema wants there; so it is in the table that is being built, but for its
\* unions, which agree with their types only when it is completed.
RefInv ==
  /\ \A o \in objects : Referred(objects, o)
  /\ open.started => PlainRefs(objects, open.type, open.value)

LEMMA RefsStay ==
  ASSUME NEW objs, NEW more, objs \subseteq more
  PROVE  /\ \A T, value : PlainRefs(objs, T, value) => PlainRefs(more, T, value)
         /\ \A o : Referred(objs, o) => Referred(more, o)
<1>1. \A T, value : PlainRefs(objs, T, value) => PlainRefs(more, T, value)
  BY DEF PlainRefs
<1>2. \A T, value : UnionRefs(objs, T, value) => UnionRefs(more, T, value)
  BY DEF UnionRefs, IsUnion
<1>3. \A T, offs : ElementRefs(objs, T, offs) => ElementRefs(more, T, offs)
  BY DEF ElementRefs
<1>. QED
  BY <1>1, <1>2, <1>3 DEF Referred

LEMMA RecordRefers ==
  ASSUME RefInv, NEW b, NEW kind, NEW type, NEW value, Record(b, kind, type, value),
         NEW o, o = [off |-> b.ret, kind |-> kind, type |-> type, value |-> value],
         Referred(objects, o), open' = open \/ open' = NoTable
  PROVE  RefInv'
<1>1. objects' = objects \cup {o}
  BY DEF Record
<1>2. \A p \in objects : Referred(objects, p)
  BY DEF RefInv
<1>3. \A p \in objects \cup {o} : Referred(objects \cup {o}, p)
  BY <1>2, RefsStay
<1>4. open'.started => open' = open
  BY DEF NoTable
<1>5. open'.started => PlainRefs(objects \cup {o}, open'.type, open'.value)
  BY <1>4, RefsStay DEF RefInv
<1>. QED
  BY <1>1, <1>3, <1>5 DEF RefInv

LEMMA CreateTablesRefers ==
  ASSUME RefInv, NEW T \in Types, CreateTables(T)
  PROVE  RefInv'
<1>1. PICK n \in 0 .. MaxTables :
        \E offs \in [1 .. n -> OffsetsOf(T)] :
          Record(CreateVectorOfOffsets(bld, offs), "tables", T, offs)
  BY DEF CreateTables
<1>2. PICK offs \in [1 .. n -> OffsetsOf(T)] :
        Record(CreateVectorOfOffsets(bld, offs), "tables", T, offs)
  BY <1>1
<1>. DEFINE b == CreateVectorOfOffsets(bld, offs)
            o == [off |-> b.ret, kind |-> "tables", type |-> T, value |-> offs]
<1>3. Record(b, "tables", T, offs)
  BY <1>2
<1>. HIDE DEF b
<1>4. o.kind = "tables" /\ o.type = T /\ o.value = offs
  OBVIOUS
<1>5. Len(offs) = n
  <2>1. n \in Nat
    BY MessageAssumption
  <2>. QED
    BY <2>1, TuplesAreSeqs
<1>6. ElementRefs(objects, T, offs)
  BY <1>5 DEF ElementRefs, OffsetsOf
<1>7. Referred(objects, o)
  <2>. HIDE DEF o
  <2>. QED
    BY <1>4, <1>6 DEF Referred
<1>8. open' = open
  BY DEF CreateTables
<1>. QED
  BY <1>3, <1>7, <1>8, RecordRefers

LEMMA BeginRefers ==
  ASSUME RefInv, NEW T \in Types, Begin(T)
  PROVE  RefInv'
<1>. DEFINE value == [i \in DOMAIN Schema[T] |-> Default(Schema[T][i])]
<1>1. objects' = objects /\ open'.type = T /\ open'.value = value
  BY DEF Begin
<1>2. PlainRefs(objects, T, value)
  BY DEF PlainRefs, Default
<1>. HIDE DEF value
<1>. QED
  BY <1>1, <1>2 DEF RefInv

LEMMA AddFieldRefers ==
  ASSUME ReadInv, RefInv, AddField
  PROVE  RefInv'
<1>. DEFINE T == open.type
            values == open.value
<1>1. PICK i \in DOMAIN Schema[T] \ open.added :
        \E value \in FieldValues(Schema[T][i]) : Add(i, value)
  BY DEF AddField
<1>2. PICK value \in FieldValues(Schema[T][i]) : Add(i, value)
  BY <1>1
<1>. DEFINE f == Schema[T][i]
            w == [values EXCEPT ![i] = value]
<1>3. Opens(open) /\ open.started
  BY DEF ReadInv, BuildInv, AddField, NoTable
<1>4. objects' = objects /\ open'.type = T /\ open'.value = w
  BY <1>2, <1>3 DEF Add, Opens
<1>5. DOMAIN values = DOMAIN Schema[T] /\ PlainRefs(objects, T, values)
  BY <1>3 DEF ReadInv, RefInv, Filled
<1>6. i \in DOMAIN Schema[T]
  OBVIOUS
<1>7. value \in FieldValues(f)
  BY <1>2
<1>8. f.kind \in {"string", "scalars", "tables"} => \E o \in objects : o.off = value /\ Refers(f, o)
  <2>. HIDE DEF f
  <2>. QED
    BY <1>7 DEF FieldValues
<1>9. ASSUME NEW j \in DOMAIN Schema[T], Schema[T][j].kind \in {"string", "scalars", "tables"}, w[j] # 0
      PROVE  \E o \in objects : o.off = w[j] /\ Refers(Schema[T][j], o)
  <2>1. CASE j = i
    <3>1. w[j] = value /\ Schema[T][j] = f
      BY <1>5, <2>1
    <3>. HIDE DEF w, f
    <3>. QED
      BY <1>8, <1>9, <3>1
  <2>2. CASE j # i
    <3>1. w[j] = values[j]
      BY <1>5, <2>2
    <3>. HIDE DEF w
    <3>. QED
      BY <1>5, <1>9, <3>1 DEF PlainRefs
  <2>. QED
    BY <2>1, <2>2
<1>10. PlainRefs(objects, T, w)
  BY <1>9 DEF PlainRefs
<1>. HIDE DEF w, T
<1>. QED
  BY <1>4, <1>10 DEF RefInv

LEMMA EndRefers ==
  ASSUME ReadInv, RefInv, End
  PROVE  RefInv'
<1>. DEFINE T == open.type
            value == open.value
            b == EndTable(bld, open.start)
            o == [off |-> b.ret, kind |-> "table", type |-> T, value |-> value]
<1>1. Record(b, "table", T, value) /\ open' = NoTable /\ open.started /\ UnionsAgree
  BY DEF End
<1>2. PlainRefs(objects, T, value)
  BY <1>1 DEF RefInv
<1>3. ASSUME NEW i \in DOMAIN Schema[T], Schema[T][i].kind = "union", value[i] # 0
      PROVE  IsUnion(objects, Schema[T][i], value[i - 1], value[i])
  <2>1. /\ value[i - 1] \in DOMAIN UnionTypes[Schema[T][i].of]
        /\ value[i] \in OffsetsOf(UnionTypes[Schema[T][i].of][value[i - 1]])
    BY <1>1, <1>3 DEF UnionsAgree
  <2>. QED
    BY <2>1 DEF IsUnion, OffsetsOf
<1>4. UnionRefs(objects, T, value)
  BY <1>3 DEF UnionRefs
<1>5. o.kind = "table" /\ o.type = T /\ o.value = value
  OBVIOUS
<1>6. o = [off |-> b.ret, kind |-> "table", type |-> T, value |-> value]
  OBVIOUS
<1>. HIDE DEF T, value, b, o
<1>7. Referred(objects, o)
  BY <1>2, <1>4, <1>5 DEF Referred
<1>. QED
  BY <1>1, <1>6, <1>7, RecordRefers

LEMMA NextRefers == ReadInv /\ RefInv /\ [Next]_vars => RefInv'
<1>. SUFFICES ASSUME ReadInv, RefInv, [Next]_vars PROVE RefInv'
  OBVIOUS
<1>1. CASE UNCHANGED vars
  BY <1>1 DEF vars, RefInv
<1>2. ASSUME NEW str \in Texts, CreateText(str)
      PROVE  RefInv'
  <2>1. ASSUME NEW b, NEW type, Record(b, "string", type, str)
        PROVE  RefInv'
    <3>. DEFINE o == [off |-> b.ret, kind |-> "string", type |-> type, value |-> str]
    <3>1. Referred(objects, o)
      BY DEF Referred
    <3>2. open' = open
      BY <1>2 DEF CreateText
    <3>. QED
      BY <2>1, <3>1, <3>2, RecordRefers
  <2>. QED
    BY <1>2, <2>1 DEF CreateText
<1>3. ASSUME NEW type \in DOMAIN Vectors, NEW elements \in Vectors[type],
             CreateScalars(type, elements)
      PROVE  RefInv'
  <2>. DEFINE b == CreateVector(bld, elements, Widths[type])
              o == [off |-> b.ret, kind |-> "scalars", type |-> type, value |-> elements]
  <2>1. Record(b, "scalars", type, elements) /\ open' = open
    BY <1>3 DEF CreateScalars
  <2>. HIDE DEF b
  <2>2. Referred(objects, o)
    BY DEF Referred
  <2>. QED
    BY <2>1, <2>2, RecordRefers
<1>4. CASE \E T \in Types : CreateTables(T) \/ Begin(T)
  BY <1>4, CreateTablesRefers, BeginRefers
<1>5. CASE AddField
  BY <1>5, AddFieldRefers
<1>6. CASE End
  BY <1>6, EndRefers
<1>7. CASE \E o \in objects, e \in EffectIds, t, n \in Ids : make_message(o, e, t, n)
  <2>1. objects' = objects /\ open' = open
    BY <1>7 DEF make_message
  <2>. QED
    BY <2>1 DEF RefInv
<1>8. CASE ClearForReuse \/ ResetForReuse
  <2>1. objects' = {} /\ open' = NoTable
    BY <1>8 DEF ClearForReuse, ResetForReuse
  <2>. QED
    BY <2>1 DEF RefInv, NoTable
<1>. QED
  BY <1>1, <1>2, <1>3, <1>4, <1>5, <1>6, <1>7, <1>8 DEF Next

\* Nothing in a buffer refers to what is not there, or to what is something
\* else than the schema says.
THEOREM RefInvHolds == Spec /\ []LimitsKept => []RefInv
<1>1. Init => RefInv
  BY DEF Init, RefInv, NoTable
<1>. QED
  BY <1>1, NextRefers, ReadInvHolds, PTL DEF Spec


----------------------------------------------------------------------------
(* What is in the data is what the Verifier accepts.                       *)

LEMMA LeadsVerifies ==
  ASSUME NEW mem \in Seq(Byte), Len(mem) % 4 = 0, NEW at, NEW off \in Int, 4 <= off,
         Leads(mem, at, off)
  PROVE  /\ VerifyOffsetAt(mem, Position(mem, at)) /\ off < Len(mem)
         /\ Indirect(mem, Position(mem, at)) = Position(mem, off)
         /\ Position(mem, off) \in 0 .. Len(mem) - 1
<1>. DEFINE p == Position(mem, at)
            l == Len(mem)
<1>1. /\ at \in Nat /\ l \in Nat /\ at <= l /\ 4 <= at
      /\ ReadScalar(mem, p, 4) = at - off
  BY BlockOfFour DEF Leads
<1>2. at % 4 = 0 /\ 0 < off /\ off < at
  BY DEF Leads
<1>. HIDE DEF p, l
<1>3. p = l - at /\ l % 4 = 0 /\ Position(mem, off) = l - off
  BY DEF Position, p, l
<1>4. VerifyScalar(mem, p, 4)
  BY <1>1, <1>2, <1>3 DEF VerifyScalar, Inside, l
<1>5. Indirect(mem, p) = l - off /\ off < l
  BY <1>1, <1>2, <1>3 DEF Indirect
<1>6. Inside(mem, Indirect(mem, p), 1) /\ ReadScalar(mem, p, 4) > 0
  BY <1>1, <1>2, <1>5 DEF Inside, l
<1>7. l - off \in 0 .. l - 1
  BY <1>1, <1>2
<1>. QED
  BY <1>3, <1>4, <1>5, <1>6, <1>7 DEF VerifyOffsetAt, p, l

LEMMA VectorVerifies ==
  ASSUME NEW mem \in Seq(Byte), Len(mem) % 4 = 0, NEW off, off < Len(mem), off % 4 = 0,
         NEW n \in Nat, IsInt32(n), Block(mem, off, Bytes(n, 4)),
         NEW width, NEW size \in Nat, size = width * n, 4 + size <= off
  PROVE  /\ VerifyVectorOrString(mem, Position(mem, off), width)
         /\ VectorSize(mem, Position(mem, off)) = n
         /\ 4 <= off /\ Position(mem, off) \in 0 .. Len(mem) - 1
<1>. DEFINE p == Position(mem, off)
            l == Len(mem)
<1>1. /\ off \in Nat /\ l \in Nat /\ off <= l /\ 4 <= off
      /\ ReadScalar(mem, p, 4) = n
  BY BlockOfFour
<1>2. off < l /\ l % 4 = 0
  OBVIOUS
<1>. HIDE DEF p, l
<1>3. p = l - off
  BY DEF Position, p, l
<1>4. VerifyScalar(mem, p, 4)
  BY <1>1, <1>2, <1>3 DEF VerifyScalar, Inside, l
<1>5. VectorSize(mem, p) = n
  BY <1>1 DEF VectorSize
<1>6. Inside(mem, p, 4 + size)
  BY <1>1, <1>2, <1>3 DEF Inside, l
<1>7. Inside(mem, p, 4 + width * VectorSize(mem, p))
  BY <1>5, <1>6
<1>8. p \in 0 .. l - 1
  BY <1>1, <1>2, <1>3
<1>. QED
  BY <1>1, <1>4, <1>5, <1>7, <1>8 DEF VerifyVectorOrString, p, l

LEMMA TextVerifies ==
  ASSUME NEW mem \in Seq(Byte), Len(mem) % 4 = 0, NEW off, off < Len(mem),
         NEW str \in Seq(Byte), TextIn(mem, off, str)
  PROVE  VerifyString(mem, Position(mem, off))
<1>. DEFINE p == Position(mem, off)
            n == Len(str)
            l == Len(mem)
            end == off - 4 - n
<1>1. /\ IsInt32(n) /\ Block(mem, off, Bytes(n, 4)) /\ off % 4 = 0
      /\ Block(mem, end, Zeros(1))
  BY DEF TextIn
<1>2. n \in Nat /\ 1 * n = n
  BY LenProperties
<1>3. off \in Nat /\ l \in Nat /\ 4 <= off
  BY <1>1, BlockOfFour
<1>. HIDE DEF end, n
<1>4. Zeros(1) \in Seq(Byte) /\ Len(Zeros(1)) = 1
  BY ZerosAreBytes
<1>5. end \in Nat /\ 1 <= end
  BY <1>1, <1>4, BlockPlace
<1>6. 4 + n <= off
  BY <1>2, <1>3, <1>5 DEF end
<1>7. VerifyVectorOrString(mem, p, 1) /\ VectorSize(mem, p) = n
  BY <1>1, <1>2, <1>6, VectorVerifies
<1>8. VectorData(p) + n = Position(mem, end)
  BY <1>2, <1>3 DEF VectorData, Position, end
<1>9. Inside(mem, Position(mem, end), 1)
  <2>1. end <= off /\ off < l /\ Position(mem, end) = l - end
    BY <1>2, <1>3 DEF end, Position
  <2>. HIDE DEF l
  <2>2. l - end >= 0 /\ 1 < l /\ l - end <= l - 1
    BY <1>3, <1>5, <2>1
  <2>. QED
    BY <2>1, <2>2 DEF Inside, l
<1>10. mem[Position(mem, end) + 1] = 0
  <2>1. \A k \in 1 .. Len(Zeros(1)) : mem[Position(mem, end) + k] = Zeros(1)[k]
    <3>. DEFINE z == Zeros(1)
    <3>1. Block(mem, end, z) /\ z \in Seq(Byte)
      BY <1>1, <1>4
    <3>. HIDE DEF z
    <3>2. \A k \in 1 .. Len(z) : mem[Position(mem, end) + k] = z[k]
      BY <3>1, BlockIsRead
    <3>. QED
      BY <3>2 DEF z
  <2>2. Zeros(1)[1] = 0
    BY DEF Zeros
  <2>. QED
    BY <1>4, <2>1, <2>2
<1>. HIDE DEF p, l
<1>. QED
  BY <1>7, <1>8, <1>9, <1>10 DEF VerifyString, p

LEMMA ScalarsVerify ==
  ASSUME NEW mem \in Seq(Byte), Len(mem) % 4 = 0, NEW off, off < Len(mem),
         NEW elements \in Seq(Seq(Byte)), NEW width \in Nat, ScalarsIn(mem, off, elements, width)
  PROVE  VerifyVectorOrString(mem, Position(mem, off), width)
<1>. DEFINE n == Len(elements)
            size == width * n
<1>1. /\ IsInt32(n) /\ Block(mem, off, Bytes(n, 4)) /\ off % 4 = 0 /\ 4 + size <= off
  BY DEF ScalarsIn
<1>2. n \in Nat
  BY LenProperties
<1>3. size \in Nat
  BY <1>2
<1>4. size = width * n
  OBVIOUS
<1>. HIDE DEF n, size
<1>. QED
  BY <1>1, <1>2, <1>3, <1>4, VectorVerifies

LEMMA TablesVerify ==
  ASSUME NEW mem \in Seq(Byte), Len(mem) % 4 = 0, NEW off, off < Len(mem),
         NEW offs \in Seq(Int), TablesIn(mem, off, offs), \A i \in 1 .. Len(offs) : 4 <= offs[i]
  PROVE  LET p == Position(mem, off)
         IN  /\ VerifyVectorOrString(mem, p, 4) /\ VectorSize(mem, p) = Len(offs)
             /\ \A i \in 1 .. Len(offs) :
                  /\ GetAll(mem, p)[i] = Position(mem, offs[i]) /\ offs[i] < Len(mem)
                  /\ Position(mem, offs[i]) \in 0 .. Len(mem) - 1
<1>. DEFINE p == Position(mem, off)
            n == Len(offs)
            size == 4 * n
<1>1. /\ IsInt32(n) /\ Block(mem, off, Bytes(n, 4)) /\ off % 4 = 0 /\ 4 + size <= off
      /\ \A i \in 1 .. n : Leads(mem, off - 4 - (i - 1) * 4, offs[i])
  BY DEF TablesIn
<1>2. n \in Nat /\ \A i \in 1 .. n : offs[i] \in Int
  BY LenProperties, ElementOfSeq
<1>3. size \in Nat /\ size = 4 * n
  BY <1>2
<1>4. off \in Nat /\ Len(mem) \in Nat
  BY <1>1, BlockOfFour
<1>. HIDE DEF size
<1>5. VerifyVectorOrString(mem, p, 4) /\ VectorSize(mem, p) = n
  <2>. HIDE DEF n
  <2>. QED
    BY <1>1, <1>2, <1>3, VectorVerifies
<1>6. ASSUME NEW i \in 1 .. n
      PROVE  /\ Indirect(mem, VectorData(p) + (i - 1) * 4) = Position(mem, offs[i])
             /\ offs[i] < Len(mem) /\ Position(mem, offs[i]) \in 0 .. Len(mem) - 1
  <2>. DEFINE at == off - 4 - (i - 1) * 4
  <2>1. Leads(mem, at, offs[i]) /\ offs[i] \in Int /\ 4 <= offs[i]
    BY <1>1, <1>2
  <2>2. Position(mem, at) = VectorData(p) + (i - 1) * 4
    BY <1>2, <1>4 DEF Position, VectorData
  <2>. HIDE DEF at
  <2>3. /\ Indirect(mem, Position(mem, at)) = Position(mem, offs[i])
        /\ offs[i] < Len(mem) /\ Position(mem, offs[i]) \in 0 .. Len(mem) - 1
    BY <2>1, LeadsVerifies
  <2>. QED
    BY <2>2, <2>3
<1>. HIDE DEF p
<1>7. GetAll(mem, p) = [i \in 1 .. n |-> Indirect(mem, VectorData(p) + (i - 1) * 4)]
  BY <1>5 DEF GetAll
<1>. QED
  BY <1>5, <1>6, <1>7 DEF p

LEMMA TableStartVerifies ==
  ASSUME NEW mem \in Seq(Byte), Len(mem) % 4 = 0, NEW off, off < Len(mem), NEW T, NEW value,
         NEW vt \in Int, NEW slots \in Seq(Byte), LaidOut(mem, off, T, value, vt, slots),
         NEW left \in Int, left > 0
  PROVE  VerifyTableStart(mem, Position(mem, off), left)
<1>. DEFINE p == Position(mem, off)
            q == Position(mem, vt)
            l == Len(mem)
            n == Len(slots)
<1>1. /\ off \in Nat /\ off <= l /\ l \in Nat
      /\ GetVTable(mem, p) = q /\ ReadScalar(mem, q, 2) = n
  BY VtableIsRead
<1>2. /\ IsInt32(vt - off) /\ Block(mem, off, Bytes(vt - off, 4)) /\ off % 4 = 0
      /\ Block(mem, vt, slots) /\ vt % 2 = 0 /\ n % 2 = 0 /\ n < l
  BY DEF LaidOut, VtableIn
<1>3. 4 <= off
  BY <1>2, BlockOfFour
<1>4. vt \in Nat /\ vt <= l /\ n \in Nat /\ n <= vt
  BY <1>2, BlockPlace
<1>5. 2 <= n
  <2>1. SlotIs(slots, 0, n)
    BY DEF LaidOut, VtableIn
  <2>. HIDE DEF n
  <2>2. 0 + 2 <= n
    BY <2>1 DEF SlotIs, n
  <2>. QED
    BY <1>4, <2>2
<1>6. p = l - off /\ q = l - vt /\ off < l /\ l % 4 = 0
  BY DEF Position
<1>. HIDE DEF p, q, l, n
<1>7. VerifyScalar(mem, p, 4)
  BY <1>1, <1>2, <1>3, <1>6 DEF VerifyScalar, Inside, l
<1>8. VerifyScalar(mem, q, 2)
  <2>1. l % 2 = 0
    BY <1>1, <1>6
  <2>2. q % 2 = 0
    <3>1. \A i, j \in Nat : i % 2 = 0 /\ j % 2 = 0 => (i - j) % 2 = 0
      OBVIOUS
    <3>. QED
      BY <1>1, <1>2, <1>4, <1>6, <2>1, <3>1
  <2>3. Inside(mem, q, 2)
    BY <1>1, <1>2, <1>4, <1>5, <1>6 DEF Inside, l
  <2>. QED
    BY <2>2, <2>3 DEF VerifyScalar
<1>9. Inside(mem, q, n)
  BY <1>1, <1>2, <1>4, <1>6 DEF Inside, l
<1>. QED
  BY <1>1, <1>2, <1>7, <1>8, <1>9 DEF VerifyTableStart, VerifyComplexity, p

\* Where the field i of the table at off is.
Placed(mem, off, f, i, value) ==
  \E at \in Int : /\ at < off /\ FieldIn(mem, f, at, value)
                  /\ GetStruct(mem, Position(mem, off), Voffset(i)) = Position(mem, at)

LEMMA FieldPlace ==
  ASSUME NEW mem \in Seq(Byte), NEW off, NEW T \in DOMAIN Schema, NEW value,
         TableIn(mem, off, T, value), NEW i \in DOMAIN Schema[T]
  PROVE  \/ GetStruct(mem, Position(mem, off), Voffset(i)) = Nullptr
         \/ Placed(mem, off, Schema[T][i], i, value[i])
<1>. DEFINE table == Position(mem, off)
<1>1. PICK vt \in Int, slots \in Seq(Byte) : LaidOut(mem, off, T, value, vt, slots)
  BY DEF TableIn
<1>2. /\ off \in Nat /\ off <= Len(mem) /\ Len(mem) \in Nat
      /\ GetVTable(mem, table) = Position(mem, vt)
      /\ \A field \in Nat : field >= Len(slots) => VtableEntry(mem, Position(mem, vt), field) = 0
      /\ \A field \in Nat : \A v :
           SlotIs(slots, field, v) => VtableEntry(mem, Position(mem, vt), field) = v
  BY <1>1, VtableIsRead
<1>3. Voffset(i) \in Nat
  BY Fields DEF IsVoffset
<1>4. GetOptionalFieldOffset(mem, table, Voffset(i)) =
        VtableEntry(mem, Position(mem, vt), Voffset(i))
  BY <1>2 DEF GetOptionalFieldOffset
<1>5. CASE AddedIn(mem, off, slots, Schema[T][i], Voffset(i), value[i])
  <2>1. PICK at \in Int : /\ off - at >= 1 /\ SlotIs(slots, Voffset(i), off - at)
                          /\ FieldIn(mem, Schema[T][i], at, value[i])
    BY <1>5 DEF AddedIn
  <2>2. GetOptionalFieldOffset(mem, table, Voffset(i)) = off - at
    BY <1>2, <1>3, <1>4, <2>1
  <2>3. at < off /\ off - at # 0 /\ table + (off - at) = Position(mem, at)
    <3>1. off \in Nat /\ Len(mem) \in Nat /\ off - at >= 1
      BY <1>2, <2>1
    <3>2. Len(mem) - off + (off - at) = Len(mem) - at
      BY <3>1
    <3>3. at < off /\ off - at # 0
      BY <3>1
    <3>. QED
      BY <3>2, <3>3 DEF Position
  <2>4. GetStruct(mem, table, Voffset(i)) = Position(mem, at)
    BY <2>2, <2>3 DEF GetStruct, AddressAt
  <2>. QED
    BY <2>1, <2>3, <2>4 DEF Placed
<1>6. CASE NotAdded(slots, Schema[T][i], Voffset(i), value[i])
  <2>1. GetOptionalFieldOffset(mem, table, Voffset(i)) = 0
    BY <1>2, <1>3, <1>4, <1>6 DEF NotAdded
  <2>. QED
    BY <2>1 DEF GetStruct, AddressAt
<1>. QED
  BY <1>1, <1>5, <1>6 DEF LaidOut

\* A field that is not there is accepted.
LEMMA NoFieldVerifies ==
  ASSUME NEW mem, NEW t, t.type \in DOMAIN Schema, NEW i \in DOMAIN Schema[t.type], NEW verify,
         GetStruct(mem, t.table, Voffset(i)) = Nullptr
  PROVE  VerifyField(mem, t, i, verify)
<1>. DEFINE f == Schema[t.type][i]
<1>1. GetPointer(mem, t.table, Voffset(i)) = Nullptr
  BY DEF GetPointer, IndirectAt
<1>2. /\ VerifyOffset(mem, t.table, Voffset(i))
      /\ VerifyFieldOf(mem, t.table, Voffset(i), f.width, f.align)
  BY DEF VerifyOffset, VerifyFieldOf
<1>3. f.kind \in {"scalar", "struct", "string", "scalars", "tables", "union"}
  BY SchemaAssumption
<1>. QED
  BY <1>1, <1>2, <1>3 DEF VerifyField

LEMMA ScalarVerifies ==
  ASSUME NEW mem \in Seq(Byte), Len(mem) % 4 = 0, NEW off \in Nat, off <= Len(mem),
         NEW T \in DOMAIN Schema, NEW i \in DOMAIN Schema[T], NEW value,
         Schema[T][i].kind \in {"scalar", "struct"}, Placed(mem, off, Schema[T][i], i, value)
  PROVE  VerifyFieldOf(mem, Position(mem, off), Voffset(i), Schema[T][i].width, Schema[T][i].align)
<1>. DEFINE f == Schema[T][i]
            l == Len(mem)
            p == GetStruct(mem, Position(mem, off), Voffset(i))
<1>1. PICK at \in Int : /\ at < off /\ FieldIn(mem, f, at, value) /\ p = Position(mem, at)
  BY DEF Placed
<1>2. f.align \in {1, 4} /\ at % f.align = 0
  BY <1>1, TablesAssumption DEF FieldIn
<1>3. at \in Nat /\ l \in Nat /\ f.width \in Nat /\ f.width <= at
  <2>1. CASE f.kind = "scalar"
    <3>1. f.width \in {1, 4} /\ IsInt32(value) /\ Block(mem, at, Bytes(value, f.width))
      BY <1>1, <2>1 DEF FieldIn
    <3>2. Bytes(value, f.width) \in Seq(Byte) /\ Len(Bytes(value, f.width)) = f.width
      <4>. DEFINE w == f.width
      <4>1. w \in 0 .. 4 /\ value \in Int
        BY <3>1 DEF IsInt32
      <4>. HIDE DEF w
      <4>2. Bytes(value, w) \in Seq(Byte) /\ Len(Bytes(value, w)) = w
        BY <4>1, BytesFacts
      <4>. QED
        BY <4>2 DEF w
    <3>. QED
      BY <3>1, <3>2, BlockPlace
  <2>2. CASE f.kind = "struct"
    <3>1. value \in Seq(Byte) /\ Len(value) = f.width /\ Block(mem, at, value)
      BY <1>1, <2>2 DEF FieldIn
    <3>. QED
      BY <3>1, BlockPlace
  <2>. QED
    BY <2>1, <2>2
<1>4. off <= l /\ l % 4 = 0
  OBVIOUS
<1>. DEFINE w == f.width
            a == f.align
<1>5. p = l - at
  BY <1>1 DEF Position
<1>6. VerifyFieldOf(mem, Position(mem, off), Voffset(i), w, a) <=>
        (p # Nullptr => p % a = 0 /\ Inside(mem, p, w))
  BY DEF VerifyFieldOf
<1>7. a \in {1, 4} /\ at % a = 0 /\ w \in Nat /\ w <= at
  BY <1>2, <1>3
<1>. HIDE DEF p, l, w, a, f
<1>8. p % a = 0
  <2>1. CASE a = 1
    BY <1>1, <1>3, <1>5, <2>1
  <2>2. CASE a = 4
    <3>1. \A j, k \in Nat : j % 4 = 0 /\ k % 4 = 0 => (j - k) % 4 = 0
      OBVIOUS
    <3>. QED
      BY <1>3, <1>4, <1>5, <1>7, <2>2, <3>1
  <2>. QED
    BY <1>7, <2>1, <2>2
<1>9. Inside(mem, p, w)
  BY <1>1, <1>3, <1>4, <1>5, <1>7 DEF Inside, l
<1>. QED
  BY <1>6, <1>8, <1>9 DEF w, a, f

\* A field that refers to what is at value.
LEMMA RefVerifies ==
  ASSUME NEW mem \in Seq(Byte), Len(mem) % 4 = 0, NEW off, NEW i, NEW f, NEW value, 4 <= value,
         f.kind \notin {"scalar", "struct"}, Placed(mem, off, f, i, value)
  PROVE  /\ VerifyOffset(mem, Position(mem, off), Voffset(i))
         /\ GetPointer(mem, Position(mem, off), Voffset(i)) = Position(mem, value)
         /\ value \in Int /\ value < Len(mem) /\ Position(mem, value) \in 0 .. Len(mem) - 1
<1>. DEFINE p == GetStruct(mem, Position(mem, off), Voffset(i))
<1>1. PICK at \in Int : FieldIn(mem, f, at, value) /\ p = Position(mem, at)
  BY DEF Placed
<1>2. value \in Int /\ Leads(mem, at, value)
  BY <1>1 DEF FieldIn
<1>3. /\ VerifyOffsetAt(mem, p) /\ value < Len(mem)
      /\ Indirect(mem, p) = Position(mem, value)
      /\ Position(mem, value) \in 0 .. Len(mem) - 1
  BY <1>1, <1>2, LeadsVerifies
<1>4. p # Nullptr
  <2>1. at \in Nat /\ at <= Len(mem) /\ Len(mem) \in Nat
    BY <1>2, LeadsThere
  <2>. HIDE DEF p
  <2>. QED
    BY <1>1, <2>1 DEF Position, Nullptr
<1>5. VerifyOffset(mem, Position(mem, off), Voffset(i))
  BY <1>3 DEF VerifyOffset
<1>6. GetPointer(mem, Position(mem, off), Voffset(i)) = Position(mem, value)
  BY <1>3, <1>4 DEF GetPointer, IndirectAt
<1>. QED
  BY <1>2, <1>3, <1>5, <1>6

LEMMA ObjectAbove ==
  ASSUME NEW mem \in Seq(Byte), NEW o, ObjectIn(mem, o)
  PROVE  o.off \in Nat /\ 4 <= o.off
<1>1. \E v : IsInt32(v) /\ Block(mem, o.off, Bytes(v, 4))
  <2>1. CASE TextIn(mem, o.off, o.value)
    BY <2>1 DEF TextIn
  <2>2. CASE ScalarsIn(mem, o.off, o.value, Widths[o.type])
    BY <2>2 DEF ScalarsIn
  <2>3. CASE TablesIn(mem, o.off, o.value)
    BY <2>3 DEF TablesIn
  <2>4. CASE TableIn(mem, o.off, o.type, o.value)
    BY <2>4 DEF TableIn, LaidOut
  <2>. QED
    BY <2>1, <2>2, <2>3, <2>4 DEF ObjectIn
<1>. QED
  BY <1>1, BlockOfFour

\* All objects are in the data, and so is what they refer to.
Complete(mem, objs) == \A o \in objs : ObjectIn(mem, o) /\ Referred(objs, o)

\* The tables that no more than n tables are in each other from are accepted,
\* when so many may be left.
Accepts(mem, objs, depth, verify, n) ==
  \A o \in objs : \A left \in n .. MaxDepth :
    o.kind = "table" /\ o.off < Len(mem) /\ depth[o.type] <= n =>
      verify[[type |-> o.type, table |-> Position(mem, o.off), left |-> left]]

LEMMA DepthOf ==
  ASSUME NEW depth, Nests(depth), NEW T \in DOMAIN Schema
  PROVE  depth[T] \in Nat /\ 1 <= depth[T] /\ depth[T] <= MaxDepth /\ MaxDepth \in Nat
<1>1. depth \in [DOMAIN Schema -> 1 .. MaxDepth]
  BY DEF Nests
<1>2. MaxDepth \in Nat
  BY DEF MaxDepth
<1>3. depth[T] \in 1 .. MaxDepth
  BY <1>1
<1>. QED
  BY <1>2, <1>3

LEMMA RefFieldVerifies ==
  ASSUME NEW mem \in Seq(Byte), Len(mem) % 4 = 0, NEW objs, Complete(mem, objs),
         NEW depth, Nests(depth), NEW verify,
         NEW T \in DOMAIN Schema, NEW i \in DOMAIN Schema[T],
         NEW left \in depth[T] .. MaxDepth, Accepts(mem, objs, depth, verify, depth[T] - 1),
         NEW off, NEW value, Placed(mem, off, Schema[T][i], i, value),
         NEW o \in objs, o.off = value, o.kind = Schema[T][i].kind,
         o.kind # "string" => o.type = Schema[T][i].of,
         o.kind \in {"string", "scalars", "tables"}
  PROVE  VerifyField(mem, [type |-> T, table |-> Position(mem, off), left |-> left], i, verify)
<1>. DEFINE f == Schema[T][i]
            table == Position(mem, off)
            t == [type |-> T, table |-> table, left |-> left]
            p == Position(mem, value)
<1>1. ObjectIn(mem, o) /\ Referred(objs, o)
  BY DEF Complete
<1>2. 4 <= value
  BY <1>1, ObjectAbove
<1>3. /\ VerifyOffset(mem, table, Voffset(i)) /\ GetPointer(mem, table, Voffset(i)) = p
      /\ value < Len(mem)
  <2>1. f.kind \notin {"scalar", "struct"}
    OBVIOUS
  <2>. QED
    BY <1>2, <2>1, RefVerifies
<1>4. t.type = T /\ t.table = table /\ t.left = left
  OBVIOUS
<1>. HIDE DEF t, table, p
<1>5. CASE f.kind = "string"
  <2>1. VerifyString(mem, p)
    BY <1>1, <1>3, <1>5, TextVerifies DEF ObjectIn, p
  <2>. QED
    BY <1>3, <1>4, <1>5, <2>1 DEF VerifyField, t, table
<1>6. CASE f.kind = "scalars"
  <2>1. f.width = Widths[o.type]
    BY <1>6, TablesAssumption
  <2>2. VerifyVectorOrString(mem, p, f.width)
    BY <1>1, <1>3, <1>6, <2>1, ScalarsVerify DEF ObjectIn, p
  <2>. QED
    BY <1>3, <1>4, <1>6, <2>2 DEF VerifyField, t, table
<1>7. CASE f.kind = "tables"
  <2>. DEFINE offs == o.value
  <2>1. offs \in Seq(Int) /\ TablesIn(mem, value, offs) /\ ElementRefs(objs, f.of, offs)
    BY <1>1, <1>7 DEF ObjectIn, Referred
  <2>2. \A k \in 1 .. Len(offs) : 4 <= offs[k]
    BY <2>1, ObjectAbove DEF ElementRefs, Complete
  <2>. HIDE DEF offs
  <2>3. /\ VerifyVectorOrString(mem, p, 4) /\ VectorSize(mem, p) = Len(offs)
        /\ \A k \in 1 .. Len(offs) :
             /\ GetAll(mem, p)[k] = Position(mem, offs[k]) /\ offs[k] < Len(mem)
             /\ Position(mem, offs[k]) \in 0 .. Len(mem) - 1
    BY <1>3, <2>1, <2>2, TablesVerify DEF p
  <2>4. ASSUME NEW k \in 1 .. Len(offs)
        PROVE  verify[[type |-> f.of, table |-> Position(mem, offs[k]), left |-> left - 1]]
    <3>1. PICK q \in objs : q.off = offs[k] /\ q.kind = "table" /\ q.type = f.of
      BY <2>1 DEF ElementRefs
    <3>2. depth[f.of] <= depth[T] - 1 /\ left - 1 \in depth[T] - 1 .. MaxDepth
      <4>1. depth[f.of] < depth[T] /\ f.of \in DOMAIN Schema
        BY <1>7, SchemaAssumption DEF Nests
      <4>2. depth[f.of] \in Nat /\ depth[T] \in Nat /\ MaxDepth \in Nat
        <5>. HIDE DEF f
        <5>. QED
          BY <4>1, DepthOf
      <4>. QED
        BY <4>1, <4>2
    <3>. QED
      BY <2>3, <3>1, <3>2 DEF Accepts
  <2>5. \A k \in 1 .. VectorSize(mem, p) :
          /\ GetAll(mem, p)[k] \in 0 .. Len(mem) - 1
          /\ verify[[type |-> Schema[T][i].of, table |-> GetAll(mem, p)[k], left |-> left - 1]]
    BY <2>3, <2>4
  <2>6. VerifyField(mem, t, i, verify)
    BY <1>3, <1>4, <1>7, <2>3, <2>5 DEF VerifyField
  <2>. QED
    BY <2>6 DEF t, table
<1>. QED
  BY <1>5, <1>6, <1>7 DEF t, table

LEMMA UnionVerifies ==
  ASSUME NEW mem \in Seq(Byte), Len(mem) % 4 = 0, NEW objs, Complete(mem, objs),
         NEW depth, Nests(depth), NEW verify,
         NEW T \in DOMAIN Schema, NEW i \in DOMAIN Schema[T], Schema[T][i].kind = "union",
         NEW left \in depth[T] .. MaxDepth, Accepts(mem, objs, depth, verify, depth[T] - 1),
         NEW off, NEW value, TableIn(mem, off, T, value),
         Placed(mem, off, Schema[T][i], i, value[i]),
         IsUnion(objs, Schema[T][i], value[i - 1], value[i])
  PROVE  VerifyField(mem, [type |-> T, table |-> Position(mem, off), left |-> left], i, verify)
<1>. DEFINE f == Schema[T][i]
            table == Position(mem, off)
            t == [type |-> T, table |-> table, left |-> left]
            tag == GetField(mem, table, Voffset(i - 1), 1, 0)
            v == value[i]
            p == Position(mem, v)
<1>1. value[i - 1] \in DOMAIN UnionTypes[f.of]
  BY DEF IsUnion
<1>2. PICK o \in objs : o.off = v /\ o.kind = "table" /\ o.type = UnionTypes[f.of][value[i - 1]]
  BY DEF IsUnion
<1>3. 4 <= v
  BY <1>2, ObjectAbove DEF Complete
<1>4. /\ VerifyOffset(mem, table, Voffset(i)) /\ GetPointer(mem, table, Voffset(i)) = p
      /\ v < Len(mem) /\ p \in 0 .. Len(mem) - 1
  <2>1. f.kind \notin {"scalar", "struct"} /\ Placed(mem, off, f, i, v)
    OBVIOUS
  <2>. HIDE DEF f, v
  <2>. QED
    BY <1>3, <2>1, RefVerifies
<1>5. tag = value[i - 1]
  <2>1. i - 1 \in DOMAIN Schema[T] /\ Schema[T][i - 1].kind = "scalar"
    BY SchemaAssumption
  <2>2. Schema[T][i - 1].width = 1
    BY TablesAssumption
  <2>3. ReadField(mem, table, Schema[T][i - 1], i - 1) = tag
    BY <2>1, <2>2 DEF ReadField
  <2>4. [j \in DOMAIN Schema[T] |-> ReadField(mem, table, Schema[T][j], j)] = value
    BY TableIsRead
  <2>. HIDE DEF tag, table
  <2>. QED
    BY <2>1, <2>3, <2>4
<1>6. verify[[type |-> UnionTypes[f.of][tag], table |-> p, left |-> left - 1]]
  <2>1. /\ depth[UnionTypes[f.of][tag]] < depth[T]
        /\ UnionTypes[f.of][tag] \in DOMAIN Schema
    <3>. HIDE DEF tag
    <3>. QED
      BY <1>1, <1>5, SchemaAssumption DEF Nests
  <2>. DEFINE U == UnionTypes[f.of][tag]
  <2>2. o.type = U
    BY <1>2, <1>5
  <2>. HIDE DEF U, tag
  <2>3. depth[U] \in Nat /\ depth[T] \in Nat /\ MaxDepth \in Nat
    BY <2>1, DepthOf DEF U
  <2>4. depth[U] <= depth[T] - 1 /\ left - 1 \in depth[T] - 1 .. MaxDepth
    BY <2>1, <2>3 DEF U
  <2>5. verify[[type |-> U, table |-> p, left |-> left - 1]]
    BY <1>2, <1>4, <2>2, <2>4 DEF Accepts
  <2>. QED
    BY <2>5 DEF U
<1>7. t.type = T /\ t.table = table /\ t.left = left
  OBVIOUS
<1>. HIDE DEF t, p, v
<1>. QED
  BY <1>4, <1>6, <1>7 DEF VerifyField, t

LEMMA FieldVerifies ==
  ASSUME NEW mem \in Seq(Byte), Len(mem) % 4 = 0, NEW objs, Complete(mem, objs),
         NEW depth, Nests(depth), NEW verify,
         NEW T \in DOMAIN Schema, NEW i \in DOMAIN Schema[T],
         NEW left \in depth[T] .. MaxDepth, Accepts(mem, objs, depth, verify, depth[T] - 1),
         NEW off \in Nat, off <= Len(mem), NEW value, TableIn(mem, off, T, value),
         PlainRefs(objs, T, value), UnionRefs(objs, T, value)
  PROVE  VerifyField(mem, [type |-> T, table |-> Position(mem, off), left |-> left], i, verify)
<1>. DEFINE f == Schema[T][i]
            t == [type |-> T, table |-> Position(mem, off), left |-> left]
            v == value[i]
<1>0. t.type = T /\ t.table = Position(mem, off) /\ t.left = left
  OBVIOUS
<1>1. f.kind \in {"scalar", "struct", "string", "scalars", "tables", "union"}
  BY SchemaAssumption
<1>2. CASE GetStruct(mem, Position(mem, off), Voffset(i)) = Nullptr
  <2>. HIDE DEF t
  <2>. QED
    BY <1>0, <1>2, NoFieldVerifies DEF t
<1>3. CASE Placed(mem, off, f, i, v)
  <2>1. CASE f.kind \in {"scalar", "struct"}
    <3>1. VerifyFieldOf(mem, Position(mem, off), Voffset(i), f.width, f.align)
      BY <1>3, <2>1, ScalarVerifies
    <3>. QED
      BY <1>0, <2>1, <3>1 DEF VerifyField
  <2>2. f.kind \notin {"scalar", "struct"} => v # 0
    BY <1>3 DEF Placed, FieldIn, Leads
  <2>3. CASE f.kind = "union"
    <3>1. IsUnion(objs, f, value[i - 1], v)
      BY <2>2, <2>3 DEF UnionRefs
    <3>. QED
      BY <1>3, <2>3, <3>1, UnionVerifies
  <2>4. CASE f.kind \in {"string", "scalars", "tables"}
    <3>1. PICK o \in objs : o.off = v /\ Refers(f, o)
      BY <2>2, <2>4 DEF PlainRefs
    <3>2. o.kind = f.kind /\ (o.kind # "string" => o.type = f.of)
      BY <2>4, <3>1 DEF Refers
    <3>3. o.kind \in {"string", "scalars", "tables"} /\ o.off = v
      BY <2>4, <3>1, <3>2
    <3>. QED
      BY <1>3, <3>2, <3>3, RefFieldVerifies
  <2>. QED
    BY <1>1, <2>1, <2>3, <2>4
<1>. QED
  BY <1>2, <1>3, FieldPlace

LEMMA TableVerifies ==
  ASSUME NEW mem \in Seq(Byte), Len(mem) % 4 = 0, NEW objs, Complete(mem, objs),
         NEW depth, Nests(depth), NEW verify, NEW T \in DOMAIN Schema,
         NEW left \in depth[T] .. MaxDepth, Accepts(mem, objs, depth, verify, depth[T] - 1),
         NEW off, off < Len(mem), NEW value, TableIn(mem, off, T, value),
         PlainRefs(objs, T, value), UnionRefs(objs, T, value)
  PROVE  VerifyTable(mem, [type |-> T, table |-> Position(mem, off), left |-> left], verify)
<1>. DEFINE t == [type |-> T, table |-> Position(mem, off), left |-> left]
<1>0. t.type = T /\ t.table = Position(mem, off) /\ t.left = left
  OBVIOUS
<1>1. PICK vt \in Int, slots \in Seq(Byte) : LaidOut(mem, off, T, value, vt, slots)
  BY DEF TableIn
<1>2. off \in Nat /\ off <= Len(mem)
  BY <1>1, VtableIsRead
<1>3. left \in Int /\ left > 0
  BY DEF Nests
<1>4. VerifyTableStart(mem, Position(mem, off), left)
  BY <1>1, <1>3, TableStartVerifies
<1>5. \A i \in DOMAIN Schema[T] : VerifyField(mem, t, i, verify)
  BY <1>2, FieldVerifies
<1>. HIDE DEF t
<1>. QED
  BY <1>0, <1>4, <1>5 DEF VerifyTable, t

\* What is asked of the tables below one is asked with one table less left.
LEMMA FieldAsks ==
  ASSUME NEW mem \in Seq(Byte), NEW t \in Visits(mem), t.left > 0,
         NEW i \in DOMAIN Schema[t.type], NEW g, NEW h,
         \A s \in Visits(mem) : s.left < t.left => g[s] = h[s]
  PROVE  VerifyField(mem, t, i, g) = VerifyField(mem, t, i, h)
<1>. DEFINE f == Schema[t.type][i]
            p == GetPointer(mem, t.table, Voffset(i))
            Asked(T, table) == [type |-> T, table |-> table, left |-> t.left - 1]
<1>1. t.type \in DOMAIN Schema /\ t.left \in 0 .. MaxDepth
  BY DEF Visits
<1>2. ASSUME NEW T \in DOMAIN Schema, NEW table \in 0 .. Len(mem) - 1
      PROVE  g[Asked(T, table)] = h[Asked(T, table)]
  <2>1. t.left - 1 \in 0 .. MaxDepth /\ t.left - 1 < t.left
    <3>. DEFINE n == t.left
    <3>1. n \in 0 .. MaxDepth /\ n > 0 /\ MaxDepth \in Nat
      BY <1>1 DEF MaxDepth
    <3>. HIDE DEF n
    <3>2. n - 1 \in 0 .. MaxDepth /\ n - 1 < n
      BY <3>1
    <3>. QED
      BY <3>2 DEF n
  <2>2. Asked(T, table) \in Visits(mem) /\ Asked(T, table).left = t.left - 1
    BY <2>1 DEF Visits
  <2>. HIDE DEF Asked
  <2>. QED
    BY <2>1, <2>2
<1>3. f.kind \in {"scalar", "struct", "string", "scalars", "tables", "union"}
  BY <1>1, SchemaAssumption
<1>4. CASE f.kind \in {"scalar", "struct", "string", "scalars"}
  BY <1>4 DEF VerifyField
<1>5. CASE f.kind = "tables"
  <2>1. f.of \in DOMAIN Schema
    BY <1>1, <1>5, SchemaAssumption
  <2>2. \A k : GetAll(mem, p)[k] \in 0 .. Len(mem) - 1 =>
          g[Asked(f.of, GetAll(mem, p)[k])] = h[Asked(f.of, GetAll(mem, p)[k])]
    <3>. HIDE DEF f, p, Asked
    <3>. QED
      BY <1>2, <2>1
  <2>. QED
    BY <1>5, <2>2 DEF VerifyField
<1>6. CASE f.kind = "union"
  <2>. DEFINE tag == GetField(mem, t.table, Voffset(i - 1), 1, 0)
              U == UnionTypes[f.of][tag]
  <2>1. tag \in DOMAIN UnionTypes[f.of] => U \in DOMAIN Schema
    <3>. HIDE DEF tag
    <3>. QED
      BY <1>1, <1>6, SchemaAssumption
  <2>2. tag \in DOMAIN UnionTypes[f.of] /\ p \in 0 .. Len(mem) - 1 =>
          g[Asked(U, p)] = h[Asked(U, p)]
    <3>. HIDE DEF U, p, tag, Asked
    <3>. QED
      BY <1>2, <2>1
  <2>. QED
    BY <1>6, <2>2 DEF VerifyField
<1>. QED
  BY <1>3, <1>4, <1>5, <1>6

LEMMA TableAsks ==
  ASSUME NEW mem \in Seq(Byte), NEW t \in Visits(mem), NEW g, NEW h,
         \A s \in Visits(mem) : s.left < t.left => g[s] = h[s]
  PROVE  VerifyTable(mem, t, g) = VerifyTable(mem, t, h)
<1>1. t.left \in Nat
  BY DEF Visits
<1>2. CASE t.left > 0
  <2>1. \A i \in DOMAIN Schema[t.type] : VerifyField(mem, t, i, g) = VerifyField(mem, t, i, h)
    BY <1>2, FieldAsks
  <2>. QED
    BY <2>1 DEF VerifyTable
<1>3. CASE ~(t.left > 0)
  BY <1>3 DEF VerifyTable, VerifyTableStart, VerifyComplexity
<1>. QED
  BY <1>2, <1>3

\* The recursion of the Verify functions is what it is written as.
LEMMA VerifyTablesUnfolds ==
  ASSUME NEW mem \in Seq(Byte), NEW t \in Visits(mem)
  PROVE  VerifyTables(mem)[t] = VerifyTable(mem, t, VerifyTables(mem))
<1>. DEFINE S == Visits(mem)
            U == BOOLEAN
            Solves(g) == g = [s \in S |-> VerifyTable(mem, s, g)]
            F == [x \in S \X [S -> U] |-> VerifyTable(mem, x[1], x[2])]
            rank == [s \in S |-> s.left]
            top == MaxDepth + 1
<1>1. F \in [S \X [S -> U] -> U]
  <2>1. \A x : VerifyTable(mem, x[1], x[2]) \in BOOLEAN
    BY DEF VerifyTable
  <2>. HIDE DEF S
  <2>. QED
    BY <2>1
<1>2. rank \in [S -> Nat] /\ top \in Nat /\ \A s \in S : rank[s] < top
  <2>1. MaxDepth \in Nat
    BY DEF MaxDepth
  <2>2. \A s \in S : s.left \in 0 .. MaxDepth
    BY DEF Visits
  <2>. HIDE DEF S
  <2>. QED
    BY <2>1, <2>2
<1>3. ASSUME NEW s \in S, NEW g \in [S -> U], NEW h \in [S -> U],
             \A r \in S : rank[r] < rank[s] => g[r] = h[r]
      PROVE  F[<<s, g>>] = F[<<s, h>>]
  <2>1. \A r \in Visits(mem) : r.left < s.left => g[r] = h[r]
    BY <1>3
  <2>2. VerifyTable(mem, s, g) = VerifyTable(mem, s, h)
    BY <2>1, TableAsks
  <2>3. F[<<s, g>>] = VerifyTable(mem, s, g) /\ F[<<s, h>>] = VerifyTable(mem, s, h)
    <3>. HIDE DEF S
    <3>. QED
      OBVIOUS
  <2>. QED
    BY <2>2, <2>3
<1>4. Ranked(S, U, F, rank, top)
  <2>. HIDE DEF F, rank, S, top
  <2>. QED
    BY <1>1, <1>2, <1>3 DEF Ranked
<1>5. Solvable(S, U, F)
  <2>1. TRUE \in U
    OBVIOUS
  <2>. HIDE DEF F, rank, S, U, top
  <2>. QED
    BY <1>4, <2>1, Recursion
<1>6. \E g : Solves(g)
  <2>1. PICK g \in [S -> U] : \A s \in S : g[s] = F[<<s, g>>]
    BY <1>5 DEF Solvable
  <2>2. \A s \in S : F[<<s, g>>] = VerifyTable(mem, s, g)
    <3>. HIDE DEF S
    <3>. QED
      OBVIOUS
  <2>. HIDE DEF S, F
  <2>3. Solves(g)
    BY <2>1, <2>2
  <2>. QED
    BY <2>3
<1>. DEFINE verify == CHOOSE g : Solves(g)
<1>7. VerifyTables(mem) = verify
  BY DEF VerifyTables
<1>8. Solves(verify)
  <2>. HIDE DEF Solves
  <2>. QED
    BY <1>6
<1>. HIDE DEF verify
<1>9. \A s \in S : verify[s] = VerifyTable(mem, s, verify)
  <2>. HIDE DEF S
  <2>. QED
    BY <1>8
<1>. QED
  BY <1>7, <1>9

\* All tables are accepted, by induction on how many are in each other.
LEMMA AllVerify ==
  ASSUME NEW mem \in Seq(Byte), Len(mem) % 4 = 0, NEW objs, Complete(mem, objs),
         NEW depth, Nests(depth), NEW n \in Nat
  PROVE  Accepts(mem, objs, depth, VerifyTables(mem), n)
<1>. DEFINE verify == VerifyTables(mem)
            Upto(k) == \A m \in 0 .. k : Accepts(mem, objs, depth, verify, m)
            Reached == {k \in Nat : Upto(k)}
<1>1. \A o \in objs : o.kind = "table" =>
        /\ o.type \in DOMAIN Schema /\ TableIn(mem, o.off, o.type, o.value)
        /\ PlainRefs(objs, o.type, o.value) /\ UnionRefs(objs, o.type, o.value)
        /\ o.off \in Nat /\ 4 <= o.off
  BY ObjectAbove DEF Complete, ObjectIn, Referred
<1>. HIDE DEF verify
<1>2. Accepts(mem, objs, depth, verify, 0)
  <2>1. \A o \in objs : o.kind = "table" => ~(depth[o.type] <= 0)
    BY <1>1, DepthOf
  <2>. QED
    BY <2>1 DEF Accepts
<1>3. ASSUME NEW k \in Nat, Upto(k)
      PROVE  Accepts(mem, objs, depth, verify, k + 1)
  <2>1. SUFFICES ASSUME NEW o \in objs, NEW left \in k + 1 .. MaxDepth,
                        o.kind = "table", o.off < Len(mem), depth[o.type] <= k + 1
                 PROVE  verify[[type |-> o.type, table |-> Position(mem, o.off), left |-> left]]
    BY DEF Accepts
  <2>. DEFINE T == o.type
              off == o.off
              value == o.value
              t == [type |-> T, table |-> Position(mem, off), left |-> left]
  <2>2. /\ T \in DOMAIN Schema /\ TableIn(mem, off, T, value) /\ off < Len(mem)
        /\ PlainRefs(objs, T, value) /\ UnionRefs(objs, T, value)
        /\ off \in Nat /\ 4 <= off
    BY <1>1, <2>1
  <2>. HIDE DEF T, off, value
  <2>3. /\ depth[T] \in Nat /\ 1 <= depth[T] /\ depth[T] <= MaxDepth /\ MaxDepth \in Nat
        /\ depth[T] <= k + 1
    BY <2>1, <2>2, DepthOf DEF T
  <2>4. left \in depth[T] .. MaxDepth /\ left \in 0 .. MaxDepth /\ depth[T] - 1 \in 0 .. k
    BY <2>3
  <2>5. Accepts(mem, objs, depth, verify, depth[T] - 1)
    BY <1>3, <2>4
  <2>6. VerifyTable(mem, t, verify)
    BY <2>2, <2>4, <2>5, TableVerifies
  <2>7. t \in Visits(mem)
    <3>1. Position(mem, off) \in 0 .. Len(mem) - 1
      BY <2>2, LenProperties DEF Position
    <3>. QED
      BY <2>2, <2>4, <3>1 DEF Visits
  <2>. HIDE DEF t
  <2>8. verify[t]
    BY <2>6, <2>7, VerifyTablesUnfolds DEF verify
  <2>. QED
    BY <2>8 DEF t, T, off
<1>4. 0 \in Reached
  BY <1>2
<1>5. ASSUME NEW k \in Nat, k \in Reached
      PROVE  k + 1 \in Reached
  <2>1. \A m \in 0 .. k + 1 : m \in 0 .. k \/ m = k + 1
    OBVIOUS
  <2>2. Upto(k) /\ Accepts(mem, objs, depth, verify, k + 1)
    BY <1>3, <1>5
  <2>. QED
    BY <2>1, <2>2
<1>6. n \in Reached
  <2>. HIDE DEF Reached
  <2>. QED
    BY <1>4, <1>5, SetInduction
<1>7. n \in 0 .. n
  OBVIOUS
<1>. QED
  BY <1>6, <1>7 DEF verify

\* The envelope is a table like the others, but for being no object.
LEMMA ShownVerifies ==
  ASSUME NEW mem \in Seq(Byte), NEW objs, Complete(mem, objs), NEW depth, Nests(depth),
         NEW m, Shows(mem, m), m.message \in objs, m.message.kind = "table",
         m.message.type \in Range(UnionTypes[Message])
  PROVE  VerifyBuffer(mem, Envelope)
<1>. DEFINE l == Len(mem)
            o == m.message
            left == MaxDepth
            verify == VerifyTables(mem)
<1>1. PICK root \in Nat : \E value :
        /\ Leads(mem, Len(mem), root) /\ TableIn(mem, root, Envelope, value)
        /\ value[1] = m.threadId /\ value[2] = m.id
        /\ value[3] = TagOf(o.type) /\ value[4] = o.off
  BY DEF Shows
<1>2. PICK value :
        /\ Leads(mem, Len(mem), root) /\ TableIn(mem, root, Envelope, value)
        /\ value[3] = TagOf(o.type) /\ value[4] = o.off
  BY <1>1
<1>3. l \in Nat /\ l % 4 = 0
  BY <1>2, LenProperties DEF Leads
<1>4. /\ Envelope \in DOMAIN Schema /\ DOMAIN Schema[Envelope] = {1, 2, 3, 4}
      /\ \A i \in {1, 2, 3} : Schema[Envelope][i].kind = "scalar"
      /\ Schema[Envelope][4].kind = "union" /\ Schema[Envelope][4].of = Message
  BY TablesAssumption
<1>5. PlainRefs(objs, Envelope, value)
  BY <1>4 DEF PlainRefs
<1>6. UnionRefs(objs, Envelope, value)
  <2>1. TagOf(o.type) \in DOMAIN UnionTypes[Message] /\ UnionTypes[Message][TagOf(o.type)] = o.type
    BY TagOfType
  <2>2. IsUnion(objs, Schema[Envelope][4], value[3], value[4])
    BY <1>2, <1>4, <2>1 DEF IsUnion
  <2>3. 4 - 1 = 3
    OBVIOUS
  <2>. QED
    BY <1>4, <2>2, <2>3 DEF UnionRefs
<1>7. 4 <= root /\ root \in Nat
  <2>1. PICK vt \in Int, slots \in Seq(Byte) : LaidOut(mem, root, Envelope, value, vt, slots)
    BY <1>2 DEF TableIn
  <2>. QED
    BY <2>1, BlockOfFour DEF LaidOut
<1>8. /\ VerifyOffsetAt(mem, Position(mem, l)) /\ root < l
      /\ Indirect(mem, Position(mem, l)) = Position(mem, root)
      /\ Position(mem, root) \in 0 .. l - 1
  <2>1. Leads(mem, l, root) /\ root \in Int
    BY <1>2
  <2>2. Len(mem) % 4 = 0
    BY <1>3
  <2>. HIDE DEF l
  <2>3. /\ VerifyOffsetAt(mem, Position(mem, l)) /\ root < Len(mem)
        /\ Indirect(mem, Position(mem, l)) = Position(mem, root)
        /\ Position(mem, root) \in 0 .. Len(mem) - 1
    BY <1>7, <2>1, <2>2, LeadsVerifies
  <2>. QED
    BY <2>3 DEF l
<1>9. VerifyOffsetAt(mem, 0) /\ GetRoot(mem) = Position(mem, root)
  <2>1. Position(mem, l) = 0
    BY <1>3 DEF Position
  <2>. HIDE DEF l
  <2>. QED
    BY <1>8, <2>1 DEF GetRoot
<1>10. l >= MinBufferSize
  <2>. DEFINE f == Schema[Envelope][4]
              v == o.off
  <2>1. PICK vt \in Int, slots \in Seq(Byte) : LaidOut(mem, root, Envelope, value, vt, slots)
    BY <1>2 DEF TableIn
  <2>2. root % 4 = 0
    BY <2>1 DEF LaidOut
  <2>3. v \in Nat /\ 4 <= v
    BY ObjectAbove DEF Complete
  <2>4. f.kind = "union" /\ v = value[4]
    BY <1>2, <1>4
  <2>5. \/ AddedIn(mem, root, slots, f, Voffset(4), v)
        \/ NotAdded(slots, f, Voffset(4), v)
    BY <1>4, <2>1, <2>4 DEF LaidOut
  <2>. HIDE DEF f, v, l
  <2>6. ~NotAdded(slots, f, Voffset(4), v)
    BY <2>3, <2>4 DEF NotAdded, Default
  <2>7. PICK at \in Int : root - at >= 1 /\ FieldIn(mem, f, at, v)
    BY <2>5, <2>6 DEF AddedIn
  <2>8. v < at
    BY <2>4, <2>7 DEF FieldIn, Leads
  <2>9. root < l
    BY <1>8
  <2>10. root >= 8
    BY <1>7, <2>2, <2>3, <2>7, <2>8
  <2>11. l >= 12
    BY <1>3, <1>7, <2>2, <2>9, <2>10
  <2>. QED
    BY <2>11 DEF MinBufferSize
<1>. DEFINE t == [type |-> Envelope, table |-> Position(mem, root), left |-> left]
<1>11. left \in depth[Envelope] .. MaxDepth /\ depth[Envelope] - 1 \in Nat /\ left \in 0 .. MaxDepth
  BY <1>4, DepthOf
<1>12. Len(mem) % 4 = 0 /\ root < Len(mem)
  BY <1>3, <1>8
<1>. HIDE DEF left, verify, l
<1>13. Accepts(mem, objs, depth, verify, depth[Envelope] - 1)
  BY <1>11, <1>12, AllVerify DEF verify
<1>14. VerifyTable(mem, t, verify)
  BY <1>2, <1>4, <1>5, <1>6, <1>11, <1>12, <1>13, TableVerifies
<1>15. t \in Visits(mem)
  BY <1>4, <1>8, <1>11 DEF Visits, l
<1>. HIDE DEF t
<1>16. verify[t]
  BY <1>14, <1>15, VerifyTablesUnfolds DEF verify
<1>17. VerifyRoot(mem, Envelope, GetRoot(mem))
  BY <1>9, <1>16 DEF VerifyRoot, verify, t, left
<1>. QED
  BY <1>9, <1>10, <1>17 DEF VerifyBuffer, l

LEMMA SentIsVerified ==
  ASSUME NEW depth, Nests(depth), ReadInv, RefInv, SentInv
  PROVE  SentVerifies
<1>. SUFFICES ASSUME sent.made = TRUE
              PROVE  VerifyBuffer(MessageEnvelope(sent.msg), Envelope)
  BY DEF SentVerifies
<1>. DEFINE mem == Data(bld.buf)
            msg == sent.msg
            v == sent.effectId
            m == sent
<1>1. /\ m.message.type \in Range(UnionTypes[Message]) /\ m.message.kind = "table"
      /\ m.message \in objects /\ Shows(mem, m)
      /\ IsInt32(v) /\ msg = Bytes(v, 4) \o mem
  BY DEF SentInv, CopyBuffer
<1>2. mem \in Seq(Byte)
  BY DEF ReadInv, BuildInv, Sound, Fine
<1>3. Complete(mem, objects)
  BY DEF ReadInv, RefInv, Holds, Stored, Complete
<1>. HIDE DEF mem, msg, v, m
<1>4. MessageEnvelope(msg) = mem
  BY <1>1, <1>2, ReceivedBytes
<1>5. VerifyBuffer(mem, Envelope)
  BY <1>1, <1>2, <1>3, ShownVerifies
<1>. QED
  BY <1>4, <1>5 DEF msg

\* The Verifier accepts every message that make_message makes, if no more than
\* max_depth tables of the schema are in each other.
THEOREM SentVerifiesHolds ==
  ASSUME NEW CONSTANT depth, Nests(depth)
  PROVE  Spec /\ []LimitsKept => []SentVerifies
<1>1. ReadInv /\ RefInv /\ SentInv => SentVerifies
  BY SentIsVerified
<1>. QED
  BY <1>1, ReadInvHolds, RefInvHolds, SentInvHolds, PTL

----------------------------------------------------------------------------
(* What is sorted is found.                                                *)

\* less compares the elements of a sequence of length n by their keys.
ByKey(less, n, key) ==
  /\ key \in [1 .. n -> Int]
  /\ \A i, j \in 1 .. n : <<i, j>> \in less <=> key[i] < key[j]

\* std::stable_sort leaves equal elements in the order they had.
Precedes(key, i, j) == key[i] < key[j] \/ (key[i] = key[j] /\ i < j)

Lower(n, key, i) == {j \in 1 .. n : Precedes(key, j, i)}

RankIn(n, key, i) == 1 + Cardinality(Lower(n, key, i))

LEMMA RanksAre ==
  ASSUME NEW n \in Nat, NEW key \in [1 .. n -> Int], NEW i \in 1 .. n
  PROVE  /\ IsFiniteSet(Lower(n, key, i)) /\ Cardinality(Lower(n, key, i)) \in Nat
         /\ RankIn(n, key, i) \in 1 .. n
<1>. DEFINE others == (1 .. n) \ {i}
            lower == Lower(n, key, i)
<1>1. IsFiniteSet(1 .. n) /\ Cardinality(1 .. n) = n
  <2>1. 1 \in Int /\ n \in Int
    OBVIOUS
  <2>2. IsFiniteSet(1 .. n) /\ Cardinality(1 .. n) = IF 1 > n THEN 0 ELSE n - 1 + 1
    BY <2>1, FS_Interval
  <2>. QED
    BY <2>2
<1>2. IsFiniteSet(others) /\ Cardinality(others) = n - 1
  BY <1>1, FS_RemoveElement
<1>3. lower \in SUBSET others
  <2>1. ~Precedes(key, i, i)
    <3>1. key[i] \in Int
      OBVIOUS
    <3>. QED
      BY <3>1 DEF Precedes
  <2>. QED
    BY <2>1 DEF Lower
<1>. HIDE DEF others, lower
<1>4. IsFiniteSet(lower) /\ Cardinality(lower) <= n - 1
  BY <1>2, <1>3, FS_Subset
<1>5. Cardinality(lower) \in Nat
  BY <1>4, FS_CardinalityType
<1>6. 1 + Cardinality(lower) \in 1 .. n
  BY <1>4, <1>5
<1>. QED
  BY <1>4, <1>5, <1>6 DEF RankIn, lower

\* Of two elements the one that precedes the other has the lower rank.
LEMMA RanksGrow ==
  ASSUME NEW n \in Nat, NEW key \in [1 .. n -> Int], NEW i \in 1 .. n, NEW j \in 1 .. n,
         Precedes(key, i, j)
  PROVE  RankIn(n, key, i) < RankIn(n, key, j)
<1>. DEFINE a == Lower(n, key, i)
            b == Lower(n, key, j)
<1>1. key[i] \in Int /\ key[j] \in Int
  OBVIOUS
<1>2. a \in SUBSET (b \ {i})
  <2>1. ASSUME NEW k \in 1 .. n, Precedes(key, k, i)
        PROVE  Precedes(key, k, j) /\ k # i
    <3>1. key[k] \in Int
      OBVIOUS
    <3>. QED
      BY <1>1, <2>1, <3>1 DEF Precedes
  <2>. QED
    BY <2>1 DEF Lower
<1>3. i \in b
  BY DEF Lower
<1>4. /\ IsFiniteSet(a) /\ Cardinality(a) \in Nat
      /\ IsFiniteSet(b) /\ Cardinality(b) \in Nat
  BY RanksAre
<1>. HIDE DEF a, b
<1>5. IsFiniteSet(b \ {i}) /\ Cardinality(b \ {i}) = Cardinality(b) - 1
  BY <1>3, <1>4, FS_RemoveElement
<1>6. Cardinality(a) <= Cardinality(b) - 1
  BY <1>2, <1>5, FS_Subset
<1>7. 1 + Cardinality(a) < 1 + Cardinality(b)
  BY <1>4, <1>6
<1>. QED
  BY <1>7 DEF RankIn, a, b

\* Every rank is the rank of one element.
LEMMA RanksTaken ==
  ASSUME NEW n \in Nat, NEW key \in [1 .. n -> Int]
  PROVE  /\ \A k \in 1 .. n : \E i \in 1 .. n : RankIn(n, key, i) = k
         /\ \A i, j \in 1 .. n : RankIn(n, key, i) = RankIn(n, key, j) => i = j
<1>. DEFINE D == 1 .. n
            rank == [i \in D |-> RankIn(n, key, i)]
<1>1. rank \in [D -> D]
  BY RanksAre
<1>2. ASSUME NEW i \in D, NEW j \in D, i # j
      PROVE  RankIn(n, key, i) # RankIn(n, key, j)
  <2>1. Precedes(key, i, j) \/ Precedes(key, j, i)
    <3>1. key[i] \in Int /\ key[j] \in Int
      OBVIOUS
    <3>. QED
      BY <1>2, <3>1 DEF Precedes
  <2>2. RankIn(n, key, i) \in 1 .. n /\ RankIn(n, key, j) \in 1 .. n
    BY RanksAre
  <2>3. RankIn(n, key, i) < RankIn(n, key, j) \/ RankIn(n, key, j) < RankIn(n, key, i)
    BY <2>1, RanksGrow
  <2>. QED
    BY <2>2, <2>3
<1>3. rank \in Injection(D, D)
  BY <1>1, <1>2 DEF Injection, IsInjective
<1>4. IsFiniteSet(D)
  BY FS_Interval
<1>. HIDE DEF rank, D
<1>5. rank \in Surjection(D, D)
  BY <1>3, <1>4, FS_Injection
<1>6. \A k \in D : \E i \in D : rank[i] = k
  BY <1>5 DEF Surjection
<1>. QED
  BY <1>2, <1>6 DEF rank, D

\* seq in the order of the keys, by way of p: equal ones as they were.
SortedBy(seq, sorted, key, p) ==
  /\ p \in Bijection(DOMAIN seq, DOMAIN seq)
  /\ sorted = [k \in DOMAIN seq |-> seq[p[k]]]
  /\ \A i, j \in DOMAIN seq : i < j => Precedes(key, p[i], p[j])

\* CreateVectorOfSortedStructs and CreateVectorOfSortedTables sort as std::stable_sort
\* does: all elements and no others, none before one of a lower key, and those of
\* equal keys in the order they had.
THEOREM StableSortSorts ==
  ASSUME NEW n \in Nat, NEW seq, DOMAIN seq = 1 .. n, NEW less, NEW key, ByKey(less, n, key)
  PROVE  \E p : SortedBy(seq, StableSort(seq, less), key, p)
<1>. DEFINE D == 1 .. n
            rank(i) == RankIn(n, key, i)
            p == [k \in D |-> CHOOSE i \in D : rank(i) = k]
<1>0. key \in [1 .. n -> Int] /\ \A i, j \in D : <<i, j>> \in less <=> key[i] < key[j]
  BY DEF ByKey
<1>1. /\ \A k \in D : \E i \in D : rank(i) = k
      /\ \A i, j \in D : rank(i) = rank(j) => i = j
      /\ \A i \in D : rank(i) \in D
  BY <1>0, RanksAre, RanksTaken
<1>2. ASSUME NEW i \in D
      PROVE  1 + Cardinality({j \in DOMAIN seq : j # i /\
               (<<j, i>> \in less \/ (<<i, j>> \notin less /\ j < i))}) = rank(i)
  <2>1. ASSUME NEW j \in D
        PROVE  (j # i /\ (<<j, i>> \in less \/ (<<i, j>> \notin less /\ j < i))) <=>
                 Precedes(key, j, i)
    <3>1. key[i] \in Int /\ key[j] \in Int
      BY <1>0
    <3>2. (<<j, i>> \in less <=> key[j] < key[i]) /\ (<<i, j>> \in less <=> key[i] < key[j])
      BY <1>0
    <3>. QED
      BY <3>1, <3>2 DEF Precedes
  <2>2. {j \in DOMAIN seq : j # i /\ (<<j, i>> \in less \/ (<<i, j>> \notin less /\ j < i))}
          = Lower(n, key, i)
    BY <2>1 DEF Lower
  <2>. QED
    BY <2>2 DEF RankIn
<1>. HIDE DEF rank, D
<1>3. StableSort(seq, less) = [k \in D |-> seq[p[k]]]
  <2>. DEFINE rank1(i) == 1 + Cardinality({j \in DOMAIN seq : j # i /\
                            (<<j, i>> \in less \/ (<<i, j>> \notin less /\ j < i))})
              pick1(k) == CHOOSE i \in D : rank1(i) = k
              pick(k) == CHOOSE i \in D : rank(i) = k
  <2>1. StableSort(seq, less) = [k \in D |-> seq[pick1(k)]]
    BY DEF StableSort, D
  <2>2. \A i \in D : rank1(i) = rank(i)
    BY <1>2
  <2>. HIDE DEF rank1
  <2>3. \A k : pick1(k) = pick(k)
    BY <2>2
  <2>4. \A k \in D : p[k] = pick(k)
    OBVIOUS
  <2>. HIDE DEF pick1, pick, p
  <2>. QED
    BY <2>1, <2>3, <2>4
<1>4. \A k \in D : p[k] \in D /\ rank(p[k]) = k
  BY <1>1
<1>. HIDE DEF p
<1>5. p \in [D -> D]
  <2>1. p = [k \in D |-> p[k]]
    BY DEF p
  <2>. QED
    BY <1>4, <2>1
<1>6. p \in Injection(D, D)
  BY <1>4, <1>5 DEF Injection, IsInjective
<1>7. p \in Surjection(D, D)
  <2>1. ASSUME NEW i \in D
        PROVE  \E k \in D : p[k] = i
    <3>1. rank(i) \in D /\ rank(p[rank(i)]) = rank(i) /\ p[rank(i)] \in D
      BY <1>1, <1>4
    <3>. QED
      BY <1>1, <3>1
  <2>. QED
    BY <1>5, <2>1 DEF Surjection
<1>8. ASSUME NEW i \in D, NEW j \in D, i < j
      PROVE  Precedes(key, p[i], p[j])
  <2>1. p[i] \in D /\ p[j] \in D /\ rank(p[i]) = i /\ rank(p[j]) = j
    BY <1>4
  <2>2. i \in Int /\ j \in Int
    BY DEF D
  <2>3. ~Precedes(key, p[j], p[i])
    <3>1. ~(rank(p[j]) < rank(p[i]))
      BY <1>8, <2>1, <2>2
    <3>. QED
      BY <1>0, <2>1, <3>1, RanksGrow DEF rank, D
  <2>4. p[i] # p[j]
    BY <1>8, <2>1, <2>2
  <2>5. key[p[i]] \in Int /\ key[p[j]] \in Int /\ p[i] \in Int /\ p[j] \in Int
    BY <1>0, <2>1 DEF D
  <2>. QED
    BY <2>3, <2>4, <2>5 DEF Precedes
<1>9. DOMAIN seq = D
  BY DEF D
<1>10. SortedBy(seq, StableSort(seq, less), key, p)
  BY <1>3, <1>6, <1>7, <1>8, <1>9 DEF SortedBy, Bijection
<1>. QED
  BY <1>10

\* What bsearch finds between l and u.
FoundIn(keys, key, l, u, at) ==
  IF \E k \in l + 1 .. u : keys[k] = key THEN at \in l + 1 .. u /\ keys[at] = key ELSE at = 0

\* LookupByKey finds an element with the key, if there is one, and nothing else:
\* halving a vector in the order of its keys loses none.
THEOREM LookupFinds ==
  ASSUME NEW keys \in Seq(Int), NEW key \in Int,
         \A i, j \in 1 .. Len(keys) : i < j => keys[i] <= keys[j]
  PROVE  FoundIn(keys, key, 0, Len(keys), LookupByKey(keys, key))
<1>. DEFINE n == Len(keys)
            D == 0 .. n
            S == D \X D
            mid(l, u) == (l + u) \div 2
            Halved(f, l, u) == IF l >= u THEN 0
                               ELSE IF key = keys[mid(l, u) + 1] THEN mid(l, u) + 1
                               ELSE IF key < keys[mid(l, u) + 1] THEN f[<<l, mid(l, u)>>]
                               ELSE f[<<mid(l, u) + 1, u>>]
            Solves(f) == f = [x \in S |-> Halved(f, x[1], x[2])]
            rank == [x \in S |-> IF x[1] >= x[2] THEN 0 ELSE x[2] - x[1]]
            top == n + 1
            F == [y \in S \X [S -> D] |-> Halved(y[2], y[1][1], y[1][2])]
<1>1. n \in Nat /\ \A k \in 1 .. n : keys[k] \in Int
  BY LenProperties, ElementOfSeq
<1>2. ASSUME NEW l \in D, NEW u \in D, l < u
      PROVE  /\ mid(l, u) \in D /\ l <= mid(l, u) /\ mid(l, u) < u
             /\ mid(l, u) + 1 \in 1 .. n /\ mid(l, u) + 1 \in D
  BY <1>1, <1>2
<1>. HIDE DEF n, mid
<1>a. \A l, u \in D : l >= u \/ l < u
  BY <1>1
<1>3. F \in [S \X [S -> D] -> D]
  <2>1. ASSUME NEW l \in D, NEW u \in D, NEW g \in [S -> D]
        PROVE  Halved(g, l, u) \in D
    <3>1. 0 \in D
      BY <1>1
    <3>2. CASE l >= u
      BY <3>1, <3>2
    <3>3. CASE l < u
      <4>1. mid(l, u) \in D /\ mid(l, u) + 1 \in D
        BY <1>2, <3>3
      <4>2. g[<<l, mid(l, u)>>] \in D /\ g[<<mid(l, u) + 1, u>>] \in D
        BY <4>1
      <4>. QED
        BY <3>1, <4>1, <4>2
    <3>. HIDE DEF Halved, D
    <3>. QED
      BY <1>a, <3>2, <3>3
  <2>. HIDE DEF Halved, D
  <2>. QED
    BY <2>1
<1>4. rank \in [S -> Nat] /\ top \in Nat /\ \A x \in S : rank[x] < top
  BY <1>1
<1>5. ASSUME NEW x \in S, NEW g \in [S -> D], NEW h \in [S -> D],
             \A y \in S : rank[y] < rank[x] => g[y] = h[y]
      PROVE  F[<<x, g>>] = F[<<x, h>>]
  <2>1. PICK l \in D, u \in D : x = <<l, u>>
    OBVIOUS
  <2>2. Halved(g, l, u) = Halved(h, l, u)
    <3>1. CASE l >= u
      BY <3>1
    <3>2. CASE l < u
      <4>1. /\ mid(l, u) \in D /\ l <= mid(l, u) /\ mid(l, u) < u /\ mid(l, u) + 1 \in D
        BY <1>2, <3>2
      <4>2. <<l, mid(l, u)>> \in S /\ <<mid(l, u) + 1, u>> \in S
        BY <4>1
      <4>3. /\ rank[<<l, mid(l, u)>>] < rank[x]
            /\ rank[<<mid(l, u) + 1, u>>] < rank[x]
        BY <1>1, <2>1, <3>2, <4>1
      <4>4. /\ g[<<l, mid(l, u)>>] = h[<<l, mid(l, u)>>]
            /\ g[<<mid(l, u) + 1, u>>] = h[<<mid(l, u) + 1, u>>]
        BY <1>5, <4>2, <4>3
      <4>. QED
        BY <4>4
    <3>. HIDE DEF Halved, D
    <3>. QED
      BY <1>a, <3>1, <3>2
  <2>3. F[<<x, g>>] = Halved(g, l, u) /\ F[<<x, h>>] = Halved(h, l, u)
    <3>. HIDE DEF Halved, D
    <3>. QED
      BY <2>1
  <2>. QED
    BY <2>2, <2>3
<1>6. \E f : Solves(f)
  <2>1. Ranked(S, D, F, rank, top)
    <3>. HIDE DEF F, rank, S, D, top
    <3>. QED
      BY <1>3, <1>4, <1>5 DEF Ranked
  <2>2. 0 \in D
    BY <1>1
  <2>3. Solvable(S, D, F)
    <3>. HIDE DEF F, rank, S, D, top
    <3>. QED
      BY <2>1, <2>2, Recursion
  <2>4. PICK g \in [S -> D] : \A x \in S : g[x] = F[<<x, g>>]
    BY <2>3 DEF Solvable
  <2>5. \A x \in S : g[x] = Halved(g, x[1], x[2])
    <3>. HIDE DEF Halved, D
    <3>. QED
      BY <2>4
  <2>. HIDE DEF Halved, S, F
  <2>6. g = [x \in S |-> Halved(g, x[1], x[2])]
    BY <2>5
  <2>. QED
    BY <2>6
<1>. DEFINE search == CHOOSE f : Solves(f)
<1>7. LookupByKey(keys, key) = search[<<0, n>>]
  BY DEF LookupByKey, n, mid
<1>8. Solves(search)
  <2>. HIDE DEF Solves
  <2>. QED
    BY <1>6
<1>. HIDE DEF search
<1>9. \A l, u \in D : search[<<l, u>>] = Halved(search, l, u)
  <2>. HIDE DEF Halved, D
  <2>1. ASSUME NEW l \in D, NEW u \in D
        PROVE  search[<<l, u>>] = Halved(search, l, u)
    <3>1. <<l, u>> \in S
      OBVIOUS
    <3>2. search[<<l, u>>] = Halved(search, <<l, u>>[1], <<l, u>>[2])
      <4>. HIDE DEF S
      <4>. QED
        BY <1>8, <3>1
    <3>. QED
      BY <3>2
  <2>. QED
    BY <2>1
<1>b. \A l, u \in D : /\ l >= u => search[<<l, u>>] = 0
                      /\ ~(l >= u) => search[<<l, u>>] =
                           IF key = keys[mid(l, u) + 1] THEN mid(l, u) + 1
                           ELSE IF key < keys[mid(l, u) + 1] THEN search[<<l, mid(l, u)>>]
                           ELSE search[<<mid(l, u) + 1, u>>]
  BY <1>9
<1>. DEFINE Right(m) == \A l, u \in D : u - l <= m => FoundIn(keys, key, l, u, search[<<l, u>>])
            Reached == {m \in Nat : Right(m)}
<1>. HIDE DEF F, rank, S, top, Halved
<1>10. Right(0)
  <2>1. ASSUME NEW l \in D, NEW u \in D, u - l <= 0
        PROVE  FoundIn(keys, key, l, u, search[<<l, u>>])
    <3>1. l >= u /\ ~(\E k \in l + 1 .. u : TRUE)
      BY <1>1, <2>1
    <3>2. search[<<l, u>>] = 0
      BY <1>b, <3>1
    <3>. QED
      BY <3>1, <3>2 DEF FoundIn
  <2>. QED
    BY <2>1
<1>11. ASSUME NEW m \in Nat, Right(m)
       PROVE  Right(m + 1)
  <2>. SUFFICES ASSUME NEW l \in D, NEW u \in D, u - l <= m + 1
                PROVE  FoundIn(keys, key, l, u, search[<<l, u>>])
    OBVIOUS
  <2>. DEFINE c == mid(l, u)
  <2>1. CASE l >= u
    <3>1. u - l <= m
      BY <1>1, <2>1
    <3>. QED
      BY <1>11, <3>1
  <2>2. CASE l < u
    <3>1. /\ c \in D /\ l <= c /\ c < u /\ c + 1 \in 1 .. n /\ c + 1 \in D
      BY <1>2, <2>2
    <3>2. search[<<l, u>>] = IF key = keys[c + 1] THEN c + 1
                         ELSE IF key < keys[c + 1] THEN search[<<l, c>>] ELSE search[<<c + 1, u>>]
      <4>1. ~(l >= u)
        BY <1>1, <2>2
      <4>. HIDE DEF D
      <4>. QED
        BY <1>b, <4>1
    <3>. HIDE DEF c
    <3>3. keys[c + 1] \in Int
      BY <1>1, <3>1
    <3>4. CASE key = keys[c + 1]
      <4>1. c + 1 \in l + 1 .. u /\ search[<<l, u>>] = c + 1
        BY <1>1, <3>1, <3>2, <3>4
      <4>. QED
        BY <3>4, <4>1 DEF FoundIn
    <3>5. CASE key < keys[c + 1]
      <4>1. search[<<l, u>>] = search[<<l, c>>] /\ c - l <= m
        BY <1>1, <3>1, <3>2, <3>3, <3>5
      <4>2. FoundIn(keys, key, l, c, search[<<l, u>>])
        BY <1>11, <3>1, <4>1
      <4>3. ASSUME NEW k \in l + 1 .. u, keys[k] = key
            PROVE  k \in l + 1 .. c
        <5>1. k \in 1 .. n /\ k \in Int
          BY <1>1
        <5>2. c + 1 < k => keys[c + 1] <= keys[k]
          BY <3>1, <5>1 DEF n
        <5>3. k # c + 1 /\ ~(c + 1 < k)
          BY <1>1, <3>3, <3>5, <4>3, <5>1, <5>2
        <5>. QED
          BY <1>1, <3>1, <5>1, <5>3
      <4>4. l + 1 .. c \subseteq l + 1 .. u
        BY <1>1, <3>1
      <4>. QED
        BY <4>2, <4>3, <4>4 DEF FoundIn
    <3>6. CASE keys[c + 1] < key
      <4>1. search[<<l, u>>] = search[<<c + 1, u>>] /\ u - (c + 1) <= m
        BY <1>1, <3>1, <3>2, <3>3, <3>6
      <4>2. FoundIn(keys, key, c + 1, u, search[<<l, u>>])
        BY <1>11, <3>1, <4>1
      <4>3. ASSUME NEW k \in l + 1 .. u, keys[k] = key
            PROVE  k \in (c + 1) + 1 .. u
        <5>1. k \in 1 .. n /\ k \in Int
          BY <1>1
        <5>2. k < c + 1 => keys[k] <= keys[c + 1]
          BY <3>1, <5>1 DEF n
        <5>3. k # c + 1 /\ ~(k < c + 1)
          BY <1>1, <3>3, <3>6, <4>3, <5>1, <5>2
        <5>. QED
          BY <1>1, <3>1, <5>1, <5>3
      <4>4. (c + 1) + 1 .. u \subseteq l + 1 .. u
        BY <1>1, <3>1
      <4>. QED
        BY <4>2, <4>3, <4>4 DEF FoundIn
    <3>. QED
      BY <3>3, <3>4, <3>5, <3>6
  <2>. QED
    BY <1>1, <2>1, <2>2
<1>12. n \in Reached
  <2>1. 0 \in Reached
    BY <1>10
  <2>2. \A m \in Nat : m \in Reached => m + 1 \in Reached
    <3>. HIDE DEF Right
    <3>. QED
      BY <1>11
  <2>. HIDE DEF Reached
  <2>. QED
    BY <1>1, <2>1, <2>2, SetInduction
<1>13. FoundIn(keys, key, 0, n, search[<<0, n>>])
  BY <1>1, <1>12
<1>. QED
  BY <1>7, <1>13 DEF n

KeysBy(n, key, p) == [k \in 1 .. n |-> key[p[k]]]

\* A vector that was sorted by its keys is searched by them without missing one.
LEMMA SortedIsFound ==
  ASSUME NEW n \in Nat, NEW seq, DOMAIN seq = 1 .. n, NEW sorted, NEW key \in [1 .. n -> Int],
         NEW p, SortedBy(seq, sorted, key, p),
         NEW value \in Int
  PROVE  LookupByKey(KeysBy(n, key, p), value) # 0 <=> \E i \in 1 .. n : key[i] = value
<1>. DEFINE keys == [k \in 1 .. n |-> key[p[k]]]
<1>1. /\ p \in [1 .. n -> 1 .. n]
      /\ \A i \in 1 .. n : \E k \in 1 .. n : p[k] = i
      /\ \A i, j \in 1 .. n : i < j => Precedes(key, p[i], p[j])
  BY DEF SortedBy, Bijection, Injection, Surjection
<1>2. keys \in Seq(Int) /\ Len(keys) = n
  <2>1. \A k \in 1 .. n : key[p[k]] \in Int
    BY <1>1
  <2>2. keys \in [1 .. n -> Int]
    BY <2>1
  <2>3. keys \in Seq(Int)
    BY <2>2, SeqDef
  <2>. QED
    BY <2>2, <2>3, LenProperties
<1>3. \A i, j \in 1 .. n : i < j => keys[i] <= keys[j]
  <2>1. ASSUME NEW i \in 1 .. n, NEW j \in 1 .. n, i < j
        PROVE  keys[i] <= keys[j]
    <3>1. Precedes(key, p[i], p[j])
      BY <1>1, <2>1
    <3>2. keys[i] = key[p[i]] /\ keys[j] = key[p[j]] /\ keys[i] \in Int /\ keys[j] \in Int
      BY <1>1
    <3>. QED
      BY <3>1, <3>2 DEF Precedes
  <2>. QED
    BY <2>1
<1>. DEFINE at == LookupByKey(keys, value)
<1>. HIDE DEF keys
<1>4. FoundIn(keys, value, 0, n, at)
  BY <1>2, <1>3, LookupFinds
<1>. HIDE DEF at
<1>5. at # 0 <=> \E k \in 0 + 1 .. n : keys[k] = value
  BY <1>4 DEF FoundIn
<1>6. (\E k \in 0 + 1 .. n : keys[k] = value) <=> \E i \in 1 .. n : key[i] = value
  <2>1. ASSUME NEW k \in 0 + 1 .. n, keys[k] = value
        PROVE  p[k] \in 1 .. n /\ key[p[k]] = value
    BY <1>1, <2>1 DEF keys
  <2>2. ASSUME NEW i \in 1 .. n, key[i] = value
        PROVE  \E k \in 0 + 1 .. n : keys[k] = value
    <3>1. PICK k \in 1 .. n : p[k] = i
      BY <1>1
    <3>2. k \in 0 + 1 .. n /\ keys[k] = value
      BY <2>2, <3>1 DEF keys
    <3>. QED
      BY <3>2
  <2>. QED
    BY <2>1, <2>2
<1>. QED
  BY <1>5, <1>6 DEF at, keys, KeysBy

\* CreateVectorOfSortedStructs and LookupByKey agree on the order: in a vector of any
\* structs that was sorted, a key is found if and only if one of them has it.
THEOREM SortedStructsFound ==
  ASSUME NEW structs \in Seq(Seq(Byte)), \A i \in 1 .. Len(structs) : Len(structs[i]) >= 2,
         NEW value \in Int
  PROVE  LET sorted == SortByKey(structs)
             keys   == [k \in DOMAIN sorted |-> StructKey(sorted[k])]
         IN  LookupByKey(keys, value) # 0 <=>
               \E i \in 1 .. Len(structs) : StructKey(structs[i]) = value
<1>. DEFINE n == Len(structs)
            key == [i \in 1 .. n |-> StructKey(structs[i])]
            less == {q \in Pairs(structs) :
                       StructKey(structs[q[1]]) < StructKey(structs[q[2]])}
            sorted == SortByKey(structs)
            keys == [k \in DOMAIN sorted |-> StructKey(sorted[k])]
<1>1. n \in Nat /\ DOMAIN structs = 1 .. n /\ \A i \in 1 .. n : structs[i] \in Seq(Byte)
  BY LenProperties, ElementOfSeq
<1>2. key \in [1 .. n -> Int]
  <2>1. ASSUME NEW i \in 1 .. n
        PROVE  StructKey(structs[i]) \in Int
    <3>1. structs[i] \in Seq(Byte) /\ Len(structs[i]) \in Nat /\ Len(structs[i]) >= 2
      BY <1>1, LenProperties
    <3>2. \A j \in 1 .. 2 : structs[i][0 + j] \in Byte
      BY <3>1, ElementOfSeq
    <3>3. ReadScalar(structs[i], 0, 2) \in Int
      BY <3>2, ReadsInt
    <3>. QED
      BY <3>3 DEF StructKey
  <2>. QED
    BY <2>1
<1>3. ByKey(less, n, key)
  <2>1. ASSUME NEW i \in 1 .. n, NEW j \in 1 .. n
        PROVE  <<i, j>> \in less <=> key[i] < key[j]
    BY <1>1 DEF Pairs
  <2>. HIDE DEF less, key
  <2>. QED
    BY <1>2, <2>1 DEF ByKey
<1>4. sorted = StableSort(structs, less)
  BY DEF SortByKey
<1>5. PICK p : SortedBy(structs, sorted, key, p)
  <2>. HIDE DEF less, key, sorted, n
  <2>. QED
    BY <1>1, <1>3, <1>4, StableSortSorts
<1>. HIDE DEF sorted, less
<1>6. /\ p \in [1 .. n -> 1 .. n]
      /\ sorted = [k \in 1 .. n |-> structs[p[k]]]
  BY <1>1, <1>5 DEF SortedBy, Bijection, Injection
<1>7. keys = [k \in 1 .. n |-> key[p[k]]]
  BY <1>6
<1>8. LookupByKey(keys, value) # 0 <=> \E i \in 1 .. n : key[i] = value
  <2>. HIDE DEF key, keys, n
  <2>. QED
    <3>1. LookupByKey(KeysBy(n, key, p), value) # 0 <=> \E i \in 1 .. n : key[i] = value
      BY ONLY <1>1, <1>2, <1>5, SortedIsFound, value \in Int
    <3>. QED
      BY <1>7, <3>1 DEF KeysBy
<1>9. (\E i \in 1 .. n : key[i] = value) <=> \E i \in 1 .. n : StructKey(structs[i]) = value
  OBVIOUS
<1>. QED
  <2>. HIDE DEF key
  <2>. QED
    BY <1>8, <1>9 DEF sorted
============================================================================
