------------------------- MODULE BuilderMemoryProofs -----------------------
(***************************************************************************)
(* Proofs about what is in the memory of a builder, and whose memory it    *)
(* is, each for any sizes.  DownwardStacks: whatever is pushed, popped and *)
(* cleared, the data and the scratch pad never cross and a vector_downward *)
(* is two stacks.  BufferOwnership: for any number of builders, blocks,    *)
(* allocators and released buffers, every block has one owner.             *)
(***************************************************************************)
EXTENDS DownwardStacks, VectorDownwardProofs, BufferOwnership

----------------------------------------------------------------------------
(* What is in the memory: DownwardStacks.                                  *)

ByteCell == Byte \cup {Undefined}

LEMMA UndefinedIsByteCell == Undefined \in ByteCell
  BY DEF ByteCell

LEMMA ContentsAreCells ==
  ASSUME NEW bytes \in Contents
  PROVE  bytes \in Seq(ByteCell)
<1>1. bytes \in Seq(Byte) /\ Byte \subseteq ByteCell
  BY StacksAssumption DEF ByteCell
<1>2. DOMAIN bytes = 1 .. Len(bytes) /\ Len(bytes) \in Nat
  BY <1>1, LenProperties
<1>3. bytes \in [1 .. Len(bytes) -> ByteCell]
  BY <1>1, <1>2
<1>. QED
  BY <1>2, <1>3, SeqDef

\* Each operation leaves a good vector and is a step of two stacks.
LEMMA StackStep ==
  ASSUME Good(vec, ByteCell), [Next]_vec
  PROVE  Good(vec', ByteCell) /\ [Stacks!Next]_<<Data(vec), Scratch(vec)>>
<1>1. ASSUME NEW bytes \in Contents, push(bytes)
      PROVE  Good(vec', ByteCell) /\ Stacks!Push
  BY <1>1, ContentsAreCells, UndefinedIsByteCell, Pushed DEF push, Stacks!Push
<1>2. ASSUME NEW bytes \in Contents, scratch_push_small(bytes)
      PROVE  Good(vec', ByteCell) /\ Stacks!ScratchPush
  BY <1>2, ContentsAreCells, UndefinedIsByteCell, ScratchPushed DEF scratch_push_small, Stacks!ScratchPush
<1>3. ASSUME NEW n \in 1 .. MaxBytes, pop(n)
      PROVE  Good(vec', ByteCell) /\ Stacks!Pop
  <2>1. n \in Nat /\ vec.size \in Nat /\ n \in 1 .. vec.size
    BY <1>3, StacksAssumption DEF pop, Good
  <2>2. Len(Data(vec)) = vec.size
    BY UndefinedIsByteCell, GoodStacks
  <2>. QED
    BY <1>3, <2>1, <2>2, UndefinedIsByteCell, Popped DEF pop, Stacks!Pop
<1>4. ASSUME NEW n \in 1 .. MaxBytes, scratch_pop(n)
      PROVE  Good(vec', ByteCell) /\ Stacks!ScratchPop
  <2>1. n \in Nat /\ vec.scratch \in Nat /\ n \in 1 .. vec.scratch
    BY <1>4, StacksAssumption DEF scratch_pop, Good
  <2>2. Len(Scratch(vec)) = vec.scratch
    BY UndefinedIsByteCell, GoodStacks
  <2>. QED
    BY <1>4, <2>1, <2>2, UndefinedIsByteCell, ScratchPopped DEF scratch_pop, Stacks!ScratchPop
<1>5. CASE clear_scratch
  BY <1>5, UndefinedIsByteCell, ScratchCleared DEF clear_scratch, Stacks!Next, Stacks!ClearScratch
<1>6. CASE clear
  BY <1>6, UndefinedIsByteCell, Cleared DEF clear, Stacks!Next, Stacks!Clear
<1>7. CASE reset
  BY <1>7, UndefinedIsByteCell, WasReset DEF reset, Stacks!Next, Stacks!Clear
<1>8. CASE UNCHANGED vec
  BY <1>8 DEF Good, Data, Scratch
<1>. QED
  BY <1>1, <1>2, <1>3, <1>4, <1>5, <1>6, <1>7, <1>8 DEF Next, Stacks!Next

\* A vector_downward implements two stacks that do not disturb each other, and
\* cur_ and scratch_ never cross, for memory of any size and alignment.
THEOREM IsTwoStacksHolds == Spec => IsTwoStacks
<1>1. Init => Good(vec, ByteCell) /\ Stacks!Init
  BY EmptyGood DEF Init, Stacks!Init
<1>2. Good(vec, ByteCell) /\ [Next]_vec => Good(vec, ByteCell)' /\ [Stacks!Next]_<<Data(vec), Scratch(vec)>>
  BY StackStep
<1>3. Good(vec, ByteCell) => NeverCross
  BY DEF Good, NeverCross
<1>. QED
  BY <1>1, <1>2, <1>3, PTL DEF Spec, IsTwoStacks, Stacks!Spec

----------------------------------------------------------------------------
(* Whose memory it is: BufferOwnership.                                    *)

Slots == Builders \cup MessageSlots
Cell  == Objects \cup {Unwritten}

\* A released buffer that deallocates its block.
Solid(h) == h.kind \in {"detached", "raw"}

\* In the operators that follow B, S, H, M and A are the builders, slices,
\* released buffers, blocks and allocators of a state.
Types(B, S, H, M, A) ==
  /\ B \in [Slots -> Vector]
  /\ S \in [MessageSlots -> Blocks \cup {Nullptr}]
  /\ H \in [Holders -> HeldBuffer]
  /\ M \in [Blocks -> Block]
  /\ A \subseteq Allocators

Sized(v) == (v.buf = Nullptr => v.reserved = 0) /\ v.size <= v.reserved

OwnsIts(v, M) ==
  v.buf # Nullptr =>
    M[v.buf].state = "allocated" /\ M[v.buf].by = v.allocator /\ Len(M[v.buf].data) = v.reserved

\* A custom allocator is owned by the vector or buffer that uses it.
Plain(v, A) ==
  (v.own_allocator <=> v.allocator # Nullptr) /\ v.allocator \in A \cup {Nullptr}

\* A MessageBuilder's vector uses the SliceAllocator beside it.
Message(v, m, S, M) ==
  /\ v.allocator = m /\ ~v.own_allocator /\ S[m] = v.buf
  /\ v.buf # Nullptr => M[v.buf].state = "slice" /\ Len(M[v.buf].data) = v.reserved

GoodSlot(b, v, S, M, A) ==
  /\ Sized(v)
  /\ b \in Builders => Plain(v, A) /\ OwnsIts(v, M)
  /\ b \in MessageSlots => Message(v, b, S, M)

GoodHeld(h, M, A) ==
  /\ h.kind = "none" => h = NoBuffer
  /\ h.kind = "detached" => Plain(h, A)
  /\ h.kind = "raw" => ~h.own_allocator
  /\ Solid(h) => OwnsIts(h, M) /\ Sized(h)
  /\ IsSlice(h) =>
       /\ ~h.own_allocator
       /\ h.buf = Nullptr => h.size = 0
       /\ h.buf # Nullptr => M[h.buf].state = "slice" /\ h.size <= Len(M[h.buf].data)

\* A slice of a block that is in slices; of one no builder writes to, if it was released.
GoodSlice(h, B, M) ==
  /\ h \in HeldBuffer /\ IsSlice(h) /\ ~h.own_allocator
  /\ h.buf = Nullptr => h.size = 0
  /\ h.buf # Nullptr => M[h.buf].state = "slice" /\ h.size <= Len(M[h.buf].data)
  /\ h.released => /\ Content(M, h) = h.value
                   /\ h.buf # Nullptr => \A b \in Slots : B[b].buf # h.buf

Unique(B, H) ==
  /\ \A b, c \in Slots : B[b].buf # Nullptr /\ B[b].buf = B[c].buf => b = c
  /\ \A b \in Slots, x \in Holders : B[b].buf # Nullptr /\ B[b].buf = H[x].buf => ~Solid(H[x])
  /\ \A x, y \in Holders :
       Solid(H[x]) /\ Solid(H[y]) /\ H[x].buf # Nullptr /\ H[x].buf = H[y].buf => x = y

UniqueAllocators(B, H) ==
  /\ \A b, c \in Slots :
       B[b].own_allocator /\ B[c].own_allocator /\ B[b].allocator = B[c].allocator => b = c
  /\ \A b \in Slots, x \in Holders :
       B[b].own_allocator /\ H[x].own_allocator => B[b].allocator # H[x].allocator
  /\ \A x, y \in Holders :
       H[x].own_allocator /\ H[y].own_allocator /\ H[x].allocator = H[y].allocator => x = y

\* Nothing is leaked.
Covered(B, H, M, A) ==
  /\ \A p \in Blocks : M[p].state = "allocated" =>
       (\E b \in Slots : B[b].buf = p) \/ (\E x \in Holders : Solid(H[x]) /\ H[x].buf = p)
  /\ \A a \in A :
       \/ \E b \in Slots : B[b].own_allocator /\ B[b].allocator = a
       \/ \E x \in Holders : H[x].own_allocator /\ H[x].allocator = a

\* What has been released is not written to any more.
Kept(B, H, M) ==
  \A x \in Holders : H[x].released =>
    /\ Content(M, H[x]) = H[x].value
    /\ H[x].buf # Nullptr => \A b \in Slots : B[b].buf # H[x].buf

Owned(B, S, H, M, A) ==
  /\ Types(B, S, H, M, A)
  /\ \A b \in Slots : GoodSlot(b, B[b], S, M, A)
  /\ \A x \in Holders : GoodHeld(H[x], M, A)
  /\ Unique(B, H)
  /\ UniqueAllocators(B, H)
  /\ Covered(B, H, M, A)
  /\ Kept(B, H, M)
  /\ \A p \in Blocks : M[p].state = "free" => M[p] = FreeBlock

\* Of slices that nothing refers to, none is left.
Settled(S, H, M) == \A p \in Blocks : M[p].state = "slice" => Referenced(S, H, p)

NewBuilder(b) == IF b \in Builders THEN DefaultVector ELSE MemberVector(b)

OwnershipInv ==
  /\ Owned(builder, slice, held, memory, allocators)
  /\ Settled(slice, held, memory)
  /\ alive \subseteq Builders \cup MessageBuilders
  /\ \A b \in Slots \ alive : builder[b] = NewBuilder(b)
  /\ ok = TRUE

----------------------------------------------------------------------------
(* Blocks, slots and buffers.                                              *)

LEMMA Kinds ==
  ASSUME NEW h
  PROVE  /\ Solid(h) => ~IsSlice(h) /\ h.kind # "none"
         /\ IsSlice(h) => ~Solid(h) /\ h.kind # "none"
         /\ h.kind = "none" => ~IsSlice(h) /\ ~Solid(h)
  BY DEF Solid, IsSlice

LEMMA FreeBlockType ==
  /\ FreeBlock \in Block /\ FreeBlock.state = "free" /\ FreeBlock.by = Nullptr
  /\ FreeBlock.data = <<>> /\ Len(FreeBlock.data) = 0
<1>1. <<>> \in Seq(Objects \cup {Unwritten})
  OBVIOUS
<1>2. QED
  BY <1>1 DEF FreeBlock, Block

LEMMA NoBufferType ==
  /\ NoBuffer \in HeldBuffer /\ NoBuffer.kind = "none" /\ NoBuffer.buf = Nullptr
  /\ NoBuffer.size = 0 /\ NoBuffer.reserved = 0 /\ ~NoBuffer.own_allocator /\ ~NoBuffer.released
  /\ NoBuffer.allocator = Nullptr /\ NoBuffer.value = <<>>
<1>1. <<>> \in Seq(Objects \cup {Unwritten})
  OBVIOUS
<1>2. QED
  BY <1>1 DEF NoBuffer, HeldBuffer

LEMMA NewVectorTypes ==
  /\ DefaultVector \in Vector /\ DefaultVector.buf = Nullptr /\ Sized(DefaultVector)
  /\ \A m \in MessageSlots : MemberVector(m) \in Vector /\ MemberVector(m).buf = Nullptr
                               /\ Sized(MemberVector(m))
  BY DEF DefaultVector, MemberVector, NewVector, Vector, Sized

\* Only the size and the block of a buffer matter to its content.
LEMMA SameContent ==
  ASSUME NEW M, NEW N, NEW v, NEW w, v.size = w.size, v.size \in Nat,
         v.size = 0 \/ M[v.buf].data = N[w.buf].data
  PROVE  Content(M, v) = Content(N, w)
  BY DEF Content

----------------------------------------------------------------------------
(* What a step may do to an owned state.                                   *)

\* A slice that nothing refers to is freed.
LEMMA Settling ==
  ASSUME NEW B, NEW S, NEW H, NEW M, NEW A, Owned(B, S, H, M, A)
  PROVE  /\ Owned(B, S, H, Unreferenced(S, H, M), A)
         /\ Settled(S, H, Unreferenced(S, H, M))
<1>. DEFINE N == Unreferenced(S, H, M)
<1>1. Types(B, S, H, N, A)
  BY FreeBlockType DEF Owned, Types, Unreferenced
<1>2. \A p \in Blocks : N[p] = M[p] \/ (N[p] = FreeBlock /\ M[p].state = "slice" /\ ~Referenced(S, H, p))
  BY DEF Unreferenced
<1>. HIDE DEF N
<1>3. Settled(S, H, N)
  BY FreeBlockType DEF Unreferenced, Settled, N
<1>4. \A b \in Slots : B[b].buf # Nullptr => B[b].buf \in Blocks /\ N[B[b].buf] = M[B[b].buf]
  <2>. SUFFICES ASSUME NEW b \in Slots, B[b].buf # Nullptr
                PROVE  B[b].buf \in Blocks /\ N[B[b].buf] = M[B[b].buf]
    OBVIOUS
  <2>1. B[b].buf \in Blocks /\ GoodSlot(b, B[b], S, M, A)
    BY DEF Owned, Types, Vector
  <2>2. CASE b \in Builders
    BY <1>2, <2>1, <2>2 DEF GoodSlot, OwnsIts
  <2>3. CASE b \in MessageSlots
    BY <1>2, <2>1, <2>3 DEF GoodSlot, Message, Referenced
  <2>. QED
    BY <2>2, <2>3 DEF Slots
<1>5. \A x \in Holders : (Solid(H[x]) \/ IsSlice(H[x])) /\ H[x].buf # Nullptr
                           => H[x].buf \in Blocks /\ N[H[x].buf] = M[H[x].buf]
  <2>. SUFFICES ASSUME NEW x \in Holders, Solid(H[x]) \/ IsSlice(H[x]), H[x].buf # Nullptr
                PROVE  H[x].buf \in Blocks /\ N[H[x].buf] = M[H[x].buf]
    OBVIOUS
  <2>1. H[x].buf \in Blocks /\ GoodHeld(H[x], M, A)
    BY DEF Owned, Types, HeldBuffer
  <2>2. CASE Solid(H[x])
    BY <1>2, <2>1, <2>2 DEF GoodHeld, OwnsIts
  <2>3. CASE IsSlice(H[x])
    BY <1>2, <2>1, <2>3 DEF Referenced
  <2>. QED
    BY <2>2, <2>3
<1>6. \A b \in Slots : GoodSlot(b, B[b], S, N, A)
  BY <1>4 DEF Owned, GoodSlot, OwnsIts, Message
<1>7. \A x \in Holders : GoodHeld(H[x], N, A)
  BY <1>5 DEF Owned, GoodHeld, OwnsIts
<1>8. Covered(B, H, N, A)
  BY <1>2, FreeBlockType DEF Owned, Covered
<1>9. Kept(B, H, N)
  <2>. SUFFICES ASSUME NEW x \in Holders, H[x].released
                PROVE  Content(N, H[x]) = Content(M, H[x])
    BY DEF Owned, Kept
  <2>1. H[x] \in HeldBuffer /\ GoodHeld(H[x], M, A)
    BY DEF Owned, Types
  <2>2. Solid(H[x]) \/ IsSlice(H[x])
    BY <2>1, NoBufferType DEF GoodHeld, Solid, IsSlice, HeldBuffer
  <2>3. H[x].size = 0 \/ H[x].buf # Nullptr
    BY <2>1, <2>2 DEF GoodHeld, Sized, HeldBuffer
  <2>. QED
    BY <1>5, <2>1, <2>2, <2>3, SameContent DEF HeldBuffer
<1>10. \A p \in Blocks : N[p].state = "free" => N[p] = FreeBlock
  BY <1>2 DEF Owned
<1>. QED
  BY <1>1, <1>3, <1>6, <1>7, <1>8, <1>9, <1>10 DEF Owned, N

\* The block of a slot is of no other slot and of no buffer that has been released.
LEMMA OwnBlock ==
  ASSUME NEW B, NEW S, NEW H, NEW M, NEW A, Owned(B, S, H, M, A),
         NEW b \in Slots, B[b].buf # Nullptr
  PROVE  /\ B[b].buf \in Blocks
         /\ \A c \in Slots : c # b => B[c].buf # B[b].buf
         /\ \A x \in Holders : Solid(H[x]) => H[x].buf # B[b].buf
         /\ \A x \in Holders : H[x].released => H[x].buf # B[b].buf
  BY DEF Owned, Types, Vector, Unique, Kept

\* What has been released is a solid buffer or a slice, and empty if it has no block.
LEMMA ReleasedBuffer ==
  ASSUME NEW B, NEW S, NEW H, NEW M, NEW A, Owned(B, S, H, M, A), NEW x \in Holders
  PROVE  /\ H[x] \in HeldBuffer
         /\ H[x].kind = "none" \/ Solid(H[x]) \/ IsSlice(H[x])
         /\ H[x].buf = Nullptr => H[x].size = 0
         /\ H[x].buf # Nullptr =>
              /\ H[x].buf \in Blocks
              /\ M[H[x].buf].state = IF Solid(H[x]) THEN "allocated" ELSE "slice"
              /\ H[x].size <= Len(M[H[x].buf].data)
<1>1. H[x] \in HeldBuffer /\ GoodHeld(H[x], M, A)
  BY DEF Owned, Types
<1>2. H[x].kind = "none" \/ Solid(H[x]) \/ IsSlice(H[x])
  BY <1>1 DEF HeldBuffer, Solid, IsSlice
<1>3. CASE H[x].kind = "none"
  BY <1>1, <1>2, <1>3, NoBufferType DEF GoodHeld, HeldBuffer
<1>4. CASE Solid(H[x])
  BY <1>1, <1>2, <1>4 DEF GoodHeld, OwnsIts, Sized, HeldBuffer
<1>5. CASE IsSlice(H[x])
  BY <1>1, <1>2, <1>5, Kinds DEF GoodHeld, HeldBuffer
<1>. QED
  BY <1>2, <1>3, <1>4, <1>5

\* Kept, in steps that leave the released buffers and what is in their blocks alone.
LEMMA StillKept ==
  ASSUME NEW B, NEW S, NEW H, NEW M, NEW A, Owned(B, S, H, M, A), NEW C, NEW N,
         \A x \in Holders : H[x].released /\ H[x].buf # Nullptr => N[H[x].buf].data = M[H[x].buf].data,
         \A x \in Holders : H[x].released /\ H[x].buf # Nullptr => \A b \in Slots : C[b].buf # H[x].buf
  PROVE  Kept(C, H, N)
<1>. SUFFICES ASSUME NEW x \in Holders, H[x].released
              PROVE  Content(N, H[x]) = Content(M, H[x])
  BY DEF Owned, Kept
<1>. QED
  BY ReleasedBuffer, SameContent DEF HeldBuffer

\* A vector gives up its block, and keeps its allocator.
LEMMA DroppingBlock ==
  ASSUME NEW B, NEW S, NEW H, NEW M, NEW A, Owned(B, S, H, M, A), NEW b \in Slots,
         NEW w \in Vector, w.buf = Nullptr, w.reserved = 0, w.size = 0,
         w.allocator = B[b].allocator, w.own_allocator = B[b].own_allocator
  PROVE  /\ Deallocatable(S, M, A, B[b])
         /\ Owned([B EXCEPT ![b] = w], Dropped(S, B[b]), H, Freed(M, B[b]), A)
<1>. DEFINE v == B[b]
            C == [B EXCEPT ![b] = w]
            T == Dropped(S, v)
            N == Freed(M, v)
<1>1. v \in Vector /\ GoodSlot(b, v, S, M, A)
  BY DEF Owned, Types
<1>2. /\ b \in Builders => v.allocator \notin MessageSlots
      /\ b \in MessageSlots => v.allocator = b /\ S[b] = v.buf /\ b \notin Builders
  BY <1>1, OwnershipAssumption DEF GoodSlot, Plain, Message, Vector, Owned, Types
<1>3. Deallocatable(S, M, A, v)
  BY <1>1, <1>2 DEF Deallocatable, GoodSlot, OwnsIts, Message, Plain, Slots
<1>4. Types(C, T, H, N, A)
  BY FreeBlockType DEF Owned, Types, Dropped, Freed
<1>5. \A m \in MessageSlots : T[m] = IF m = b THEN Nullptr ELSE S[m]
  BY <1>2 DEF Dropped, Owned, Types, Slots
<1>6. /\ b \in MessageSlots => N = M
      /\ \A p \in Blocks : N[p] = M[p] \/ (N[p] = FreeBlock /\ p = v.buf /\ b \in Builders)
  BY <1>2 DEF Freed, Owned, Types, Slots
<1>7. \A c \in Slots : C[c] = IF c = b THEN w ELSE B[c]
  BY DEF Owned, Types
<1>. HIDE DEF v, C, T, N
<1>8. /\ \A c \in Slots : c # b /\ B[c].buf # Nullptr => N[B[c].buf] = M[B[c].buf]
      /\ \A x \in Holders : (Solid(H[x]) \/ H[x].released) /\ H[x].buf # Nullptr
                              => N[H[x].buf] = M[H[x].buf]
  <2>1. \A c \in Slots : c # b /\ B[c].buf # Nullptr => B[c].buf \in Blocks /\ B[c].buf # v.buf
    BY OwnBlock DEF v
  <2>2. \A x \in Holders : (Solid(H[x]) \/ H[x].released) /\ H[x].buf # Nullptr
                             => H[x].buf \in Blocks /\ H[x].buf # v.buf
    <3>1. v.buf = Nullptr \/ \A x \in Holders : Solid(H[x]) \/ H[x].released => H[x].buf # v.buf
      BY OwnBlock DEF v
    <3>. QED
      BY <3>1, ReleasedBuffer
  <2>. QED
    BY <1>6, <2>1, <2>2
<1>9. \A x \in Holders : IsSlice(H[x]) /\ H[x].buf # Nullptr => N[H[x].buf] = M[H[x].buf]
  <2>. SUFFICES ASSUME NEW x \in Holders, IsSlice(H[x]), H[x].buf # Nullptr, b \in Builders
                PROVE  H[x].buf # v.buf /\ H[x].buf \in Blocks
    BY <1>6, ReleasedBuffer, <1>2 DEF Slots
  <2>1. M[H[x].buf].state = "slice" /\ H[x].buf \in Blocks
    BY ReleasedBuffer, Kinds
  <2>. QED
    BY <1>1, <2>1 DEF GoodSlot, OwnsIts
<1>10. \A c \in Slots : GoodSlot(c, C[c], T, N, A)
  <2>. SUFFICES ASSUME NEW c \in Slots
                PROVE  GoodSlot(c, C[c], T, N, A)
    OBVIOUS
  <2>1. CASE c = b
    BY <2>1, <1>1, <1>5, <1>7 DEF GoodSlot, Sized, Plain, OwnsIts, Message, v
  <2>2. CASE c # b
    BY <2>2, <1>5, <1>7, <1>8 DEF Owned, GoodSlot, Sized, Plain, OwnsIts, Message
  <2>. QED
    BY <2>1, <2>2
<1>11. \A x \in Holders : GoodHeld(H[x], N, A)
  BY <1>8, <1>9 DEF Owned, GoodHeld, OwnsIts
<1>12. Unique(C, H)
  BY <1>7 DEF Owned, Unique
<1>13. UniqueAllocators(C, H)
  BY <1>7 DEF Owned, UniqueAllocators, v
<1>14. Covered(C, H, N, A)
  <2>1. \A p \in Blocks : N[p].state = "allocated" => M[p].state = "allocated" /\ p # v.buf
    <3>. SUFFICES ASSUME NEW p \in Blocks, N[p].state = "allocated"
                  PROVE  M[p].state = "allocated" /\ p # v.buf
      OBVIOUS
    <3>1. N[p] = M[p]
      BY <1>6, FreeBlockType
    <3>2. CASE b \in Builders
      <4>1. p = v.buf => v.buf # Nullptr /\ N[p] = FreeBlock
        BY <3>2, <1>2, OwnershipAssumption DEF N, Freed, Owned, Types
      <4>. QED
        BY <3>1, <4>1, FreeBlockType
    <3>3. CASE b \in MessageSlots
      BY <3>1, <3>3, <1>1, OwnershipAssumption DEF GoodSlot, Message
    <3>. QED
      BY <3>2, <3>3 DEF Slots
  <2>. QED
    BY <2>1, <1>7 DEF Owned, Covered, v
<1>15. Kept(C, H, N)
  <2>1. \A x \in Holders : H[x].released /\ H[x].buf # Nullptr => \A c \in Slots : C[c].buf # H[x].buf
    BY <1>7 DEF Owned, Kept
  <2>. QED
    BY <2>1, <1>8, StillKept
<1>16. \A p \in Blocks : N[p].state = "free" => N[p] = FreeBlock
  BY <1>6 DEF Owned
<1>. QED
  BY <1>3, <1>4, <1>10, <1>11, <1>12, <1>13, <1>14, <1>15, <1>16 DEF Owned, v, C, T, N

\* Only the size of a vector changes.
LEMMA Resizing ==
  ASSUME NEW B, NEW S, NEW H, NEW M, NEW A, Owned(B, S, H, M, A), NEW b \in Slots,
         NEW w \in Vector, w.buf = B[b].buf, w.reserved = B[b].reserved, w.size <= w.reserved,
         w.allocator = B[b].allocator, w.own_allocator = B[b].own_allocator
  PROVE  Owned([B EXCEPT ![b] = w], S, H, M, A)
<1>. DEFINE C == [B EXCEPT ![b] = w]
<1>1. Types(C, S, H, M, A)
  BY DEF Owned, Types
<1>2. /\ \A c \in Slots : C[c] = IF c = b THEN w ELSE B[c]
      /\ \A c \in Slots : /\ C[c].buf = B[c].buf /\ C[c].allocator = B[c].allocator
                          /\ C[c].own_allocator = B[c].own_allocator
  BY DEF Owned, Types
<1>. HIDE DEF C
<1>3. \A c \in Slots : GoodSlot(c, C[c], S, M, A)
  BY <1>2 DEF Owned, GoodSlot, Sized, Plain, OwnsIts, Message
<1>4. Unique(C, H) /\ UniqueAllocators(C, H) /\ Covered(C, H, M, A) /\ Kept(C, H, M)
  BY <1>2 DEF Owned, Unique, UniqueAllocators, Covered, Kept
<1>. QED
  BY <1>1, <1>3, <1>4 DEF Owned, C

\* A vector writes to its block.
LEMMA Writing ==
  ASSUME NEW B, NEW S, NEW H, NEW M, NEW A, Owned(B, S, H, M, A), NEW b \in Slots,
         B[b].buf # Nullptr, NEW k \in 1 .. B[b].reserved, NEW o \in Objects
  PROVE  Owned(B, S, H, [M EXCEPT ![B[b].buf].data[k] = o], A)
<1>. DEFINE q == B[b].buf
            N == [M EXCEPT ![q].data[k] = o]
<1>1. /\ GoodSlot(b, B[b], S, M, A) /\ B[b] \in Vector /\ q \in Blocks
      /\ M \in [Blocks -> Block] /\ M[q] \in Block
  BY OwnBlock DEF Owned, Types
<1>2. Len(M[q].data) = B[b].reserved /\ M[q].state # "free"
  BY <1>1 DEF GoodSlot, OwnsIts, Message, Slots
<1>3. M[q].data \in Seq(Cell) /\ k \in 1 .. Len(M[q].data)
  BY <1>1, <1>2 DEF Block, Cell
<1>4. [M[q].data EXCEPT ![k] = o] \in Seq(Cell) /\ Len([M[q].data EXCEPT ![k] = o]) = Len(M[q].data)
  BY <1>3, ExceptSeq DEF Cell
<1>5. N = [M EXCEPT ![q] = [M[q] EXCEPT !.data = [M[q].data EXCEPT ![k] = o]]]
  BY <1>1 DEF Block
<1>6. [M[q] EXCEPT !.data = [M[q].data EXCEPT ![k] = o]] \in Block
  BY <1>1, <1>4 DEF Block, Cell
<1>7. /\ N \in [Blocks -> Block]
      /\ \A p \in Blocks : /\ N[p].state = M[p].state /\ N[p].by = M[p].by
                           /\ Len(N[p].data) = Len(M[p].data) /\ (p # q => N[p] = M[p])
  BY <1>1, <1>4, <1>5, <1>6 DEF Block
<1>. HIDE DEF N, q
<1>8. Types(B, S, H, N, A)
  BY <1>7 DEF Owned, Types
<1>9. \A c \in Slots : GoodSlot(c, B[c], S, N, A)
  BY <1>7, OwnBlock DEF Owned, GoodSlot, OwnsIts, Message
<1>10. \A x \in Holders : GoodHeld(H[x], N, A)
  BY <1>7, ReleasedBuffer DEF Owned, GoodHeld, OwnsIts
<1>11. Covered(B, H, N, A)
  BY <1>7 DEF Owned, Covered
<1>12. Kept(B, H, N)
  <2>1. \A x \in Holders : H[x].released /\ H[x].buf # Nullptr => H[x].buf \in Blocks /\ H[x].buf # q
    BY OwnBlock, ReleasedBuffer DEF q
  <2>2. \A x \in Holders : H[x].released /\ H[x].buf # Nullptr => N[H[x].buf].data = M[H[x].buf].data
    BY <2>1, <1>7
  <2>3. \A x \in Holders : H[x].released /\ H[x].buf # Nullptr => \A c \in Slots : B[c].buf # H[x].buf
    BY DEF Owned, Kept
  <2>. QED
    BY <2>2, <2>3, StillKept
<1>13. \A p \in Blocks : N[p].state = "free" => N[p] = FreeBlock
  BY <1>7, <1>2 DEF Owned
<1>. QED
  BY <1>8, <1>9, <1>10, <1>11, <1>12, <1>13 DEF Owned, N, q

\* A vector allocates a block.
LEMMA Allocating ==
  ASSUME NEW B, NEW S, NEW H, NEW M, NEW A, Owned(B, S, H, M, A), NEW b \in Slots,
         B[b].buf = Nullptr, NEW p \in Blocks, M[p] = FreeBlock,
         NEW w \in Vector, w.buf = p, w.size <= w.reserved,
         w.allocator = B[b].allocator, w.own_allocator = B[b].own_allocator,
         NEW data \in Seq(Cell), Len(data) = w.reserved
  PROVE  Owned([B EXCEPT ![b] = w],
               IF w.allocator \in MessageSlots THEN [S EXCEPT ![w.allocator] = p] ELSE S, H,
               [M EXCEPT ![p] = Allocated(w, data)], A)
<1>. DEFINE C == [B EXCEPT ![b] = w]
            T == IF w.allocator \in MessageSlots THEN [S EXCEPT ![w.allocator] = p] ELSE S
            N == [M EXCEPT ![p] = Allocated(w, data)]
<1>1. GoodSlot(b, B[b], S, M, A) /\ B[b] \in Vector /\ p # Nullptr
  BY OwnershipAssumption DEF Owned, Types
<1>2. /\ b \in Builders => w.allocator \notin MessageSlots /\ b \notin MessageSlots
      /\ b \in MessageSlots => w.allocator = b /\ b \notin Builders
  BY <1>1, OwnershipAssumption DEF GoodSlot, Plain, Message, Vector, Owned, Types
<1>3. Allocated(w, data) \in Block /\ Allocated(w, data).state # "free"
  BY <1>1, <1>2 DEF Allocated, Block, Cell, Vector
<1>4. Types(C, T, H, N, A)
  BY <1>3 DEF Owned, Types
<1>5. /\ \A c \in Slots : C[c] = IF c = b THEN w ELSE B[c]
      /\ \A m \in MessageSlots : T[m] = IF m = b THEN p ELSE S[m]
      /\ \A q \in Blocks : N[q] = IF q = p THEN Allocated(w, data) ELSE M[q]
  BY <1>2 DEF Owned, Types, Slots
<1>6. /\ \A c \in Slots : B[c].buf # p
      /\ \A x \in Holders : H[x].buf # p
  <2>1. \A c \in Slots : B[c].buf # p
    <3>. SUFFICES ASSUME NEW c \in Slots, B[c].buf = p
                  PROVE  FALSE
      OBVIOUS
    <3>1. GoodSlot(c, B[c], S, M, A)
      BY DEF Owned
    <3>. QED
      BY <3>1, <1>1, FreeBlockType DEF GoodSlot, OwnsIts, Message, Slots
  <2>2. \A x \in Holders : H[x].buf # p
    BY <1>1, ReleasedBuffer, FreeBlockType
  <2>. QED
    BY <2>1, <2>2
<1>. HIDE DEF C, T, N
<1>7. \A c \in Slots : GoodSlot(c, C[c], T, N, A)
  <2>. SUFFICES ASSUME NEW c \in Slots
                PROVE  GoodSlot(c, C[c], T, N, A)
    OBVIOUS
  <2>1. CASE c = b
    BY <2>1, <1>1, <1>2, <1>5 DEF GoodSlot, Sized, Plain, OwnsIts, Message, Allocated, Slots, Vector
  <2>2. CASE c # b
    BY <2>2, <1>5, <1>6, OwnBlock DEF Owned, GoodSlot, Sized, Plain, OwnsIts, Message
  <2>. QED
    BY <2>1, <2>2
<1>8. \A x \in Holders : GoodHeld(H[x], N, A)
  BY <1>5, <1>6, ReleasedBuffer DEF Owned, GoodHeld, OwnsIts
<1>9. Unique(C, H) /\ UniqueAllocators(C, H)
  BY <1>5, <1>6 DEF Owned, Unique, UniqueAllocators
<1>10. Covered(C, H, N, A)
  <2>1. \A c \in Slots : /\ B[c].buf = Nullptr \/ C[c].buf = B[c].buf
                         /\ C[c].own_allocator = B[c].own_allocator
                         /\ C[c].allocator = B[c].allocator
    BY <1>5
  <2>2. \A q \in Blocks : N[q].state = "allocated" => q = p \/ M[q].state = "allocated"
    BY <1>5
  <2>3. C[b].buf = p /\ \A q \in Blocks : q # Nullptr
    BY <1>5, OwnershipAssumption
  <2>. QED
    BY <2>1, <2>2, <2>3 DEF Owned, Covered
<1>11. Kept(C, H, N)
  <2>1. \A x \in Holders : H[x].released /\ H[x].buf # Nullptr => \A c \in Slots : C[c].buf # H[x].buf
    BY <1>5, <1>6 DEF Owned, Kept
  <2>2. \A x \in Holders : H[x].released /\ H[x].buf # Nullptr => N[H[x].buf].data = M[H[x].buf].data
    BY <1>5, <1>6, ReleasedBuffer
  <2>. QED
    BY <2>1, <2>2, StillKept
<1>12. \A q \in Blocks : N[q].state = "free" => N[q] = FreeBlock
  BY <1>3, <1>5 DEF Owned
<1>. QED
  BY <1>4, <1>7, <1>8, <1>9, <1>10, <1>11, <1>12 DEF Owned, C, T, N

\* A FlatBufferBuilder without memory deletes its allocator.
LEMMA LosingAllocator ==
  ASSUME NEW B, NEW S, NEW H, NEW M, NEW A, Owned(B, S, H, M, A), NEW b \in Builders,
         B[b].buf = Nullptr
  PROVE  Owned([B EXCEPT ![b] = DefaultVector], S, H, M, A \ OwnAllocator(B[b]))
<1>. DEFINE C == [B EXCEPT ![b] = DefaultVector]
            G == A \ OwnAllocator(B[b])
<1>1. b \in Slots /\ b \notin MessageSlots
  BY OwnershipAssumption DEF Slots
<1>2. Types(C, S, H, M, G)
  BY NewVectorTypes DEF Owned, Types
<1>3. \A c \in Slots : C[c] = IF c = b THEN DefaultVector ELSE B[c]
  BY DEF Owned, Types
<1>4. /\ \A a : a \in G <=> a \in A /\ ~(B[b].own_allocator /\ a = B[b].allocator)
      /\ ~DefaultVector.own_allocator /\ DefaultVector.allocator = Nullptr
      /\ DefaultVector.buf = Nullptr
  BY DEF OwnAllocator, DefaultVector, NewVector
<1>. HIDE DEF C, G
<1>5. \A c \in Slots : GoodSlot(c, C[c], S, M, G)
  <2>. SUFFICES ASSUME NEW c \in Slots
                PROVE  GoodSlot(c, C[c], S, M, G)
    OBVIOUS
  <2>1. CASE c = b
    BY <2>1, <1>1, <1>3, <1>4, NewVectorTypes DEF GoodSlot, Plain, OwnsIts
  <2>2. CASE c # b
    BY <2>2, <1>1, <1>3, <1>4 DEF Owned, UniqueAllocators, GoodSlot, Plain
  <2>. QED
    BY <2>1, <2>2
<1>6. \A x \in Holders : GoodHeld(H[x], M, G)
  BY <1>1, <1>4 DEF Owned, UniqueAllocators, GoodHeld, Plain
<1>7. Unique(C, H) /\ UniqueAllocators(C, H)
  BY <1>3, <1>4 DEF Owned, Unique, UniqueAllocators
<1>8. Covered(C, H, M, G)
  <2>1. \A p \in Blocks : p # Nullptr
    BY OwnershipAssumption
  <2>. QED
    BY <2>1, <1>3, <1>4 DEF Owned, Covered
<1>9. Kept(C, H, M)
  BY <1>3, <1>4 DEF Owned, Kept
<1>. QED
  BY <1>2, <1>5, <1>6, <1>7, <1>8, <1>9 DEF Owned, C, G

\* A FlatBufferBuilder is given an allocator that is not in use.
LEMMA TakingAllocator ==
  ASSUME NEW B, NEW S, NEW H, NEW M, NEW A, Owned(B, S, H, M, A), NEW b \in Builders,
         B[b] = DefaultVector, NEW a \in Allocators \ A, \A x \in Holders : H[x].allocator # a
  PROVE  Owned([B EXCEPT ![b] = NewVector(a, TRUE)], S, H, M, A \cup {a})
<1>. DEFINE v == NewVector(a, TRUE)
            C == [B EXCEPT ![b] = v]
            G == A \cup {a}
<1>1. b \in Slots /\ b \notin MessageSlots /\ a # Nullptr
  BY OwnershipAssumption DEF Slots
<1>2. /\ v \in Vector /\ v.buf = Nullptr /\ v.allocator = a /\ v.own_allocator /\ Sized(v)
      /\ DefaultVector.buf = Nullptr /\ ~DefaultVector.own_allocator
  BY DEF DefaultVector, NewVector, Vector, Sized
<1>. HIDE DEF v
<1>3. Types(C, S, H, M, G)
  BY <1>2 DEF Owned, Types
<1>4. \A c \in Slots : C[c] = IF c = b THEN v ELSE B[c]
  BY DEF Owned, Types
<1>. HIDE DEF C
<1>5. \A c \in Slots : GoodSlot(c, C[c], S, M, G)
  <2>. SUFFICES ASSUME NEW c \in Slots
                PROVE  GoodSlot(c, C[c], S, M, G)
    OBVIOUS
  <2>1. CASE c = b
    BY <2>1, <1>1, <1>2, <1>4 DEF GoodSlot, Plain, OwnsIts
  <2>2. CASE c # b
    BY <2>2, <1>4 DEF Owned, GoodSlot, Plain
  <2>. QED
    BY <2>1, <2>2
<1>6. \A x \in Holders : GoodHeld(H[x], M, G)
  BY DEF Owned, GoodHeld, Plain
<1>7. Unique(C, H)
  BY <1>2, <1>4 DEF Owned, Unique
<1>8. UniqueAllocators(C, H)
  <2>1. \A c \in Slots : B[c].own_allocator => B[c].allocator # a
    <3>. SUFFICES ASSUME NEW c \in Slots, B[c].own_allocator, B[c].allocator = a
                  PROVE  FALSE
      OBVIOUS
    <3>1. GoodSlot(c, B[c], S, M, A)
      BY DEF Owned
    <3>. QED
      BY <3>1, <1>1 DEF GoodSlot, Plain, Message, Slots
  <2>. QED
    BY <2>1, <1>2, <1>4 DEF Owned, UniqueAllocators
<1>9. Covered(C, H, M, G)
  <2>1. \A p \in Blocks : p # Nullptr
    BY OwnershipAssumption
  <2>. QED
    BY <2>1, <1>1, <1>2, <1>4 DEF Owned, Covered
<1>10. Kept(C, H, M)
  BY <1>2, <1>4 DEF Owned, Kept
<1>. QED
  BY <1>3, <1>5, <1>6, <1>7, <1>8, <1>9, <1>10 DEF Owned, C, v

\* Two FlatBufferBuilders change places.
LEMMA Exchanging ==
  ASSUME NEW B, NEW S, NEW H, NEW M, NEW A, Owned(B, S, H, M, A),
         NEW b \in Builders, NEW c \in Builders
  PROVE  Owned([B EXCEPT ![b] = B[c], ![c] = B[b]], S, H, M, A)
<1>. DEFINE C == [B EXCEPT ![b] = B[c], ![c] = B[b]]
            other(d) == IF d = b THEN c ELSE IF d = c THEN b ELSE d
<1>1. {b, c} \subseteq Slots /\ {b, c} \cap MessageSlots = {}
  BY OwnershipAssumption DEF Slots
<1>2. Types(C, S, H, M, A)
  BY <1>1 DEF Owned, Types
<1>3. \A d \in Slots : /\ other(d) \in Slots /\ other(other(d)) = d /\ C[d] = B[other(d)]
                       /\ d \in Builders <=> other(d) \in Builders
  BY <1>1 DEF Owned, Types
<1>4. \A d \in MessageSlots : C[d] = B[d]
  BY <1>1 DEF Owned, Types, Slots
<1>. HIDE DEF C, other
<1>5. \A d \in Slots : GoodSlot(d, C[d], S, M, A)
  <2>. SUFFICES ASSUME NEW d \in Slots
                PROVE  GoodSlot(d, C[d], S, M, A)
    OBVIOUS
  <2>1. CASE d \in Builders
    BY <2>1, <1>3, OwnershipAssumption DEF Owned, GoodSlot
  <2>2. CASE d \in MessageSlots
    BY <2>2, <1>4 DEF Owned, GoodSlot
  <2>. QED
    BY <2>1, <2>2 DEF Slots
<1>6. Unique(C, H) /\ UniqueAllocators(C, H)
  BY <1>3 DEF Owned, Unique, UniqueAllocators
<1>7. Covered(C, H, M, A) /\ Kept(C, H, M)
  BY <1>3 DEF Owned, Covered, Kept
<1>. QED
  BY <1>2, <1>5, <1>6, <1>7 DEF Owned, C

\* Two MessageBuilders exchange their slices, and keep their allocators.
LEMMA ExchangingSlices ==
  ASSUME NEW B, NEW S, NEW H, NEW M, NEW A, Owned(B, S, H, M, A),
         NEW m \in MessageSlots, NEW n \in MessageSlots
  PROVE  /\ Owned(Swapped(B, m, n), SwappedSlices(S, m, n), H, M, A)
         /\ \A p \in Blocks : Referenced(S, H, p) => Referenced(SwappedSlices(S, m, n), H, p)
<1>. DEFINE C == Swapped(B, m, n)
            T == SwappedSlices(S, m, n)
            other(d) == IF d = m THEN n ELSE IF d = n THEN m ELSE d
<1>1. {m, n} \subseteq Slots /\ {m, n} \cap Builders = {}
  BY OwnershipAssumption DEF Slots
<1>2. Types(C, T, H, M, A)
  <2>1. \A v, w \in Vector : WithAllocatorOf(v, w) \in Vector
    BY DEF WithAllocatorOf, Vector
  <2>2. C \in [Slots -> Vector]
    BY <2>1, <1>1 DEF Owned, Types, Swapped
  <2>3. T \in [MessageSlots -> Blocks \cup {Nullptr}]
    BY DEF Owned, Types, SwappedSlices
  <2>. QED
    BY <2>2, <2>3 DEF Owned, Types
<1>3. /\ Message(B[m], m, S, M) /\ Message(B[n], n, S, M) /\ B[m] \in Vector /\ B[n] \in Vector
  BY <1>1 DEF Owned, GoodSlot, Types
<1>4. \A d \in Slots : /\ other(d) \in Slots /\ other(other(d)) = d
                       /\ C[d].buf = B[other(d)].buf /\ C[d].reserved = B[other(d)].reserved
                       /\ C[d].size = B[other(d)].size
                       /\ C[d].own_allocator = B[d].own_allocator
                       /\ C[d].allocator = B[d].allocator
                       /\ d \in Builders => C[d] = B[d] /\ other(d) = d
                       /\ d \in MessageSlots <=> other(d) \in MessageSlots
  <2>1. \A d \in Slots : C[d] = IF d = n THEN WithAllocatorOf(B[m], B[n])
                                ELSE IF d = m THEN WithAllocatorOf(B[n], B[m]) ELSE B[d]
    BY <1>1 DEF Owned, Types, Swapped
  <2>2. \A v, w \in Vector : /\ WithAllocatorOf(v, w).buf = v.buf
                             /\ WithAllocatorOf(v, w).reserved = v.reserved
                             /\ WithAllocatorOf(v, w).size = v.size
                             /\ WithAllocatorOf(v, w).own_allocator = w.own_allocator
                             /\ WithAllocatorOf(v, w).allocator = w.allocator
    BY DEF WithAllocatorOf, Vector
  <2>. HIDE DEF C
  <2>. QED
    BY <2>1, <2>2, <1>1, <1>3
<1>5. \A d \in MessageSlots : T[d] = S[other(d)] /\ other(d) \in MessageSlots /\ other(other(d)) = d
  BY DEF Owned, Types, SwappedSlices
<1>. HIDE DEF C, T, other
<1>6. \A d \in Slots : GoodSlot(d, C[d], T, M, A)
  <2>. SUFFICES ASSUME NEW d \in Slots
                PROVE  GoodSlot(d, C[d], T, M, A)
    OBVIOUS
  <2>1. CASE d \in Builders
    BY <2>1, <1>4, OwnershipAssumption DEF Owned, GoodSlot
  <2>2. CASE d \in MessageSlots
    <3>1. GoodSlot(d, B[d], S, M, A) /\ GoodSlot(other(d), B[other(d)], S, M, A)
      BY <1>4 DEF Owned
    <3>2. d \notin Builders
      BY <2>2, OwnershipAssumption
    <3>. QED
      BY <2>2, <3>1, <3>2, <1>4, <1>5 DEF GoodSlot, Sized, Message
  <2>. QED
    BY <2>1, <2>2 DEF Slots
<1>7. Unique(C, H) /\ UniqueAllocators(C, H)
  BY <1>4 DEF Owned, Unique, UniqueAllocators
<1>8. Covered(C, H, M, A) /\ Kept(C, H, M)
  BY <1>4 DEF Owned, Covered, Kept
<1>9. \A p \in Blocks : Referenced(S, H, p) => Referenced(T, H, p)
  BY <1>5 DEF Referenced
<1>. QED
  BY <1>2, <1>6, <1>7, <1>8, <1>9 DEF Owned, C, T

\* A MessageBuilder without memory takes that of a FlatBufferBuilder, as a slice.
LEMMA Adopting ==
  ASSUME NEW B, NEW S, NEW H, NEW M, NEW A, Owned(B, S, H, M, A), NEW m \in MessageSlots,
         NEW b \in Builders, B[b].allocator = Nullptr, B[m] = MemberVector(m)
  PROVE  Owned([B EXCEPT ![m] = WithAllocatorOf(B[b], MemberVector(m)),
                         ![b] = WithAllocatorOf(MemberVector(m), B[b])],
               [S EXCEPT ![m] = B[b].buf], H,
               IF B[b].buf = Nullptr THEN M ELSE [M EXCEPT ![B[b].buf].state = "slice"], A)
<1>. DEFINE v == WithAllocatorOf(B[b], MemberVector(m))
            w == WithAllocatorOf(MemberVector(m), B[b])
            C == [B EXCEPT ![m] = v, ![b] = w]
            T == [S EXCEPT ![m] = B[b].buf]
            N == IF B[b].buf = Nullptr THEN M ELSE [M EXCEPT ![B[b].buf].state = "slice"]
<1>1. m \in Slots /\ b \in Slots /\ m \notin Builders /\ b \notin MessageSlots /\ m # b
  BY OwnershipAssumption DEF Slots
<1>2. /\ GoodSlot(b, B[b], S, M, A) /\ GoodSlot(m, B[m], S, M, A) /\ B[b] \in Vector
      /\ B[b].own_allocator = FALSE
  BY <1>1 DEF Owned, Types, GoodSlot, Plain, Vector
<1>3. /\ v \in Vector /\ v.allocator = m /\ ~v.own_allocator /\ v.buf = B[b].buf
      /\ v.reserved = B[b].reserved /\ v.size = B[b].size
      /\ w \in Vector /\ w.allocator = Nullptr /\ ~w.own_allocator /\ w.buf = Nullptr
      /\ w.reserved = 0 /\ w.size = 0
  BY <1>2 DEF WithAllocatorOf, MemberVector, NewVector, Vector
<1>4. /\ N \in [Blocks -> Block]
      /\ \A p \in Blocks : /\ N[p].by = M[p].by /\ N[p].data = M[p].data
                           /\ N[p].state = IF p = B[b].buf THEN "slice" ELSE M[p].state
                           /\ (p # B[b].buf => N[p] = M[p])
      /\ B[b].buf \in Blocks \cup {Nullptr}
  <2>1. B[b].buf \in Blocks \cup {Nullptr} /\ M \in [Blocks -> Block] /\ \A p \in Blocks : p # Nullptr
    BY <1>2, OwnershipAssumption DEF Owned, Types, Vector
  <2>2. CASE B[b].buf = Nullptr
    BY <2>1, <2>2
  <2>3. CASE B[b].buf # Nullptr
    <3>1. B[b].buf \in Blocks /\ N = [M EXCEPT ![B[b].buf] = [M[B[b].buf] EXCEPT !.state = "slice"]]
      BY <2>1, <2>3
    <3>2. \A block \in Block : LET s == [block EXCEPT !.state = "slice"]
                               IN  s \in Block /\ s.by = block.by /\ s.data = block.data /\ s.state = "slice"
      BY DEF Block
    <3>. HIDE DEF N
    <3>. QED
      BY <2>1, <2>3, <3>1, <3>2
  <2>. QED
    BY <2>2, <2>3
<1>. HIDE DEF v, w, N
<1>5. Types(C, T, H, N, A)
  BY <1>3, <1>4 DEF Owned, Types
<1>6. /\ \A c \in Slots : C[c] = IF c = m THEN v ELSE IF c = b THEN w ELSE B[c]
      /\ \A n \in MessageSlots : T[n] = IF n = m THEN B[b].buf ELSE S[n]
  BY <1>1 DEF Owned, Types
<1>. HIDE DEF C, T
<1>7. \A c \in Slots : GoodSlot(c, C[c], T, N, A)
  <2>. SUFFICES ASSUME NEW c \in Slots
                PROVE  GoodSlot(c, C[c], T, N, A)
    OBVIOUS
  <2>1. CASE c = m
    BY <2>1, <1>1, <1>2, <1>3, <1>4, <1>6 DEF GoodSlot, Sized, OwnsIts, Message
  <2>2. CASE c = b
    BY <2>2, <1>1, <1>3, <1>6 DEF GoodSlot, Sized, OwnsIts, Plain
  <2>3. CASE c # m /\ c # b
    <3>1. B[c].buf = Nullptr \/ (B[c].buf \in Blocks /\ B[c].buf # B[b].buf)
      BY <2>3, <1>1, OwnBlock DEF Owned, Types, Vector
    <3>2. GoodSlot(c, B[c], S, M, A) /\ C[c] = B[c]
      BY <2>3, <1>6 DEF Owned
    <3>. QED
      BY <2>3, <3>1, <3>2, <1>4, <1>6 DEF GoodSlot, OwnsIts, Message
  <2>. QED
    BY <2>1, <2>2, <2>3
<1>8. \A x \in Holders : GoodHeld(H[x], N, A)
  <2>. SUFFICES ASSUME NEW x \in Holders
                PROVE  GoodHeld(H[x], N, A)
    OBVIOUS
  <2>1. GoodHeld(H[x], M, A) /\ (Solid(H[x]) /\ H[x].buf # Nullptr => H[x].buf # B[b].buf)
    BY <1>1, OwnBlock DEF Owned
  <2>. QED
    BY <2>1, <1>4, ReleasedBuffer DEF GoodHeld, OwnsIts
<1>9. B[m].buf = Nullptr /\ B[m].own_allocator = FALSE
  BY DEF MemberVector, NewVector
<1>10. Unique(C, H)
  BY <1>1, <1>3, <1>6, <1>9 DEF Owned, Unique
<1>11. UniqueAllocators(C, H)
  BY <1>2, <1>3, <1>6, <1>9 DEF Owned, UniqueAllocators
<1>12. Covered(C, H, N, A)
  <2>1. \A p \in Blocks : N[p].state = "allocated" => M[p].state = "allocated" /\ p # B[b].buf
    BY <1>4
  <2>2. \A p \in Blocks : p # Nullptr
    BY OwnershipAssumption
  <2>. QED
    BY <2>1, <2>2, <1>2, <1>6, <1>9 DEF Owned, Covered
<1>13. Kept(C, H, N)
  <2>1. \A x \in Holders : H[x].released /\ H[x].buf # Nullptr => \A c \in Slots : C[c].buf # H[x].buf
    BY <1>1, <1>3, <1>6 DEF Owned, Kept
  <2>2. \A x \in Holders : H[x].released /\ H[x].buf # Nullptr => N[H[x].buf].data = M[H[x].buf].data
    BY <1>4, ReleasedBuffer
  <2>. QED
    BY <2>1, <2>2, StillKept
<1>14. \A p \in Blocks : N[p].state = "free" => N[p] = FreeBlock
  BY <1>4 DEF Owned
<1>. QED
  BY <1>5, <1>7, <1>8, <1>10, <1>11, <1>12, <1>13, <1>14 DEF Owned, C, T, N, v, w

\* A FlatBufferBuilder hands its block over, with the allocator or without.
LEMMA Handing ==
  ASSUME NEW B, NEW S, NEW H, NEW M, NEW A, Owned(B, S, H, M, A), NEW b \in Builders,
         NEW x \in Holders, H[x] = NoBuffer,
         NEW w \in Vector, w.buf = Nullptr, w.reserved = 0, w.size = 0,
         NEW h \in HeldBuffer, h.buf = B[b].buf, h.reserved = B[b].reserved, h.size = B[b].size,
         h.allocator = B[b].allocator, h.value = Content(M, B[b]),
         \/ /\ h.kind = "detached" /\ h.own_allocator = B[b].own_allocator
            /\ w.allocator = Nullptr /\ ~w.own_allocator
         \/ /\ h.kind = "raw" /\ ~h.own_allocator
            /\ w.allocator = B[b].allocator /\ w.own_allocator = B[b].own_allocator
  PROVE  Owned([B EXCEPT ![b] = w], S, [H EXCEPT ![x] = h], M, A)
<1>. DEFINE C == [B EXCEPT ![b] = w]
            G == [H EXCEPT ![x] = h]
<1>1. b \in Slots /\ b \notin MessageSlots
  BY OwnershipAssumption DEF Slots
<1>2. B[b] \in Vector /\ GoodSlot(b, B[b], S, M, A)
  BY <1>1 DEF Owned, Types
<1>3. Types(C, S, G, M, A)
  BY DEF Owned, Types
<1>4. /\ \A c \in Slots : C[c] = IF c = b THEN w ELSE B[c]
      /\ \A y \in Holders : G[y] = IF y = x THEN h ELSE H[y]
  BY DEF Owned, Types
<1>. HIDE DEF C, G
<1>5. Solid(h) /\ ~IsSlice(h) /\ h.kind # "none" /\ ~Solid(H[x]) /\ ~H[x].own_allocator
  BY NoBufferType DEF Solid, IsSlice
<1>6. \A c \in Slots : GoodSlot(c, C[c], S, M, A)
  <2>. SUFFICES ASSUME NEW c \in Slots
                PROVE  GoodSlot(c, C[c], S, M, A)
    OBVIOUS
  <2>1. CASE c = b
    BY <2>1, <1>1, <1>2, <1>4 DEF GoodSlot, Sized, Plain, OwnsIts
  <2>2. CASE c # b
    BY <2>2, <1>4 DEF Owned
  <2>. QED
    BY <2>1, <2>2
<1>7. \A y \in Holders : GoodHeld(G[y], M, A)
  <2>. SUFFICES GoodHeld(h, M, A)
    BY <1>4 DEF Owned
  <2>1. h.kind = "detached" => Plain(h, A)
    BY <1>2 DEF GoodSlot, Plain
  <2>2. OwnsIts(h, M) /\ Sized(h)
    BY <1>2 DEF GoodSlot, OwnsIts, Sized
  <2>. QED
    BY <1>5, <2>1, <2>2 DEF GoodHeld
<1>8. Unique(C, G)
  <2>1. \A c \in Slots : B[b].buf # Nullptr /\ c # b => B[c].buf # B[b].buf
    BY <1>1, OwnBlock
  <2>2. \A y \in Holders : B[b].buf # Nullptr /\ Solid(H[y]) => H[y].buf # B[b].buf
    BY <1>1, OwnBlock
  <2>. QED
    BY <2>1, <2>2, <1>4, <1>5 DEF Owned, Unique
<1>9. UniqueAllocators(C, G)
  BY <1>1, <1>4, <1>5 DEF Owned, UniqueAllocators
<1>10. Covered(C, G, M, A)
  <2>1. \A p \in Blocks : p # Nullptr
    BY OwnershipAssumption
  <2>2. \A p \in Blocks : M[p].state = "allocated" =>
          (\E c \in Slots : C[c].buf = p) \/ (\E y \in Holders : Solid(G[y]) /\ G[y].buf = p)
    BY <2>1, <1>4, <1>5 DEF Owned, Covered
  <2>3. \A a \in A : \/ \E c \in Slots : C[c].own_allocator /\ C[c].allocator = a
                     \/ \E y \in Holders : G[y].own_allocator /\ G[y].allocator = a
    BY <1>1, <1>4, <1>5 DEF Owned, Covered
  <2>. QED
    BY <2>2, <2>3 DEF Covered
<1>11. Kept(C, G, M)
  <2>1. Content(M, h) = h.value
    BY DEF Content
  <2>2. h.buf # Nullptr => \A c \in Slots : C[c].buf # h.buf
    BY <1>1, <1>4, OwnBlock
  <2>. QED
    BY <2>1, <2>2, <1>4 DEF Owned, Kept
<1>. QED
  BY <1>3, <1>6, <1>7, <1>8, <1>9, <1>10, <1>11 DEF Owned, C, G

\* A DetachedBuffer, or the caller of ReleaseRaw, deallocates the block.
LEMMA DroppingHeld ==
  ASSUME NEW B, NEW S, NEW H, NEW M, NEW A, Owned(B, S, H, M, A),
         NEW x \in Holders, H[x].kind \in {"none", "detached", "raw"},
         H[x].kind = "raw" => H[x].allocator \in A \cup {Nullptr}
  PROVE  /\ Deallocatable(S, M, A, H[x]) /\ Dropped(S, H[x]) = S
         /\ Owned(B, S, [H EXCEPT ![x] = NoBuffer], Freed(M, H[x]), A \ OwnAllocator(H[x]))
<1>. DEFINE h == H[x]
            G == [H EXCEPT ![x] = NoBuffer]
            N == Freed(M, h)
            F == A \ OwnAllocator(h)
<1>1. h \in HeldBuffer /\ GoodHeld(h, M, A) /\ h.allocator \notin MessageSlots
  BY OwnershipAssumption DEF Owned, Types, HeldBuffer
<1>2. Dropped(S, h) = S
  BY <1>1 DEF Dropped
<1>3. /\ Solid(h) \/ h = NoBuffer
      /\ ~IsSlice(h)
  BY <1>1 DEF GoodHeld, Solid, IsSlice
<1>4. Deallocatable(S, M, A, h)
  BY <1>1, <1>3, NoBufferType DEF GoodHeld, OwnsIts, Plain, Deallocatable, Solid
<1>5. /\ \A p \in Blocks : N[p] = IF p = h.buf THEN FreeBlock ELSE M[p]
      /\ N \in [Blocks -> Block]
  BY <1>1, FreeBlockType, OwnershipAssumption DEF Freed, Owned, Types
<1>6. \A a : a \in F <=> a \in A /\ ~(h.own_allocator /\ a = h.allocator)
  BY DEF OwnAllocator
<1>7. Types(B, S, G, N, F)
  BY <1>5, NoBufferType DEF Owned, Types
<1>8. \A y \in Holders : G[y] = IF y = x THEN NoBuffer ELSE H[y]
  BY DEF Owned, Types
<1>9. ~Solid(NoBuffer) /\ ~IsSlice(NoBuffer) /\ ~NoBuffer.own_allocator /\ ~NoBuffer.released
  BY NoBufferType DEF Solid, IsSlice
<1>. HIDE DEF h, N, F, G
<1>10. \A c \in Slots : B[c].buf # Nullptr => B[c].buf \in Blocks /\ B[c].buf # h.buf
  BY <1>3, OwnBlock, NoBufferType DEF h
<1>11. \A y \in Holders : y # x /\ H[y].buf # Nullptr /\ (Solid(H[y]) \/ IsSlice(H[y]))
                            => H[y].buf \in Blocks /\ H[y].buf # h.buf
  <2>. SUFFICES ASSUME NEW y \in Holders, y # x, H[y].buf # Nullptr, H[y].buf = h.buf,
                       Solid(H[y]) \/ IsSlice(H[y])
                PROVE  FALSE
    BY ReleasedBuffer
  <2>1. Solid(h)
    BY <1>3, NoBufferType
  <2>2. M[h.buf].state = "allocated"
    BY <2>1, ReleasedBuffer DEF h
  <2>3. Solid(H[y])
    BY <2>2, ReleasedBuffer
  <2>. QED
    BY <2>1, <2>3 DEF Owned, Unique, h
<1>12. \A c \in Slots : GoodSlot(c, B[c], S, N, F)
  <2>. SUFFICES ASSUME NEW c \in Slots
                PROVE  GoodSlot(c, B[c], S, N, F)
    OBVIOUS
  <2>1. GoodSlot(c, B[c], S, M, A)
    BY DEF Owned
  <2>2. c \in Builders => Plain(B[c], F)
    BY <2>1, <1>6 DEF Owned, UniqueAllocators, GoodSlot, Plain, h
  <2>. QED
    BY <2>1, <2>2, <1>5, <1>10 DEF GoodSlot, OwnsIts, Message
<1>13. \A y \in Holders : GoodHeld(G[y], N, F)
  <2>. SUFFICES ASSUME NEW y \in Holders
                PROVE  GoodHeld(G[y], N, F)
    OBVIOUS
  <2>1. CASE y = x
    BY <2>1, <1>8, <1>9, NoBufferType DEF GoodHeld
  <2>2. CASE y # x
    <3>1. GoodHeld(H[y], M, A)
      BY DEF Owned
    <3>2. H[y].kind = "detached" => Plain(H[y], F)
      BY <2>2, <3>1, <1>6 DEF Owned, UniqueAllocators, GoodHeld, Plain, h
    <3>. QED
      BY <2>2, <3>1, <3>2, <1>5, <1>8, <1>11 DEF GoodHeld, OwnsIts
  <2>. QED
    BY <2>1, <2>2
<1>14. Unique(B, G) /\ UniqueAllocators(B, G)
  BY <1>8, <1>9 DEF Owned, Unique, UniqueAllocators
<1>15. Covered(B, G, N, F)
  <2>1. \A p \in Blocks : N[p].state = "allocated" => M[p].state = "allocated" /\ p # h.buf
    BY <1>5, FreeBlockType
  <2>. QED
    BY <2>1, <1>6, <1>8 DEF Owned, Covered, h
<1>16. Kept(B, G, N)
  <2>. SUFFICES ASSUME NEW y \in Holders, G[y].released
                PROVE  /\ y # x /\ H[y].released
                       /\ Content(N, H[y]) = Content(M, H[y])
    BY <1>8 DEF Owned, Kept
  <2>1. y # x /\ G[y] = H[y]
    BY <1>8, <1>9
  <2>2. H[y].kind # "none"
    BY <2>1, <1>9 DEF Owned, GoodHeld
  <2>3. H[y] \in HeldBuffer /\ (H[y].buf = Nullptr => H[y].size = 0) /\ (Solid(H[y]) \/ IsSlice(H[y]))
    BY <2>2, ReleasedBuffer
  <2>4. H[y].size = 0 \/ N[H[y].buf].data = M[H[y].buf].data
    BY <2>1, <2>3, <1>5, <1>11
  <2>. QED
    BY <2>1, <2>3, <2>4, SameContent DEF HeldBuffer
<1>17. \A p \in Blocks : N[p].state = "free" => N[p] = FreeBlock
  BY <1>5 DEF Owned
<1>. QED
  BY <1>2, <1>4, <1>7, <1>12, <1>13, <1>14, <1>15, <1>16, <1>17 DEF Owned, h, G, N, F

\* A slice goes out of scope.
LEMMA LosingSlice ==
  ASSUME NEW B, NEW S, NEW H, NEW M, NEW A, Owned(B, S, H, M, A),
         NEW x \in Holders, IsSlice(H[x])
  PROVE  Owned(B, S, [H EXCEPT ![x] = NoBuffer], M, A)
<1>. DEFINE G == [H EXCEPT ![x] = NoBuffer]
<1>1. Types(B, S, G, M, A)
  BY NoBufferType DEF Owned, Types
<1>2. \A y \in Holders : G[y] = IF y = x THEN NoBuffer ELSE H[y]
  BY DEF Owned, Types
<1>. HIDE DEF G
<1>3. ~Solid(NoBuffer) /\ ~IsSlice(NoBuffer) /\ ~NoBuffer.own_allocator /\ ~NoBuffer.released
  BY NoBufferType DEF Solid, IsSlice
<1>4. ~Solid(H[x]) /\ ~H[x].own_allocator
  BY Kinds DEF Owned, GoodHeld
<1>5. \A y \in Holders : GoodHeld(G[y], M, A)
  BY <1>2, <1>3, NoBufferType DEF Owned, GoodHeld
<1>6. Unique(B, G) /\ UniqueAllocators(B, G)
  BY <1>2, <1>3 DEF Owned, Unique, UniqueAllocators
<1>7. Covered(B, G, M, A)
  BY <1>2, <1>4 DEF Owned, Covered
<1>8. Kept(B, G, M)
  BY <1>2, <1>3 DEF Owned, Kept
<1>. QED
  BY <1>1, <1>5, <1>6, <1>7, <1>8 DEF Owned, G

\* A slice is made.
LEMMA TakingSlice ==
  ASSUME NEW B, NEW S, NEW H, NEW M, NEW A, Owned(B, S, H, M, A),
         NEW x \in Holders, H[x] = NoBuffer, NEW h, GoodSlice(h, B, M)
  PROVE  /\ Owned(B, S, [H EXCEPT ![x] = h], M, A)
         /\ \A p \in Blocks : Referenced(S, H, p) => Referenced(S, [H EXCEPT ![x] = h], p)
<1>. DEFINE G == [H EXCEPT ![x] = h]
<1>1. Types(B, S, G, M, A)
  BY DEF Owned, Types, GoodSlice
<1>2. \A y \in Holders : G[y] = IF y = x THEN h ELSE H[y]
  BY DEF Owned, Types
<1>. HIDE DEF G
<1>3. ~Solid(h) /\ h.kind # "none" /\ h.kind \notin {"detached", "raw"}
  BY DEF GoodSlice, Solid, IsSlice
<1>4. ~Solid(H[x]) /\ ~IsSlice(H[x]) /\ ~H[x].own_allocator
  BY NoBufferType DEF Solid, IsSlice
<1>5. \A y \in Holders : GoodHeld(G[y], M, A)
  BY <1>2, <1>3 DEF Owned, GoodHeld, GoodSlice
<1>6. Unique(B, G) /\ UniqueAllocators(B, G)
  BY <1>2, <1>3 DEF Owned, Unique, UniqueAllocators, GoodSlice
<1>7. Covered(B, G, M, A)
  BY <1>2, <1>4 DEF Owned, Covered
<1>8. Kept(B, G, M)
  BY <1>2 DEF Owned, Kept, GoodSlice
<1>9. \A p \in Blocks : Referenced(S, H, p) => Referenced(S, G, p)
  BY <1>2, <1>4 DEF Referenced
<1>. QED
  BY <1>1, <1>5, <1>6, <1>7, <1>8, <1>9 DEF Owned, G

\* DetachedBuffer's move.
LEMMA Passing ==
  ASSUME NEW B, NEW S, NEW H, NEW M, NEW A, Owned(B, S, H, M, A),
         NEW x \in Holders, NEW y \in Holders, x # y, H[x] = NoBuffer, H[y].kind = "detached"
  PROVE  Owned(B, S, [H EXCEPT ![x] = H[y], ![y] = EmptyDetached], M, A)
<1>. DEFINE G == [H EXCEPT ![x] = H[y], ![y] = EmptyDetached]
<1>1. /\ EmptyDetached \in HeldBuffer /\ EmptyDetached.buf = Nullptr /\ EmptyDetached.reserved = 0
      /\ EmptyDetached.size = 0 /\ ~EmptyDetached.own_allocator /\ ~EmptyDetached.released
      /\ EmptyDetached.kind = "detached" /\ EmptyDetached.allocator = Nullptr
  BY NoBufferType DEF EmptyDetached, HeldBuffer
<1>. HIDE DEF EmptyDetached
<1>2. Types(B, S, G, M, A)
  BY <1>1 DEF Owned, Types
<1>3. \A z \in Holders : G[z] = IF z = y THEN EmptyDetached ELSE IF z = x THEN H[y] ELSE H[z]
  BY DEF Owned, Types
<1>. HIDE DEF G
<1>4. /\ Solid(EmptyDetached) /\ ~IsSlice(EmptyDetached) /\ Solid(H[y]) /\ ~IsSlice(H[y])
      /\ ~Solid(H[x]) /\ ~H[x].own_allocator
  BY <1>1, NoBufferType DEF Solid, IsSlice
<1>5. \A z \in Holders : GoodHeld(G[z], M, A)
  <2>1. GoodHeld(EmptyDetached, M, A)
    BY <1>1, <1>4 DEF GoodHeld, Plain, OwnsIts, Sized
  <2>. QED
    BY <2>1, <1>3 DEF Owned
<1>6. Unique(B, G)
  BY <1>1, <1>3, <1>4 DEF Owned, Unique
<1>7. UniqueAllocators(B, G)
  BY <1>1, <1>3, <1>4 DEF Owned, UniqueAllocators
<1>8. Covered(B, G, M, A)
  <2>1. \A p \in Blocks : (\E z \in Holders : Solid(H[z]) /\ H[z].buf = p)
                            => \E z \in Holders : Solid(G[z]) /\ G[z].buf = p
    BY <1>3, <1>4
  <2>2. \A a \in A : (\E z \in Holders : H[z].own_allocator /\ H[z].allocator = a)
                       => \E z \in Holders : G[z].own_allocator /\ G[z].allocator = a
    BY <1>3, <1>4
  <2>. QED
    BY <2>1, <2>2 DEF Owned, Covered
<1>9. Kept(B, G, M)
  BY <1>1, <1>3 DEF Owned, Kept
<1>. QED
  BY <1>2, <1>5, <1>6, <1>7, <1>8, <1>9 DEF Owned, G

\* The destructor of a builder of either kind.
LEMMA Destroying ==
  ASSUME NEW B, NEW S, NEW H, NEW M, NEW A, Owned(B, S, H, M, A), NEW b \in Slots
  PROVE  /\ Deallocatable(S, M, A, B[b])
         /\ Owned([B EXCEPT ![b] = NewBuilder(b)], Dropped(S, B[b]), H, Freed(M, B[b]),
                  A \ OwnAllocator(B[b]))
<1>. DEFINE v == B[b]
            w == NewVector(v.allocator, v.own_allocator)
            C == [B EXCEPT ![b] = w]
<1>1. v \in Vector /\ GoodSlot(b, v, S, M, A) /\ B \in [Slots -> Vector]
  BY DEF Owned, Types
<1>2. /\ w \in Vector /\ w.buf = Nullptr /\ w.reserved = 0 /\ w.size = 0
      /\ w.allocator = v.allocator /\ w.own_allocator = v.own_allocator
  BY <1>1 DEF NewVector, Vector
<1>. HIDE DEF w
<1>3. /\ Deallocatable(S, M, A, v)
      /\ Owned(C, Dropped(S, v), H, Freed(M, v), A)
  BY <1>1, <1>2, DroppingBlock
<1>4. C[b] = w /\ \A z : [C EXCEPT ![b] = z] = [B EXCEPT ![b] = z]
  BY <1>1
<1>5. OwnAllocator(w) = OwnAllocator(v)
  BY <1>2 DEF OwnAllocator
<1>. HIDE DEF C
<1>6. CASE b \in Builders
  <2>1. Owned([C EXCEPT ![b] = DefaultVector], Dropped(S, v), H, Freed(M, v), A \ OwnAllocator(w))
    BY <1>2, <1>3, <1>4, <1>6, LosingAllocator
  <2>. QED
    BY <1>3, <1>4, <1>5, <1>6, <2>1 DEF NewBuilder
<1>7. CASE b \in MessageSlots
  <2>1. v.allocator = b /\ v.own_allocator = FALSE /\ b \notin Builders
    BY <1>1, <1>7, OwnershipAssumption DEF GoodSlot, Message, Vector
  <2>2. w = NewBuilder(b) /\ OwnAllocator(v) = {}
    BY <2>1 DEF w, NewBuilder, MemberVector, OwnAllocator
  <2>3. A \ OwnAllocator(v) = A
    BY <2>2
  <2>. QED
    BY <1>3, <2>2, <2>3 DEF C
<1>. QED
  BY <1>6, <1>7 DEF Slots

----------------------------------------------------------------------------
(* The actions.                                                            *)

\* What Settle makes of an owned state.
LEMMA SettleKeeps ==
  ASSUME NEW S, NEW H, NEW M, Owned(builder', S, H, M, allocators'), Settle(S, H, M)
  PROVE  Owned(builder', slice', held', memory', allocators') /\ Settled(slice', held', memory')
  BY Settling DEF Settle

LEMMA ConstructKeeps ==
  ASSUME OwnershipInv, NEW b \in Builders \cup MessageBuilders, Construct(b)
  PROVE  OwnershipInv'
<1>1. /\ Owned(builder', slice', held', memory', allocators')
      /\ Settled(slice', held', memory')
  BY DEF OwnershipInv, Construct
<1>. QED
  BY <1>1 DEF OwnershipInv, Construct

LEMMA ConstructWithKeeps ==
  ASSUME OwnershipInv, NEW b \in Builders, NEW a \in Allocators, ConstructWith(b, a)
  PROVE  OwnershipInv'
<1>1. b \in Slots \ alive /\ builder[b] = DefaultVector
  BY DEF OwnershipInv, ConstructWith, Constructible, NewBuilder, Slots
<1>2. Owned(builder', slice', held', memory', allocators')
  BY <1>1, TakingAllocator DEF OwnershipInv, ConstructWith
<1>3. Settled(slice', held', memory')
  BY DEF OwnershipInv, ConstructWith
<1>4. \A c \in Slots \ alive' : builder'[c] = NewBuilder(c)
  BY DEF OwnershipInv, ConstructWith, Owned, Types
<1>. QED
  BY <1>2, <1>3, <1>4 DEF OwnershipInv, ConstructWith

LEMMA DestroyKeeps ==
  ASSUME OwnershipInv, NEW b \in Builders \cup MessageBuilders, Destroy(b)
  PROVE  OwnershipInv'
<1>1. b \in Slots /\ Owned(builder, slice, held, memory, allocators)
  BY DEF OwnershipInv, Slots, MessageSlots
<1>2. builder' = [builder EXCEPT ![b] = NewBuilder(b)]
  BY DEF Destroy, NewBuilder
<1>3. /\ Deallocatable(slice, memory, allocators, builder[b])
      /\ Owned(builder', Dropped(slice, builder[b]), held, Freed(memory, builder[b]), allocators')
  <2>1. allocators' = allocators \ OwnAllocator(builder[b])
    BY DEF Destroy, Destroys
  <2>. QED
    BY <1>1, <1>2, <2>1, Destroying
<1>4. Owned(builder', slice', held', memory', allocators') /\ Settled(slice', held', memory')
  BY <1>3, SettleKeeps DEF Destroy, Destroys
<1>5. \A c \in Slots \ alive' : builder'[c] = NewBuilder(c)
  BY <1>2 DEF OwnershipInv, Destroy, Owned, Types
<1>. QED
  BY <1>3, <1>4, <1>5 DEF OwnershipInv, Destroy, Destroys

\* The rooms that grow_downward computes, and what is in them.
LEMMA GrownTypes ==
  ASSUME NEW v \in Vector, v.size <= v.reserved, NEW object \in Objects,
         memory \in [Blocks -> Block], v.buf # Nullptr => Len(memory[v.buf].data) = v.reserved,
         v.buf = Nullptr => v.reserved = 0
  PROVE  LET data == [Grown(v) EXCEPT ![v.size + 1] = object]
         IN  /\ GrownRoom(v) \in Nat /\ v.size + 1 <= GrownRoom(v)
             /\ data \in Seq(Cell) /\ Len(data) = GrownRoom(v)
<1>. DEFINE data == [Grown(v) EXCEPT ![v.size + 1] = object]
<1>1. v.size \in Nat /\ v.reserved \in Nat /\ v.reserved \div 2 \in Nat
  BY DEF Vector
<1>2. GrownRoom(v) \in Nat /\ v.reserved + 1 <= GrownRoom(v)
  BY <1>1, OwnershipAssumption DEF GrownRoom
<1>3. \A k \in 1 .. v.size : memory[v.buf].data[k] \in Cell
  <2>. SUFFICES ASSUME NEW k \in 1 .. v.size
                PROVE  memory[v.buf].data[k] \in Cell
    OBVIOUS
  <2>1. v.buf \in Blocks /\ memory[v.buf] \in Block /\ k \in 1 .. Len(memory[v.buf].data)
    BY <1>1 DEF Vector
  <2>. QED
    BY <2>1 DEF Block, Cell
<1>4. Grown(v) \in [1 .. GrownRoom(v) -> Cell]
  BY <1>1, <1>2, <1>3 DEF Grown, Cell
<1>5. Grown(v) \in Seq(Cell) /\ Len(Grown(v)) = GrownRoom(v)
  BY <1>2, <1>4
<1>. QED
  BY <1>1, <1>2, <1>5, ExceptSeq DEF Cell

LEMMA WriteAndGrowKeeps ==
  ASSUME OwnershipInv, NEW b \in alive, NEW object \in Objects, NEW p \in Blocks,
         WriteAndGrow(b, object, p), UNCHANGED <<alive, allocators>>
  PROVE  OwnershipInv'
<1>. DEFINE v == builder[b]
            e == WithoutBuffer(v)
            w == [v EXCEPT !.buf = p, !.reserved = GrownRoom(v), !.size = @ + 1]
            data == [Grown(v) EXCEPT ![v.size + 1] = object]
            B == [builder EXCEPT ![b] = e]
            S == Dropped(slice, v)
            M == Freed(memory, v)
<1>1. /\ b \in Slots /\ v \in Vector /\ GoodSlot(b, v, slice, memory, allocators)
      /\ Owned(builder, slice, held, memory, allocators)
      /\ builder \in [Slots -> Vector] /\ slice \in [MessageSlots -> Blocks \cup {Nullptr}]
      /\ memory \in [Blocks -> Block] /\ allocators \subseteq Allocators
  BY DEF OwnershipInv, Owned, Types, Slots, MessageSlots
<1>2. v.size = v.reserved /\ memory[p] = FreeBlock
  BY DEF WriteAndGrow
<1>3. /\ GrownRoom(v) \in Nat /\ v.size + 1 <= GrownRoom(v)
      /\ data \in Seq(Cell) /\ Len(data) = GrownRoom(v)
  <2>1. v.buf # Nullptr => Len(memory[v.buf].data) = v.reserved
    BY <1>1 DEF GoodSlot, OwnsIts, Message, Slots
  <2>2. (v.buf = Nullptr => v.reserved = 0) /\ v.size <= v.reserved
    BY <1>1 DEF GoodSlot, Sized
  <2>. QED
    BY <1>1, <2>1, <2>2, GrownTypes
<1>4. /\ w \in Vector /\ w.buf = p /\ w.reserved = GrownRoom(v) /\ w.size <= w.reserved
      /\ w.allocator = v.allocator /\ w.own_allocator = v.own_allocator
  <2>1. v.size + 1 \in Nat
    BY <1>1 DEF Vector
  <2>2. \A room \in Nat, size \in Nat :
          LET u == [v EXCEPT !.buf = p, !.reserved = room, !.size = size]
          IN  /\ u \in Vector /\ u.buf = p /\ u.reserved = room /\ u.size = size
              /\ u.allocator = v.allocator /\ u.own_allocator = v.own_allocator
    BY <1>1 DEF Vector
  <2>3. w = [v EXCEPT !.buf = p, !.reserved = GrownRoom(v), !.size = v.size + 1]
    BY <1>1 DEF Vector
  <2>. HIDE DEF w, v, data
  <2>. QED
    BY <1>3, <2>1, <2>2, <2>3
<1>5. /\ e \in Vector /\ e.buf = Nullptr /\ e.reserved = 0 /\ e.size = 0
      /\ e.allocator = v.allocator /\ e.own_allocator = v.own_allocator
  BY <1>1 DEF WithoutBuffer, Emptied, Vector
<1>6. /\ builder' = [builder EXCEPT ![b] = w] /\ ok' = (ok /\ Allocatable(v))
      /\ Settle(Taken(v, p), held, [M EXCEPT ![p] = Allocated(v, data)])
  BY DEF WriteAndGrow
<1>. HIDE DEF e, w, data, v
<1>7. Deallocatable(slice, memory, allocators, v) /\ Owned(B, S, held, M, allocators)
  BY <1>1, <1>5, DroppingBlock DEF v
<1>8. M[p] = FreeBlock
  BY <1>1, <1>2 DEF Freed
<1>9. B[b] = e /\ [B EXCEPT ![b] = w] = [builder EXCEPT ![b] = w]
  BY <1>1
<1>10. (IF w.allocator \in MessageSlots THEN [S EXCEPT ![w.allocator] = p] ELSE S) = Taken(v, p)
  BY <1>1, <1>4 DEF Dropped, Taken
<1>11. Allocated(w, data) = Allocated(v, data)
  BY <1>4 DEF Allocated
<1>. HIDE DEF B, S, M
<1>12. Owned([B EXCEPT ![b] = w],
             IF w.allocator \in MessageSlots THEN [S EXCEPT ![w.allocator] = p] ELSE S, held,
             [M EXCEPT ![p] = Allocated(w, data)], allocators)
  BY <1>1, <1>3, <1>4, <1>5, <1>7, <1>8, <1>9, Allocating
<1>13. Owned(builder', Taken(v, p), held, [M EXCEPT ![p] = Allocated(v, data)], allocators')
  BY <1>6, <1>9, <1>10, <1>11, <1>12
<1>14. Owned(builder', slice', held', memory', allocators') /\ Settled(slice', held', memory')
  BY <1>6, <1>13, SettleKeeps
<1>15. Allocatable(v)
  <2>1. CASE b \in Builders
    BY <1>1, <1>7, <2>1, OwnershipAssumption DEF Allocatable, GoodSlot, Plain
  <2>2. CASE b \in MessageSlots
    BY <1>1, <1>7, <2>2 DEF Allocatable, GoodSlot, Message
  <2>. QED
    BY <1>1, <2>1, <2>2 DEF Slots
<1>16. \A c \in Slots \ alive' : builder'[c] = NewBuilder(c)
  BY <1>1, <1>6 DEF OwnershipInv
<1>. QED
  BY <1>6, <1>14, <1>15, <1>16 DEF OwnershipInv

LEMMA WriteInPlaceKeeps ==
  ASSUME OwnershipInv, NEW b \in alive, NEW object \in Objects,
         WriteInPlace(b, object), UNCHANGED <<alive, allocators>>
  PROVE  OwnershipInv'
<1>. DEFINE v == builder[b]
            w == [v EXCEPT !.size = @ + 1]
            N == [memory EXCEPT ![v.buf].data[v.size + 1] = object]
<1>1. /\ b \in Slots /\ v \in Vector /\ GoodSlot(b, v, slice, memory, allocators)
      /\ Owned(builder, slice, held, memory, allocators)
      /\ builder \in [Slots -> Vector] /\ memory \in [Blocks -> Block]
  BY DEF OwnershipInv, Owned, Types, Slots, MessageSlots
<1>2. v.size < v.reserved /\ builder' = [builder EXCEPT ![b] = w] /\ memory' = N
  BY <1>1 DEF WriteInPlace
<1>3. v.buf # Nullptr /\ v.size + 1 \in 1 .. v.reserved
  BY <1>1, <1>2 DEF GoodSlot, Sized, Vector
<1>4. /\ w \in Vector /\ w.buf = v.buf /\ w.reserved = v.reserved /\ w.size <= w.reserved
      /\ w.allocator = v.allocator /\ w.own_allocator = v.own_allocator
  BY <1>1, <1>2 DEF Vector
<1>5. Owned(builder, slice, held, N, allocators)
  BY <1>1, <1>3, Writing
<1>. HIDE DEF w, N
<1>6. Owned([builder EXCEPT ![b] = w], slice, held, N, allocators)
  BY <1>1, <1>4, <1>5, Resizing
<1>7. \A p \in Blocks : N[p].state = memory[p].state
  BY <1>1 DEF N, Block
<1>8. Settled(slice, held, N)
  BY <1>7 DEF OwnershipInv, Settled
<1>9. \A c \in Slots \ alive' : builder'[c] = NewBuilder(c)
  BY <1>1, <1>2 DEF OwnershipInv
<1>. QED
  BY <1>2, <1>6, <1>8, <1>9 DEF OwnershipInv, WriteInPlace

LEMMA WriteKeeps ==
  ASSUME OwnershipInv, NEW b \in Builders \cup MessageBuilders, NEW object \in Objects,
         Write(b, object)
  PROVE  OwnershipInv'
  BY WriteAndGrowKeeps, WriteInPlaceKeeps DEF Write

\* clear, and Reset, of a vector.
LEMMA ClearedVector ==
  ASSUME NEW v \in Vector
  PROVE  \A w \in {Emptied(v), ClearedBuilder(v)} :
           /\ w \in Vector /\ w.buf = v.buf /\ w.size = 0
           /\ w.reserved = IF v.buf = Nullptr THEN 0 ELSE v.reserved
           /\ w.allocator = v.allocator /\ w.own_allocator = v.own_allocator
<1>. DEFINE room == IF v.buf = Nullptr THEN 0 ELSE v.reserved
<1>1. room \in Nat
  BY DEF Vector
<1>2. Emptied(v) = [v EXCEPT !.reserved = room, !.size = 0]
  BY DEF Emptied, Vector
<1>. HIDE DEF room
<1>3. /\ Emptied(v) \in Vector /\ Emptied(v).buf = v.buf /\ Emptied(v).size = 0
      /\ Emptied(v).reserved = room
      /\ Emptied(v).allocator = v.allocator /\ Emptied(v).own_allocator = v.own_allocator
  <2>1. Emptied(v) \in Vector
    <3>1. [v EXCEPT !.reserved = room, !.size = 0] \in Vector
      BY <1>1 DEF Vector
    <3>. QED
      BY <1>2, <3>1
  <2>2. Emptied(v).buf = v.buf /\ Emptied(v).size = 0
    BY <1>1, <1>2 DEF Vector
  <2>3. Emptied(v).reserved = room
    BY <1>1, <1>2 DEF Vector
  <2>4. Emptied(v).allocator = v.allocator /\ Emptied(v).own_allocator = v.own_allocator
    BY <1>1, <1>2 DEF Vector
  <2>. QED
    BY <2>1, <2>2, <2>3, <2>4
<1>. QED
  BY <1>3 DEF ClearedBuilder, Vector, room

LEMMA WithoutBlock ==
  ASSUME NEW v \in Vector
  PROVE  \A w \in {WithoutBuffer(v), ClearedBuilder(WithoutBuffer(v))} :
           /\ w \in Vector /\ w.buf = Nullptr /\ w.reserved = 0 /\ w.size = 0
           /\ w.allocator = v.allocator /\ w.own_allocator = v.own_allocator
<1>. DEFINE u == [v EXCEPT !.buf = Nullptr]
<1>1. /\ u \in Vector /\ u.buf = Nullptr
      /\ u.allocator = v.allocator /\ u.own_allocator = v.own_allocator
  BY DEF Vector
<1>. HIDE DEF u
<1>2. /\ Emptied(u) \in Vector /\ Emptied(u).buf = Nullptr /\ Emptied(u).size = 0
      /\ Emptied(u).reserved = 0 /\ Emptied(u).allocator = v.allocator
      /\ Emptied(u).own_allocator = v.own_allocator
  BY <1>1, ClearedVector
<1>3. WithoutBuffer(v) = Emptied(u)
  BY DEF WithoutBuffer, u
<1>. QED
  BY <1>2, <1>3, ClearedVector

\* Steps that change only the size of a vector, or whether it is finished.
LEMMA ResizeKeeps ==
  ASSUME OwnershipInv, NEW b \in Builders \cup MessageBuilders,
         FinishBuffer(b) \/ ClearForReuse(b)
  PROVE  OwnershipInv'
<1>. DEFINE v == builder[b]
            w == builder'[b]
<1>1. /\ b \in Slots /\ b \in alive /\ v \in Vector /\ GoodSlot(b, v, slice, memory, allocators)
      /\ Owned(builder, slice, held, memory, allocators) /\ builder \in [Slots -> Vector]
  BY DEF OwnershipInv, Owned, Types, Slots, MessageSlots, FinishBuffer, ClearForReuse
<1>2. \/ builder' = [builder EXCEPT ![b] = [v EXCEPT !.finished = TRUE]]
      \/ builder' = [builder EXCEPT ![b] = ClearedBuilder(v)]
  BY <1>1 DEF FinishBuffer, ClearForReuse
<1>3. builder' = [builder EXCEPT ![b] = w]
  BY <1>1, <1>2
<1>4. /\ w \in Vector /\ w.buf = v.buf /\ w.reserved = v.reserved /\ w.size <= w.reserved
      /\ w.allocator = v.allocator /\ w.own_allocator = v.own_allocator
  <2>1. w = [v EXCEPT !.finished = TRUE] \/ w = ClearedBuilder(v)
    BY <1>1, <1>2
  <2>. HIDE DEF w
  <2>. QED
    <3>1. CASE w = [v EXCEPT !.finished = TRUE]
      BY <1>1, <3>1 DEF Vector, GoodSlot, Sized
    <3>2. CASE w = ClearedBuilder(v)
      BY <1>1, <3>2, ClearedVector DEF Vector, GoodSlot, Sized
    <3>. QED
      BY <2>1, <3>1, <3>2
<1>. HIDE DEF w
<1>5. Owned(builder', slice, held, memory, allocators)
  BY <1>1, <1>3, <1>4, Resizing
<1>6. UNCHANGED <<alive, slice, held, memory, allocators, ok>>
  BY DEF FinishBuffer, ClearForReuse
<1>7. \A c \in Slots \ alive' : builder'[c] = NewBuilder(c)
  BY <1>1, <1>3, <1>6 DEF OwnershipInv
<1>. QED
  BY <1>5, <1>6, <1>7 DEF OwnershipInv

LEMMA ResetForReuseKeeps ==
  ASSUME OwnershipInv, NEW b \in Builders \cup MessageBuilders, ResetForReuse(b)
  PROVE  OwnershipInv'
<1>. DEFINE v == builder[b]
            w == ClearedBuilder(WithoutBuffer(v))
<1>1. /\ b \in Slots /\ b \in alive /\ v \in Vector
      /\ Owned(builder, slice, held, memory, allocators) /\ builder \in [Slots -> Vector]
  BY DEF OwnershipInv, Owned, Types, Slots, MessageSlots, ResetForReuse
<1>2. /\ builder' = [builder EXCEPT ![b] = w] /\ UNCHANGED <<alive, allocators>>
      /\ ok' = (ok /\ Deallocatable(slice, memory, allocators, v))
      /\ Settle(Dropped(slice, v), held, Freed(memory, v))
  BY DEF ResetForReuse, ResetWith
<1>3. /\ w \in Vector /\ w.buf = Nullptr /\ w.reserved = 0 /\ w.size = 0
      /\ w.allocator = v.allocator /\ w.own_allocator = v.own_allocator
  BY <1>1, WithoutBlock
<1>. HIDE DEF w
<1>4. /\ Deallocatable(slice, memory, allocators, v)
      /\ Owned(builder', Dropped(slice, v), held, Freed(memory, v), allocators')
  BY <1>1, <1>2, <1>3, DroppingBlock
<1>5. Owned(builder', slice', held', memory', allocators') /\ Settled(slice', held', memory')
  BY <1>2, <1>4, SettleKeeps
<1>6. \A c \in Slots \ alive' : builder'[c] = NewBuilder(c)
  BY <1>1, <1>2 DEF OwnershipInv
<1>. QED
  BY <1>2, <1>4, <1>5, <1>6 DEF OwnershipInv

LEMMA SwapBuildersKeeps ==
  ASSUME OwnershipInv, NEW b \in Builders, NEW c \in Builders,
         SwapBuilders(b, c) \/ MoveConstruct(b, c)
  PROVE  OwnershipInv'
<1>1. /\ Owned(builder, slice, held, memory, allocators) /\ builder \in [Slots -> Vector]
      /\ b \in Slots /\ c \in alive
  BY DEF OwnershipInv, Owned, Types, Slots, SwapBuilders, MoveConstruct
<1>2. /\ builder' = [builder EXCEPT ![b] = builder[c], ![c] = builder[b]]
      /\ b \in alive' /\ c \in alive' /\ alive \subseteq alive' /\ alive' \subseteq alive \cup {b}
      /\ UNCHANGED <<slice, held, memory, allocators, ok>>
  <2>1. CASE SwapBuilders(b, c)
    BY <2>1 DEF SwapBuilders
  <2>2. CASE MoveConstruct(b, c)
    <3>1. builder[b] = DefaultVector
      BY <1>1, <2>2 DEF OwnershipInv, MoveConstruct, Constructible, NewBuilder
    <3>. QED
      BY <2>2, <3>1 DEF MoveConstruct
  <2>. QED
    BY <2>1, <2>2
<1>3. Owned(builder', slice', held', memory', allocators') /\ Settled(slice', held', memory')
  BY <1>1, <1>2, Exchanging DEF OwnershipInv
<1>4. \A d \in Slots \ alive' : builder'[d] = NewBuilder(d)
  BY <1>1, <1>2 DEF OwnershipInv
<1>. QED
  BY <1>2, <1>3, <1>4 DEF OwnershipInv

\* Assigned to itself, a builder keeps what it has; else it is exchanged and destroyed.
LEMMA MoveAssignKeeps ==
  ASSUME OwnershipInv, NEW b \in Builders, NEW c \in Builders, MoveAssign(b, c)
  PROVE  OwnershipInv'
<1>. DEFINE moved == [builder EXCEPT ![c] = DefaultVector]
            v == moved[b]
<1>1. /\ Owned(builder, slice, held, memory, allocators) /\ builder \in [Slots -> Vector]
      /\ b \in Slots /\ c \in Slots /\ b \in alive /\ c \in alive
  BY DEF OwnershipInv, Owned, Types, Slots, MoveAssign
<1>2. /\ builder' = [moved EXCEPT ![b] = builder[c]] /\ alive' = alive
      /\ ok' = (ok /\ Deallocatable(slice, memory, allocators, v))
      /\ allocators' = allocators \ OwnAllocator(v)
      /\ Settle(Dropped(slice, v), held, Freed(memory, v))
  BY DEF MoveAssign, Destroys
<1>3. /\ Deallocatable(slice, memory, allocators, v)
      /\ Owned(builder', Dropped(slice, v), held, Freed(memory, v), allocators \ OwnAllocator(v))
  <2>1. CASE b = c
    <3>1. v = DefaultVector /\ builder' = builder
      BY <1>1, <1>2, <2>1
    <3>2. /\ Deallocatable(slice, memory, allocators, DefaultVector)
          /\ Dropped(slice, DefaultVector) = slice /\ Freed(memory, DefaultVector) = memory
          /\ allocators \ OwnAllocator(DefaultVector) = allocators
      BY DEF DefaultVector, NewVector, Deallocatable, Dropped, Freed, OwnAllocator
    <3>. QED
      BY <1>1, <3>1, <3>2
  <2>2. CASE b # c
    <3>. DEFINE B == [builder EXCEPT ![b] = builder[c], ![c] = builder[b]]
    <3>1. Owned(B, slice, held, memory, allocators)
      BY <1>1, Exchanging
    <3>2. v = B[c] /\ builder' = [B EXCEPT ![c] = NewBuilder(c)]
      BY <1>1, <1>2, <2>2 DEF NewBuilder
    <3>. HIDE DEF B, v
    <3>. QED
      BY <1>1, <3>1, <3>2, Destroying
  <2>. QED
    BY <2>1, <2>2
<1>. HIDE DEF v
<1>4. Owned(builder', slice', held', memory', allocators') /\ Settled(slice', held', memory')
  BY <1>2, <1>3, SettleKeeps
<1>5. \A d \in Slots \ alive' : builder'[d] = NewBuilder(d)
  BY <1>1, <1>2 DEF OwnershipInv
<1>. QED
  BY <1>2, <1>3, <1>4, <1>5 DEF OwnershipInv

LEMMA SwapMessageBuildersKeeps ==
  ASSUME OwnershipInv, NEW m \in MessageBuilders, NEW n \in MessageBuilders,
         SwapMessageBuilders(m, n) \/ MoveConstructMessage(m, n)
  PROVE  OwnershipInv'
<1>1. /\ Owned(builder, slice, held, memory, allocators) /\ builder \in [Slots -> Vector]
      /\ m \in MessageSlots /\ n \in MessageSlots /\ m \in Slots /\ n \in Slots
  BY DEF OwnershipInv, Owned, Types, Slots, MessageSlots
<1>2. /\ builder' = Swapped(builder, m, n) /\ slice' = SwappedSlices(slice, m, n)
      /\ m \in alive' /\ n \in alive' /\ alive \subseteq alive' /\ alive' \subseteq alive \cup {m}
      /\ UNCHANGED <<held, memory, allocators, ok>>
  BY DEF SwapMessageBuilders, MoveConstructMessage
<1>3. /\ Owned(builder', slice', held', memory', allocators')
      /\ \A p \in Blocks : Referenced(slice, held, p) => Referenced(slice', held', p)
  BY <1>1, <1>2, ExchangingSlices
<1>4. Settled(slice', held', memory')
  BY <1>2, <1>3 DEF OwnershipInv, Settled
<1>5. \A d \in Slots \ alive' : builder'[d] = NewBuilder(d)
  BY <1>1, <1>2 DEF OwnershipInv, Swapped
<1>. QED
  BY <1>2, <1>3, <1>4, <1>5 DEF OwnershipInv

\* temp is exchanged with m, and destroyed.
LEMMA AssigningTemporary ==
  ASSUME NEW m \in MessageBuilders, NEW B, NEW S, NEW M,
         Owned(B, S, held, M, allocators), AssignTemporary(m, B, S, M), UNCHANGED allocators
  PROVE  /\ Owned(builder', slice', held', memory', allocators') /\ Settled(slice', held', memory')
         /\ ok = TRUE => ok' = TRUE
         /\ \A d \in Slots : d # m /\ d # Temporary => builder'[d] = B[d]
         /\ builder'[Temporary] = MemberVector(Temporary)
<1>. DEFINE C == Swapped(B, m, Temporary)
            T == SwappedSlices(S, m, Temporary)
            w == MemberVector(Temporary)
<1>1. /\ m \in MessageSlots /\ Temporary \in MessageSlots /\ Temporary \in Slots /\ m \in Slots
      /\ Temporary \notin Builders /\ B \in [Slots -> Vector]
  BY OwnershipAssumption DEF MessageSlots, Slots, Owned, Types
<1>2. Owned(C, T, held, M, allocators)
  BY <1>1, ExchangingSlices
<1>3. /\ builder' = [C EXCEPT ![Temporary] = w]
      /\ ok' = (ok /\ Deallocatable(T, M, allocators, C[Temporary]))
      /\ Settle([T EXCEPT ![Temporary] = Nullptr], held, Freed(M, C[Temporary]))
  BY DEF AssignTemporary
<1>4. \A d \in Slots : d # m /\ d # Temporary => C[d] = B[d]
  BY <1>1 DEF Swapped
<1>. HIDE DEF C, T
<1>5. /\ C \in [Slots -> Vector] /\ T \in [MessageSlots -> Blocks \cup {Nullptr}]
      /\ Message(C[Temporary], Temporary, T, M)
  BY <1>1, <1>2 DEF Owned, Types, GoodSlot
<1>6. /\ w \in Vector /\ w.buf = Nullptr /\ w.reserved = 0 /\ w.size = 0
      /\ w.allocator = C[Temporary].allocator /\ w.own_allocator = C[Temporary].own_allocator
  BY <1>1, <1>5 DEF MemberVector, NewVector, Vector, Message
<1>7. [T EXCEPT ![Temporary] = Nullptr] = Dropped(T, C[Temporary])
  BY <1>1, <1>5 DEF Dropped, Message
<1>. HIDE DEF w
<1>8. /\ Deallocatable(T, M, allocators, C[Temporary])
      /\ Owned(builder', Dropped(T, C[Temporary]), held, Freed(M, C[Temporary]), allocators)
  BY <1>1, <1>2, <1>3, <1>6, DroppingBlock
<1>9. Owned(builder', slice', held', memory', allocators') /\ Settled(slice', held', memory')
  BY <1>3, <1>7, <1>8, SettleKeeps
<1>10. ok = TRUE => ok' = TRUE
  BY <1>3, <1>8
<1>11. /\ \A d \in Slots : d # m /\ d # Temporary => builder'[d] = B[d]
       /\ builder'[Temporary] = MemberVector(Temporary)
  BY <1>1, <1>3, <1>4, <1>5 DEF w
<1>. QED
  BY <1>9, <1>10, <1>11

LEMMA MoveAssignMessageKeeps ==
  ASSUME OwnershipInv, NEW m \in MessageBuilders, NEW n \in MessageBuilders, MoveAssignMessage(m, n)
  PROVE  OwnershipInv'
<1>. DEFINE B == Swapped(builder, Temporary, n)
            S == SwappedSlices(slice, Temporary, n)
<1>1. /\ Owned(builder, slice, held, memory, allocators) /\ builder \in [Slots -> Vector]
      /\ Temporary \in MessageSlots /\ n \in MessageSlots /\ {m, n} \subseteq alive
      /\ AssignTemporary(m, B, S, memory) /\ UNCHANGED <<alive, allocators>>
      /\ Temporary \in Slots \ alive /\ Temporary \notin Builders
  BY OwnershipAssumption
     DEF OwnershipInv, MoveAssignMessage, MessageSlots, Owned, Types, Slots
<1>2. Owned(B, S, held, memory, allocators)
  BY <1>1, ExchangingSlices
<1>3. \A d \in Slots \ alive : d # Temporary => B[d] = builder[d]
  BY <1>1 DEF Swapped
<1>. HIDE DEF B, S
<1>4. /\ Owned(builder', slice', held', memory', allocators') /\ Settled(slice', held', memory')
      /\ ok = TRUE => ok' = TRUE
      /\ \A d \in Slots : d # m /\ d # Temporary => builder'[d] = B[d]
      /\ builder'[Temporary] = MemberVector(Temporary)
  BY <1>1, <1>2, AssigningTemporary
<1>5. \A d \in Slots \ alive' : builder'[d] = NewBuilder(d)
  BY <1>1, <1>3, <1>4 DEF OwnershipInv, NewBuilder
<1>. QED
  BY <1>1, <1>4, <1>5 DEF OwnershipInv

LEMMA ConstructFromKeeps ==
  ASSUME OwnershipInv, NEW m \in MessageBuilders, NEW b \in Builders, ConstructFrom(m, b)
  PROVE  OwnershipInv'
<1>1. /\ Owned(builder, slice, held, memory, allocators) /\ builder \in [Slots -> Vector]
      /\ slice \in [MessageSlots -> Blocks \cup {Nullptr}] /\ memory \in [Blocks -> Block]
      /\ m \in MessageSlots /\ m \notin Builders /\ m \in Slots \ alive /\ b \in alive /\ b \in Slots
      /\ builder[b].allocator = Nullptr /\ m # b
  BY OwnershipAssumption
     DEF OwnershipInv, ConstructFrom, Constructible, MessageSlots, Owned, Types, Slots
<1>2. builder[m] = MemberVector(m) /\ slice[m] = Nullptr
  <2>1. builder[m] = MemberVector(m) /\ Message(builder[m], m, slice, memory)
    BY <1>1 DEF OwnershipInv, NewBuilder, Owned, GoodSlot
  <2>. QED
    BY <2>1 DEF Message, MemberVector, NewVector
<1>3. /\ builder' = Adopted(m, b) /\ slice' = AdoptedSlices(m, b) /\ memory' = AdoptedMemory(b)
      /\ alive' = alive \cup {m} /\ UNCHANGED <<held, allocators, ok>>
  BY DEF ConstructFrom
<1>4. Owned(builder', slice', held', memory', allocators')
  <2>1. Owned(Adopted(m, b), AdoptedSlices(m, b), held, AdoptedMemory(b), allocators)
    BY <1>1, <1>2, Adopting DEF Adopted, AdoptedSlices, AdoptedMemory
  <2>. QED
    BY <1>3, <2>1
<1>5. Settled(slice', held', memory')
  <2>1. \A p \in Blocks : memory'[p].state = "slice" => memory[p].state = "slice" \/ p = builder[b].buf
    BY <1>1, <1>3 DEF AdoptedMemory, Block
  <2>2. slice'[m] = builder[b].buf /\ \A n \in MessageSlots : n # m => slice'[n] = slice[n]
    BY <1>1, <1>3 DEF AdoptedSlices
  <2>3. \A p \in Blocks : p # Nullptr
    BY OwnershipAssumption
  <2>4. \A p \in Blocks : Referenced(slice, held, p) \/ p = builder[b].buf => Referenced(slice', held', p)
    BY <2>2, <2>3, <1>1, <1>2, <1>3 DEF Referenced
  <2>. QED
    BY <2>1, <2>4 DEF OwnershipInv, Settled
<1>6. \A d \in Slots \ alive' : builder'[d] = NewBuilder(d)
  BY <1>1, <1>3 DEF OwnershipInv, Adopted
<1>. QED
  BY <1>3, <1>4, <1>5, <1>6 DEF OwnershipInv

LEMMA AssignFromKeeps ==
  ASSUME OwnershipInv, NEW m \in MessageBuilders, NEW b \in Builders, AssignFrom(m, b)
  PROVE  OwnershipInv'
<1>. DEFINE B == Adopted(Temporary, b)
            S == AdoptedSlices(Temporary, b)
            M == AdoptedMemory(b)
<1>1. /\ Owned(builder, slice, held, memory, allocators) /\ builder \in [Slots -> Vector]
      /\ Temporary \in MessageSlots /\ {m, b} \subseteq alive /\ builder[b].allocator = Nullptr
      /\ AssignTemporary(m, B, S, M) /\ UNCHANGED <<alive, allocators>>
      /\ Temporary \in Slots \ alive /\ Temporary \notin Builders
  BY OwnershipAssumption DEF OwnershipInv, AssignFrom, MessageSlots, Owned, Types, Slots
<1>2. builder[Temporary] = MemberVector(Temporary)
  BY <1>1 DEF OwnershipInv, NewBuilder
<1>3. Owned(B, S, held, M, allocators)
  BY <1>1, <1>2, Adopting DEF Adopted, AdoptedSlices, AdoptedMemory
<1>4. \A d \in Slots \ alive : d # Temporary => B[d] = builder[d]
  BY <1>1 DEF Adopted
<1>. HIDE DEF B, S, M
<1>5. /\ Owned(builder', slice', held', memory', allocators') /\ Settled(slice', held', memory')
      /\ ok = TRUE => ok' = TRUE
      /\ \A d \in Slots : d # m /\ d # Temporary => builder'[d] = B[d]
      /\ builder'[Temporary] = MemberVector(Temporary)
  BY <1>1, <1>3, AssigningTemporary
<1>6. \A d \in Slots \ alive' : builder'[d] = NewBuilder(d)
  BY <1>1, <1>4, <1>5 DEF OwnershipInv, NewBuilder
<1>. QED
  BY <1>1, <1>5, <1>6 DEF OwnershipInv

----------------------------------------------------------------------------
(* Releasing.                                                              *)

LEMMA ContentType ==
  ASSUME NEW M, M \in [Blocks -> Block], NEW v, v.size \in Nat, v.buf \in Blocks \cup {Nullptr},
         v.buf = Nullptr => v.size = 0, v.buf # Nullptr => v.size <= Len(M[v.buf].data)
  PROVE  Content(M, v) \in Seq(Objects \cup {Unwritten})
<1>1. \A k \in 1 .. v.size : M[v.buf].data[k] \in Objects \cup {Unwritten}
  <2>. SUFFICES ASSUME NEW k \in 1 .. v.size
                PROVE  M[v.buf].data[k] \in Objects \cup {Unwritten}
    OBVIOUS
  <2>1. v.buf \in Blocks /\ M[v.buf] \in Block /\ k \in 1 .. Len(M[v.buf].data)
    BY DEF Block
  <2>. QED
    BY <2>1 DEF Block
<1>2. Content(M, v) \in [1 .. v.size -> Objects \cup {Unwritten}]
  BY <1>1 DEF Content
<1>. QED
  BY <1>2

\* What is in a builder is content of its block.
LEMMA BuilderContent ==
  ASSUME OwnershipInv, NEW b \in Slots
  PROVE  /\ builder[b] \in Vector /\ Content(memory, builder[b]) \in Seq(Objects \cup {Unwritten})
         /\ builder[b].buf = Nullptr => builder[b].size = 0
         /\ builder[b].buf # Nullptr => builder[b].size <= Len(memory[builder[b].buf].data)
<1>1. /\ builder[b] \in Vector /\ GoodSlot(b, builder[b], slice, memory, allocators)
      /\ memory \in [Blocks -> Block]
  BY DEF OwnershipInv, Owned, Types
<1>2. /\ builder[b].buf = Nullptr => builder[b].size = 0
      /\ builder[b].buf # Nullptr => builder[b].size <= Len(memory[builder[b].buf].data)
  BY <1>1 DEF GoodSlot, Sized, OwnsIts, Message, Vector, Slots
<1>. QED
  BY <1>1, <1>2, ContentType DEF Vector

LEMMA ReleaseKeeps ==
  ASSUME OwnershipInv, NEW b \in Builders, NEW x \in Holders, Release(b, x) \/ ReleaseRaw(b, x)
  PROVE  OwnershipInv'
<1>. DEFINE v == builder[b]
            h == held'[x]
            w == builder'[b]
<1>1. /\ Owned(builder, slice, held, memory, allocators) /\ builder \in [Slots -> Vector]
      /\ held \in [Holders -> HeldBuffer] /\ b \in Slots /\ v \in Vector
      /\ GoodSlot(b, v, slice, memory, allocators)
  BY DEF OwnershipInv, Owned, Types, Slots
<1>2. /\ Finished(b) /\ held[x] = NoBuffer
      /\ UNCHANGED <<alive, slice, memory, allocators, ok>>
  BY <1>1 DEF Release, ReleaseRaw, Vacant, Owned, GoodHeld
<1>3. held' = [held EXCEPT ![x] = h] /\ builder' = [builder EXCEPT ![b] = w]
  BY <1>1 DEF Release, ReleaseRaw
<1>4. \A kind \in {"detached", "raw"}, own \in BOOLEAN :
        LET g == Buffer(kind, v, own)
        IN  /\ g \in HeldBuffer /\ g.kind = kind /\ g.own_allocator = own /\ g.allocator = v.allocator
            /\ g.buf = v.buf /\ g.reserved = v.reserved /\ g.size = v.size
            /\ g.value = Content(memory, v)
  <2>1. v.allocator \in Allocators \cup {Nullptr} /\ Content(memory, v) \in Seq(Objects \cup {Unwritten})
    BY <1>1, BuilderContent DEF GoodSlot, Plain, Owned, Types
  <2>. QED
    BY <1>1, <2>1 DEF Buffer, HeldBuffer, Vector
<1>5. /\ w \in Vector /\ w.buf = Nullptr /\ w.reserved = 0 /\ w.size = 0
      /\ h \in HeldBuffer /\ h.buf = v.buf /\ h.reserved = v.reserved /\ h.size = v.size
      /\ h.allocator = v.allocator /\ h.value = Content(memory, v)
      /\ \/ /\ h.kind = "detached" /\ h.own_allocator = v.own_allocator
            /\ w.allocator = Nullptr /\ ~w.own_allocator
         \/ /\ h.kind = "raw" /\ ~h.own_allocator
            /\ w.allocator = v.allocator /\ w.own_allocator = v.own_allocator
  <2>1. CASE Release(b, x)
    <3>. DEFINE u == IF v.own_allocator THEN WithAllocatorOf(v, DefaultVector) ELSE v
    <3>1. h = Buffer("detached", v, v.own_allocator) /\ w = WithoutBuffer(u)
      BY <1>1, <2>1 DEF Release
    <3>2. u \in Vector /\ u.allocator = Nullptr /\ ~u.own_allocator
      <4>1. CASE v.own_allocator
        BY <1>1, <4>1 DEF WithAllocatorOf, DefaultVector, NewVector, Vector
      <4>2. CASE ~v.own_allocator
        BY <1>1, <4>2 DEF GoodSlot, Plain
      <4>. QED
        BY <4>1, <4>2
    <3>3. v.own_allocator \in BOOLEAN
      BY <1>1 DEF Vector
    <3>. HIDE DEF u, h, w, v
    <3>4. /\ w \in Vector /\ w.buf = Nullptr /\ w.reserved = 0 /\ w.size = 0
          /\ w.allocator = Nullptr /\ (w.own_allocator <=> u.own_allocator)
      BY <3>1, <3>2, WithoutBlock
    <3>. QED
      BY <3>1, <3>2, <3>3, <3>4, <1>4
  <2>2. CASE ReleaseRaw(b, x)
    <3>1. h = Buffer("raw", v, FALSE) /\ w = WithoutBuffer(v)
      BY <1>1, <2>2 DEF ReleaseRaw
    <3>. HIDE DEF h, w, v
    <3>. QED
      BY <1>1, <1>4, <3>1, WithoutBlock
  <2>. QED
    BY <2>1, <2>2
<1>. HIDE DEF h, w
<1>6. Owned(builder', slice', held', memory', allocators')
  BY <1>1, <1>2, <1>3, <1>5, Handing
<1>7. Settled(slice', held', memory')
  <2>1. \A p \in Blocks : Referenced(slice, held, p) => Referenced(slice', held', p)
    BY <1>1, <1>2, <1>3, NoBufferType DEF Referenced, IsSlice
  <2>. QED
    BY <2>1, <1>2 DEF OwnershipInv, Settled
<1>8. \A d \in Slots \ alive' : builder'[d] = NewBuilder(d)
  BY <1>1, <1>2, <1>3 DEF OwnershipInv, Finished
<1>. QED
  BY <1>2, <1>6, <1>7, <1>8 DEF OwnershipInv

LEMMA SliceBufferType ==
  ASSUME OwnershipInv, NEW m \in MessageBuilders, NEW kind \in {"slice", "message"},
         NEW released \in BOOLEAN
  PROVE  LET h == SliceBuffer(kind, builder[m], released)
         IN  /\ h \in HeldBuffer /\ IsSlice(h) /\ ~h.own_allocator
             /\ h.buf = builder[m].buf /\ h.size = builder[m].size
             /\ (h.released <=> released) /\ h.value = Content(memory, h)
             /\ h.buf = Nullptr => h.size = 0
             /\ h.buf # Nullptr => h.size <= Len(memory[h.buf].data)
<1>. DEFINE v == builder[m]
            h == SliceBuffer(kind, v, released)
<1>1. m \in Slots
  BY DEF Slots, MessageSlots
<1>2. /\ v \in Vector /\ Content(memory, v) \in Seq(Objects \cup {Unwritten})
      /\ v.buf = Nullptr => v.size = 0
      /\ v.buf # Nullptr => v.size <= Len(memory[v.buf].data)
  BY <1>1, BuilderContent
<1>3. /\ h.buf = v.buf /\ h.size = v.size /\ h.kind = kind /\ h.own_allocator = FALSE
      /\ h.released = released /\ h.value = Content(memory, v)
  BY DEF SliceBuffer, NoBuffer
<1>4. h \in HeldBuffer
  BY <1>2, NoBufferType DEF SliceBuffer, HeldBuffer, Vector
<1>5. Content(memory, h) = Content(memory, v)
  BY <1>3 DEF Content
<1>. QED
  BY <1>2, <1>3, <1>4, <1>5 DEF IsSlice

\* A MessageBuilder gives up its block, to what has a slice of it.
LEMMA SlicesRemain ==
  ASSUME OwnershipInv, NEW m \in MessageBuilders,
         NEW w, w \in {WithoutBuffer(builder[m]), ClearedBuilder(WithoutBuffer(builder[m]))}
  PROVE  LET B == [builder EXCEPT ![m] = w]
         IN  /\ Deallocatable(slice, memory, allocators, builder[m])
             /\ Owned(B, [slice EXCEPT ![m] = Nullptr], held, memory, allocators)
             /\ Dropped(slice, builder[m]) = [slice EXCEPT ![m] = Nullptr]
             /\ Freed(memory, builder[m]) = memory
             /\ builder[m].buf # Nullptr => memory[builder[m].buf].state = "slice"
             /\ builder[m].buf # Nullptr => \A b \in Slots : B[b].buf # builder[m].buf
             /\ slice[m] = builder[m].buf
<1>. DEFINE v == builder[m]
            B == [builder EXCEPT ![m] = w]
<1>1. /\ m \in MessageSlots /\ m \in Slots /\ Owned(builder, slice, held, memory, allocators)
      /\ v \in Vector /\ builder \in [Slots -> Vector] /\ Message(v, m, slice, memory)
      /\ slice \in [MessageSlots -> Blocks \cup {Nullptr}]
  BY DEF OwnershipInv, Owned, Types, Slots, MessageSlots, GoodSlot
<1>2. /\ Dropped(slice, v) = [slice EXCEPT ![m] = Nullptr] /\ Freed(memory, v) = memory
      /\ (v.buf # Nullptr => memory[v.buf].state = "slice") /\ slice[m] = v.buf
  BY <1>1 DEF Message, Dropped, Freed
<1>3. /\ w \in Vector /\ w.buf = Nullptr /\ w.reserved = 0 /\ w.size = 0
      /\ w.allocator = v.allocator /\ w.own_allocator = v.own_allocator
  BY <1>1, WithoutBlock
<1>. HIDE DEF v
<1>4. /\ Deallocatable(slice, memory, allocators, v)
      /\ Owned(B, Dropped(slice, v), held, Freed(memory, v), allocators)
  BY <1>1, <1>3, DroppingBlock DEF v
<1>5. v.buf # Nullptr => \A b \in Slots : B[b].buf # v.buf
  BY <1>1, <1>3, OwnBlock DEF v
<1>. QED
  BY <1>2, <1>4, <1>5 DEF v

LEMMA ReleaseRawSliceKeeps ==
  ASSUME OwnershipInv, NEW m \in MessageBuilders, NEW x \in Holders, ReleaseRawSlice(m, x)
  PROVE  OwnershipInv'
<1>. DEFINE v == builder[m]
            h == SliceBuffer("slice", v, TRUE)
            S == [slice EXCEPT ![m] = Nullptr]
<1>1. /\ builder' = [builder EXCEPT ![m] = WithoutBuffer(v)] /\ slice' = S
      /\ held' = [held EXCEPT ![x] = h] /\ UNCHANGED <<alive, memory, allocators, ok>>
      /\ m \in alive /\ held[x] = NoBuffer
      /\ builder \in [Slots -> Vector] /\ m \in Slots /\ m \in MessageSlots
      /\ held \in [Holders -> HeldBuffer] /\ slice \in [MessageSlots -> Blocks \cup {Nullptr}]
  BY DEF ReleaseRawSlice, Finished, OwnershipInv, Owned, Types, Slots, MessageSlots, Vacant, GoodHeld
<1>2. /\ h \in HeldBuffer /\ IsSlice(h) /\ ~h.own_allocator /\ h.buf = v.buf
      /\ h.value = Content(memory, h)
      /\ h.buf = Nullptr => h.size = 0
      /\ h.buf # Nullptr => h.size <= Len(memory[h.buf].data)
  BY SliceBufferType
<1>3. /\ Owned(builder', S, held, memory, allocators)
      /\ v.buf # Nullptr => memory[v.buf].state = "slice"
      /\ v.buf # Nullptr => \A b \in Slots : builder'[b].buf # v.buf
      /\ slice[m] = v.buf
  BY <1>1, SlicesRemain
<1>. HIDE DEF h, v
<1>4. Owned(builder', S, held', memory, allocators)
  BY <1>1, <1>2, <1>3, TakingSlice DEF GoodSlice
<1>5. Settled(slice', held', memory')
  <2>1. \A p \in Blocks : Referenced(slice, held, p) => Referenced(slice', held', p)
    <3>. SUFFICES ASSUME NEW p \in Blocks, Referenced(slice, held, p)
                  PROVE  Referenced(slice', held', p)
      OBVIOUS
    <3>1. CASE p = v.buf
      BY <3>1, <1>1, <1>2 DEF Referenced
    <3>2. CASE p # v.buf
      BY <3>2, <1>1, <1>3, NoBufferType DEF Referenced, IsSlice
    <3>. QED
      BY <3>1, <3>2
  <2>. QED
    BY <2>1, <1>1 DEF OwnershipInv, Settled
<1>6. \A d \in Slots \ alive' : builder'[d] = NewBuilder(d)
  BY <1>1 DEF OwnershipInv
<1>. QED
  BY <1>1, <1>4, <1>5, <1>6 DEF OwnershipInv

LEMMA GetMessageKeeps ==
  ASSUME OwnershipInv, NEW m \in MessageBuilders, NEW x \in Holders, GetMessage(m, x)
  PROVE  OwnershipInv'
<1>. DEFINE v == builder[m]
            h == SliceBuffer("message", v, FALSE)
<1>1. /\ held' = [held EXCEPT ![x] = h] /\ UNCHANGED <<alive, builder, slice, memory, allocators>>
      /\ ok' = (ok /\ Deallocatable(slice, memory, allocators, v))
      /\ held[x] = NoBuffer /\ Owned(builder, slice, held, memory, allocators)
  BY DEF GetMessage, OwnershipInv, Owned, Vacant, GoodHeld
<1>2. /\ h \in HeldBuffer /\ IsSlice(h) /\ ~h.own_allocator /\ h.buf = v.buf /\ ~h.released
      /\ h.buf = Nullptr => h.size = 0
      /\ h.buf # Nullptr => h.size <= Len(memory[h.buf].data)
  BY SliceBufferType
<1>3. /\ Deallocatable(slice, memory, allocators, v)
      /\ v.buf # Nullptr => memory[v.buf].state = "slice"
  BY SlicesRemain
<1>. HIDE DEF h, v
<1>4. /\ Owned(builder', slice', held', memory', allocators')
      /\ \A p \in Blocks : Referenced(slice, held, p) => Referenced(slice', held', p)
  BY <1>1, <1>2, <1>3, TakingSlice DEF GoodSlice
<1>5. Settled(slice', held', memory')
  BY <1>1, <1>4 DEF OwnershipInv, Settled
<1>. QED
  BY <1>1, <1>3, <1>4, <1>5 DEF OwnershipInv

LEMMA ReleaseMessageKeeps ==
  ASSUME OwnershipInv, NEW m \in MessageBuilders, NEW x \in Holders, ReleaseMessage(m, x)
  PROVE  OwnershipInv'
<1>. DEFINE v == builder[m]
            h == SliceBuffer("message", v, TRUE)
            H == [held EXCEPT ![x] = h]
            S == [slice EXCEPT ![m] = Nullptr]
<1>1. /\ builder' = [builder EXCEPT ![m] = ClearedBuilder(WithoutBuffer(v))]
      /\ UNCHANGED <<alive, allocators>> /\ m \in alive /\ held[x] = NoBuffer
      /\ ok' = (ok /\ Deallocatable(slice, memory, allocators, v))
      /\ Settle(Dropped(slice, v), H, Freed(memory, v))
      /\ builder \in [Slots -> Vector] /\ m \in Slots
  BY DEF ReleaseMessage, ResetWith, OwnershipInv, Owned, Types, Slots, MessageSlots, Vacant, GoodHeld
<1>2. /\ h \in HeldBuffer /\ IsSlice(h) /\ ~h.own_allocator /\ h.buf = v.buf
      /\ h.value = Content(memory, h)
      /\ h.buf = Nullptr => h.size = 0
      /\ h.buf # Nullptr => h.size <= Len(memory[h.buf].data)
  BY SliceBufferType
<1>3. /\ Deallocatable(slice, memory, allocators, v)
      /\ Owned(builder', S, held, memory, allocators)
      /\ Dropped(slice, v) = S /\ Freed(memory, v) = memory
      /\ v.buf # Nullptr => memory[v.buf].state = "slice"
      /\ v.buf # Nullptr => \A b \in Slots : builder'[b].buf # v.buf
  BY <1>1, SlicesRemain
<1>. HIDE DEF h, v
<1>4. Owned(builder', S, H, memory, allocators)
  BY <1>1, <1>2, <1>3, TakingSlice DEF GoodSlice
<1>5. Owned(builder', slice', held', memory', allocators') /\ Settled(slice', held', memory')
  BY <1>1, <1>3, <1>4, SettleKeeps
<1>6. \A d \in Slots \ alive' : builder'[d] = NewBuilder(d)
  BY <1>1 DEF OwnershipInv
<1>. QED
  BY <1>1, <1>3, <1>5, <1>6 DEF OwnershipInv

----------------------------------------------------------------------------
(* Released buffers.                                                       *)

LEMMA MoveDetachedKeeps ==
  ASSUME OwnershipInv, NEW x \in Holders, NEW y \in Holders, MoveDetached(x, y)
  PROVE  OwnershipInv'
<1>. DEFINE h == held[x]
            H == [held EXCEPT ![x] = NoBuffer]
            G == [held EXCEPT ![x] = held[y], ![y] = EmptyDetached]
<1>1. /\ Owned(builder, slice, held, memory, allocators) /\ held \in [Holders -> HeldBuffer]
      /\ x # y /\ h.kind \in {"none", "detached"} /\ held[y].kind = "detached"
      /\ ok' = (ok /\ Deallocatable(slice, memory, allocators, h))
      /\ allocators' = allocators \ OwnAllocator(h)
      /\ Settle(Dropped(slice, h), G, Freed(memory, h))
      /\ UNCHANGED <<alive, builder>>
  BY DEF MoveDetached, Destroys, OwnershipInv, Owned, Types
<1>2. H[x] = NoBuffer /\ H[y] = held[y] /\ G = [H EXCEPT ![x] = H[y], ![y] = EmptyDetached]
  BY <1>1
<1>. HIDE DEF h
<1>3. /\ Deallocatable(slice, memory, allocators, h) /\ Dropped(slice, h) = slice
      /\ Owned(builder, slice, H, Freed(memory, h), allocators \ OwnAllocator(h))
  BY <1>1, DroppingHeld DEF h
<1>. HIDE DEF H, G
<1>4. Owned(builder, slice, G, Freed(memory, h), allocators \ OwnAllocator(h))
  BY <1>1, <1>2, <1>3, Passing
<1>5. Owned(builder', slice', held', memory', allocators') /\ Settled(slice', held', memory')
  BY <1>1, <1>3, <1>4, SettleKeeps
<1>. QED
  BY <1>1, <1>3, <1>5 DEF OwnershipInv

LEMMA LetGoKeeps ==
  ASSUME OwnershipInv, NEW x \in Holders, LetGo(x)
  PROVE  OwnershipInv'
<1>. DEFINE h == held[x]
            H == [held EXCEPT ![x] = NoBuffer]
<1>1. /\ Owned(builder, slice, held, memory, allocators) /\ h \in HeldBuffer
      /\ UNCHANGED <<alive, builder>>
      /\ h.kind = "raw" => h.allocator \in allocators \cup {Nullptr}
  BY DEF LetGo, OwnershipInv, Owned, Types
<1>2. CASE IsSlice(h)
  <2>1. Settle(slice, H, memory) /\ UNCHANGED <<allocators, ok>>
    BY <1>2 DEF LetGo
  <2>2. Owned(builder, slice, H, memory, allocators)
    BY <1>1, <1>2, LosingSlice
  <2>3. Owned(builder', slice', held', memory', allocators') /\ Settled(slice', held', memory')
    BY <1>1, <2>1, <2>2, SettleKeeps
  <2>. QED
    BY <1>1, <2>1, <2>3 DEF OwnershipInv
<1>3. CASE ~IsSlice(h)
  <2>1. /\ ok' = (ok /\ Deallocatable(slice, memory, allocators, h))
        /\ allocators' = allocators \ OwnAllocator(h)
        /\ Settle(Dropped(slice, h), H, Freed(memory, h))
    BY <1>3 DEF LetGo, Destroys
  <2>2. h.kind \in {"none", "detached", "raw"}
    BY <1>1, <1>3 DEF IsSlice, HeldBuffer
  <2>. HIDE DEF h
  <2>3. /\ Deallocatable(slice, memory, allocators, h) /\ Dropped(slice, h) = slice
        /\ Owned(builder, slice, H, Freed(memory, h), allocators \ OwnAllocator(h))
    BY <1>1, <2>2, DroppingHeld DEF h
  <2>4. Owned(builder', slice', held', memory', allocators') /\ Settled(slice', held', memory')
    BY <1>1, <2>1, <2>3, SettleKeeps
  <2>. QED
    BY <1>1, <2>1, <2>3, <2>4 DEF OwnershipInv
<1>. QED
  BY <1>2, <1>3

\* A slice under another kind is as good.
LEMMA SliceAs ==
  ASSUME NEW B, NEW S, NEW H, NEW M, NEW A, Owned(B, S, H, M, A), NEW y \in Holders, IsSlice(H[y]),
         NEW kind \in {"message", "bytes"}
  PROVE  GoodSlice([H[y] EXCEPT !.kind = kind], B, M)
<1>. DEFINE h == [H[y] EXCEPT !.kind = kind]
<1>1. H[y] \in HeldBuffer /\ GoodHeld(H[y], M, A)
  BY DEF Owned, Types
<1>2. h \in HeldBuffer
  BY <1>1 DEF HeldBuffer
<1>3. /\ h.kind = kind /\ h.buf = H[y].buf /\ h.size = H[y].size /\ h.value = H[y].value
      /\ (h.own_allocator <=> H[y].own_allocator) /\ (h.released <=> H[y].released)
  BY <1>1 DEF HeldBuffer
<1>. HIDE DEF h
<1>4. Content(M, h) = Content(M, H[y])
  BY <1>3 DEF Content
<1>5. h.released => /\ Content(M, h) = h.value
                    /\ h.buf # Nullptr => \A b \in Slots : B[b].buf # h.buf
  BY <1>3, <1>4 DEF Owned, Kept
<1>. QED
  BY <1>1, <1>2, <1>3, <1>5 DEF GoodHeld, GoodSlice, IsSlice, h

LEMMA SerializeKeeps ==
  ASSUME OwnershipInv, NEW x \in Holders, NEW y \in Holders, Serialize(x, y)
  PROVE  OwnershipInv'
<1>. DEFINE h == [held[x] EXCEPT !.kind = "bytes"]
<1>1. /\ Owned(builder, slice, held, memory, allocators) /\ IsSlice(held[x]) /\ held[y] = NoBuffer
      /\ held' = [held EXCEPT ![y] = h]
      /\ UNCHANGED <<alive, builder, slice, memory, allocators, ok>>
  BY DEF Serialize, OwnershipInv, Owned, GoodHeld, Vacant, IsSlice
<1>2. GoodSlice(h, builder, memory)
  BY <1>1, SliceAs
<1>. HIDE DEF h
<1>3. /\ Owned(builder', slice', held', memory', allocators')
      /\ \A p \in Blocks : Referenced(slice, held, p) => Referenced(slice', held', p)
  BY <1>1, <1>2, TakingSlice
<1>4. Settled(slice', held', memory')
  BY <1>1, <1>3 DEF OwnershipInv, Settled
<1>. QED
  BY <1>1, <1>3, <1>4 DEF OwnershipInv

LEMMA MoveMessageKeeps ==
  ASSUME OwnershipInv, NEW x \in Holders, NEW y \in Holders, NEW kind \in {"message", "bytes"},
         MoveMessage(x, y, kind)
  PROVE  OwnershipInv'
<1>. DEFINE h == [held[y] EXCEPT !.kind = "message"]
            H == [held EXCEPT ![x] = NoBuffer]
            G == [H EXCEPT ![x] = h]
<1>1. /\ Owned(builder, slice, held, memory, allocators) /\ held \in [Holders -> HeldBuffer]
      /\ x # y /\ held[x].kind \in {"none", "message"} /\ IsSlice(held[y])
      /\ Settle(slice, [held EXCEPT ![x] = h, ![y] = NoBuffer], memory)
      /\ UNCHANGED <<alive, builder, allocators, ok>>
  BY DEF MoveMessage, OwnershipInv, Owned, Types, IsSlice
<1>2. /\ [held EXCEPT ![x] = h, ![y] = NoBuffer] = [G EXCEPT ![y] = NoBuffer]
      /\ H[x] = NoBuffer /\ G[y] = held[y]
  BY <1>1
<1>3. Owned(builder, slice, H, memory, allocators)
  <2>1. CASE held[x].kind = "none"
    <3>1. held[x] = NoBuffer
      BY <1>1, <2>1 DEF Owned, GoodHeld
    <3>2. H = held
      BY <1>1, <3>1
    <3>. QED
      BY <1>1, <3>2
  <2>2. CASE held[x].kind = "message"
    BY <1>1, <2>2, LosingSlice DEF IsSlice
  <2>. QED
    BY <1>1, <2>1, <2>2
<1>4. GoodSlice(h, builder, memory)
  BY <1>1, SliceAs
<1>. HIDE DEF h, H
<1>5. Owned(builder, slice, G, memory, allocators)
  BY <1>2, <1>3, <1>4, TakingSlice
<1>. HIDE DEF G
<1>6. Owned(builder, slice, [G EXCEPT ![y] = NoBuffer], memory, allocators)
  BY <1>1, <1>2, <1>5, LosingSlice
<1>7. Owned(builder', slice', held', memory', allocators') /\ Settled(slice', held', memory')
  BY <1>1, <1>2, <1>6, SettleKeeps
<1>. QED
  BY <1>1, <1>7 DEF OwnershipInv

----------------------------------------------------------------------------
(* The invariant and the properties.                                       *)

LEMMA OwnershipStart ==
  ASSUME OwnershipInit
  PROVE  OwnershipInv
<1>1. /\ \A b \in Slots : /\ builder[b] = NewBuilder(b) /\ builder[b] \in Vector
                          /\ builder[b].buf = Nullptr /\ Sized(builder[b])
                          /\ ~builder[b].own_allocator
      /\ \A x \in Holders : held[x] = NoBuffer
      /\ \A p \in Blocks : memory[p] = FreeBlock
      /\ builder \in [Slots -> Vector]
  BY NewVectorTypes DEF OwnershipInit, NewBuilder, Slots, MemberVector, DefaultVector, NewVector
<1>2. Types(builder, slice, held, memory, allocators)
  BY <1>1, NoBufferType, FreeBlockType DEF Types, OwnershipInit
<1>3. \A b \in Slots : GoodSlot(b, builder[b], slice, memory, allocators)
  BY <1>1, OwnershipAssumption
     DEF GoodSlot, Plain, OwnsIts, Message, NewBuilder, DefaultVector, MemberVector, NewVector,
         OwnershipInit
<1>4. /\ ~Solid(NoBuffer) /\ ~IsSlice(NoBuffer) /\ ~NoBuffer.own_allocator /\ ~NoBuffer.released
      /\ NoBuffer.kind = "none"
  BY NoBufferType DEF Solid, IsSlice
<1>5. \A x \in Holders : GoodHeld(held[x], memory, allocators)
  BY <1>1, <1>4 DEF GoodHeld
<1>6. Unique(builder, held) /\ UniqueAllocators(builder, held) /\ Kept(builder, held, memory)
  BY <1>1, <1>4 DEF Unique, UniqueAllocators, Kept
<1>7. Covered(builder, held, memory, allocators)
  BY <1>1, FreeBlockType DEF Covered, OwnershipInit
<1>8. Settled(slice, held, memory)
  BY <1>1, FreeBlockType DEF Settled
<1>. QED
  BY <1>1, <1>2, <1>3, <1>5, <1>6, <1>7, <1>8 DEF OwnershipInv, Owned, OwnershipInit

LEMMA OwnershipStep ==
  ASSUME OwnershipInv, [OwnershipNext]_ownershipVars
  PROVE  OwnershipInv'
<1>1. ASSUME NEW b \in Builders \cup MessageBuilders,
             \/ Construct(b) \/ Destroy(b) \/ FinishBuffer(b) \/ ClearForReuse(b) \/ ResetForReuse(b)
             \/ \E object \in Objects : Write(b, object)
      PROVE  OwnershipInv'
  BY <1>1, ConstructKeeps, DestroyKeeps, ResizeKeeps, ResetForReuseKeeps, WriteKeeps
<1>2. ASSUME NEW b \in Builders,
             \/ \E a \in Allocators : ConstructWith(b, a)
             \/ \E c \in Builders : SwapBuilders(b, c) \/ MoveConstruct(b, c) \/ MoveAssign(b, c)
             \/ \E m \in MessageBuilders : ConstructFrom(m, b) \/ AssignFrom(m, b)
             \/ \E x \in Holders : Release(b, x) \/ ReleaseRaw(b, x)
      PROVE  OwnershipInv'
  BY <1>2, ConstructWithKeeps, SwapBuildersKeeps, MoveAssignKeeps, ConstructFromKeeps,
     AssignFromKeeps, ReleaseKeeps
<1>3. ASSUME NEW m \in MessageBuilders,
             \/ \E n \in MessageBuilders :
                  SwapMessageBuilders(m, n) \/ MoveConstructMessage(m, n) \/ MoveAssignMessage(m, n)
             \/ \E x \in Holders : ReleaseRawSlice(m, x) \/ GetMessage(m, x) \/ ReleaseMessage(m, x)
      PROVE  OwnershipInv'
  BY <1>3, SwapMessageBuildersKeeps, MoveAssignMessageKeeps, ReleaseRawSliceKeeps, GetMessageKeeps,
     ReleaseMessageKeeps
<1>4. ASSUME NEW x \in Holders,
             \/ LetGo(x)
             \/ \E y \in Holders : MoveDetached(x, y) \/ MoveMessage(x, y, "message")
                                     \/ Serialize(x, y) \/ Deserialize(x, y)
      PROVE  OwnershipInv'
  BY <1>4, LetGoKeeps, MoveDetachedKeeps, MoveMessageKeeps, SerializeKeeps DEF Deserialize
<1>5. CASE UNCHANGED ownershipVars
  <2>1. /\ Owned(builder', slice', held', memory', allocators')
        /\ Settled(slice', held', memory')
    BY <1>5 DEF OwnershipInv, ownershipVars
  <2>. QED
    BY <1>5, <2>1 DEF OwnershipInv, ownershipVars
<1>. QED
  BY <1>1, <1>2, <1>3, <1>4, <1>5 DEF OwnershipNext

\* The inductive invariant holds in every state.
LEMMA OwnershipInvHolds == OwnershipSpec => []OwnershipInv
  BY OwnershipStart, OwnershipStep, PTL DEF OwnershipSpec

LEMMA InvTypes ==
  ASSUME OwnershipInv
  PROVE  OwnershipTypeOK
  BY DEF OwnershipInv, OwnershipTypeOK, Owned, Types, Slots

\* Builders that do not exist own nothing.
LEMMA AbsentSlots ==
  ASSUME OwnershipInv, NEW b \in Slots, b \notin alive
  PROVE  builder[b].buf = Nullptr /\ ~builder[b].own_allocator
<1>1. builder[b] = NewBuilder(b) /\ (b \in MessageSlots => b \notin Builders)
  BY OwnershipAssumption DEF OwnershipInv
<1>2. CASE b \in Builders
  BY <1>1, <1>2 DEF NewBuilder, DefaultVector, NewVector
<1>3. CASE b \in MessageSlots
  BY <1>1, <1>3 DEF NewBuilder, MemberVector, NewVector
<1>. QED
  BY <1>2, <1>3 DEF Slots

\* The one owner of a block, and of an allocator.
LEMMA InvOwnedOnce ==
  ASSUME OwnershipInv
  PROVE  OwnedOnce
<1>1. /\ Owned(builder, slice, held, memory, allocators) /\ ok
      /\ Settled(slice, held, memory) /\ alive \subseteq Slots
      /\ \A p \in Blocks : p # Nullptr
  BY OwnershipAssumption DEF OwnershipInv, Slots, MessageSlots
<1>2. ASSUME NEW p \in Blocks
      PROVE  \A o, q \in OwnersOf(p) : o = q
  <2>. SUFFICES ASSUME NEW o \in OwnersOf(p), NEW q \in OwnersOf(p)
                PROVE  o = q
    OBVIOUS
  <2>1. \A r \in OwnersOf(p) :
          \/ \E b \in Slots : r = <<"builder", b>> /\ builder[b].buf = p
          \/ \E x \in Holders : r = <<"holder", x>> /\ Solid(held[x]) /\ held[x].buf = p
    BY <1>1 DEF OwnersOf, Solid
  <2>2. /\ \A b, c \in Slots : builder[b].buf = p /\ builder[c].buf = p => b = c
        /\ \A b \in Slots, x \in Holders : builder[b].buf = p /\ held[x].buf = p => ~Solid(held[x])
        /\ \A x, y \in Holders :
             Solid(held[x]) /\ Solid(held[y]) /\ held[x].buf = p /\ held[y].buf = p => x = y
    BY <1>1 DEF Owned, Unique
  <2>. QED
    BY <2>1, <2>2
<1>3. ASSUME NEW p \in Blocks, memory[p].state = "allocated"
      PROVE  \E o \in OwnersOf(p) : OwnersOf(p) = {o}
  <2>1. (\E b \in Slots : builder[b].buf = p) \/ (\E x \in Holders : Solid(held[x]) /\ held[x].buf = p)
    BY <1>1, <1>3 DEF Owned, Covered
  <2>2. \E o : o \in OwnersOf(p)
    BY <1>1, <2>1, AbsentSlots DEF OwnersOf, Solid
  <2>. QED
    BY <1>2, <2>2
<1>4. ASSUME NEW p \in Blocks, memory[p].state = "free"
      PROVE  OwnersOf(p) = {} /\ ~Referenced(slice, held, p)
  <2>1. \A b \in Slots : builder[b].buf # p
    <3>. SUFFICES ASSUME NEW b \in Slots, builder[b].buf = p
                  PROVE  FALSE
      OBVIOUS
    <3>1. GoodSlot(b, builder[b], slice, memory, allocators)
      BY <1>1 DEF Owned
    <3>. QED
      BY <1>1, <1>4, <3>1 DEF GoodSlot, OwnsIts, Message, Slots
  <2>2. \A x \in Holders : held[x].buf # p
    BY <1>1, <1>4, ReleasedBuffer
  <2>3. \A m \in MessageSlots : slice[m] # p
    <3>1. \A m \in MessageSlots : m \in Slots /\ Message(builder[m], m, slice, memory)
      BY <1>1 DEF Owned, GoodSlot, Slots
    <3>. QED
      BY <2>1, <3>1 DEF Message
  <2>. QED
    BY <1>1, <2>1, <2>2, <2>3 DEF OwnersOf, Referenced
<1>5. ASSUME NEW a \in allocators
      PROVE  \E o \in AllocatorOwners(a) : AllocatorOwners(a) = {o}
  <2>1. \A r \in AllocatorOwners(a) :
          \/ \E b \in Slots : r = <<"builder", b>> /\ builder[b].own_allocator
                                /\ builder[b].allocator = a
          \/ \E x \in Holders : r = <<"holder", x>> /\ held[x].own_allocator
                                  /\ held[x].allocator = a
    BY <1>1 DEF AllocatorOwners
  <2>2. \A o, q \in AllocatorOwners(a) : o = q
    BY <1>1, <2>1 DEF Owned, UniqueAllocators
  <2>3. \E o : o \in AllocatorOwners(a)
    <3>1. \A b \in Slots : builder[b].own_allocator => b \in alive
      BY AbsentSlots
    <3>2. \/ \E b \in Slots : builder[b].own_allocator /\ builder[b].allocator = a
          \/ \E x \in Holders : held[x].own_allocator /\ held[x].allocator = a
      BY <1>1, <1>5 DEF Owned, Covered
    <3>3. \A b \in alive : builder[b].own_allocator /\ builder[b].allocator = a
                             => <<"builder", b>> \in AllocatorOwners(a)
      BY DEF AllocatorOwners
    <3>4. \A x \in Holders : held[x].own_allocator /\ held[x].allocator = a
                               => <<"holder", x>> \in AllocatorOwners(a)
      BY DEF AllocatorOwners
    <3>. QED
      BY <3>1, <3>2, <3>3, <3>4
  <2>. QED
    BY <2>2, <2>3
<1>. QED
  BY <1>1, <1>2, <1>3, <1>4, <1>5 DEF OwnedOnce, Settled

\* Builders, slices, released buffers and memory keep their types.
THEOREM TypeCorrect == OwnershipSpec => []OwnershipTypeOK
  BY OwnershipInvHolds, InvTypes, PTL

\* Whatever is done with builders, MessageBuilders and what is released from them,
\* memory and allocators have one owner and are deallocated as they were allocated.
THEOREM OwnedOnceHolds == OwnershipSpec => []OwnedOnce
  BY OwnershipInvHolds, InvOwnedOnce, PTL

\* What has been released from a builder keeps its content.
THEOREM ReleasedKeptHolds == OwnershipSpec => []ReleasedKept
<1>1. OwnershipInv => ReleasedKept
  BY DEF OwnershipInv, Owned, Kept, ReleasedKept
<1>. QED
  BY <1>1, OwnershipInvHolds, PTL
============================================================================
