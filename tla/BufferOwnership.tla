--------------------------- MODULE BufferOwnership --------------------------
(***************************************************************************)
(* Whose memory it is: FlatBufferBuilders and the gRPC MessageBuilders     *)
(* that are made of them, moved, swapped, cleared and destroyed; the       *)
(* buffers that are released from them; and the allocators that the memory *)
(* comes from, which may belong to a builder, to a released buffer or, as  *)
(* a SliceAllocator, to the MessageBuilder itself.                         *)
(*                                                                         *)
(* A block of memory is a sequence of objects, the first of which was      *)
(* written first.  Abstracted from are what the objects are, the scratch   *)
(* pad, and what Verify says of a message.  A slice is the name of its     *)
(* block, which is freed with the last slice of it.  Also left out is      *)
(* string_pool: FlatBufferBuilder::Swap exchanges the pools, but the       *)
(* StringOffsetCompare in a pool keeps the address of the buf_ of the      *)
(* builder that made it, which is then another's or gone.  No object here  *)
(* is found through a pool.                                                *)
(*                                                                         *)
(* Left out are allocators that neither a builder owns nor are part of     *)
(* one; moves of a FlatBufferBuilder with an allocator to a                *)
(* MessageBuilder, which supports the default allocator only; the Release  *)
(* that a MessageBuilder inherits, whose DetachedBuffer would point to the *)
(* SliceAllocator in the builder; and vector_downward's own move, which    *)
(* nothing uses.                                                           *)
(***************************************************************************)
EXTENDS Naturals, Sequences, FiniteSets

CONSTANTS
  Builders,         \* variables of type FlatBufferBuilder
  MessageBuilders,  \* variables of type MessageBuilder
  Temporary,        \* the MessageBuilder temp in its move assignments
  Allocators,       \* custom allocators, given to a builder to own
  Blocks,           \* addresses of blocks of memory
  Holders,          \* variables in which released buffers are kept
  Objects,          \* what is written to a buffer
  Unwritten,        \* the content of memory nothing has been written to
  Nullptr,
  FirstRoom,        \* initial_size_
  MaxSize,          \* bound on the objects in a buffer
  MaxAlive          \* bound on the builders at a time

MessageSlots == MessageBuilders \cup {Temporary}

ASSUME OwnershipAssumption ==
  /\ Temporary \notin MessageBuilders
  /\ Builders \cap MessageSlots = {} /\ Allocators \cap MessageSlots = {}
  /\ Nullptr \notin Blocks \cup Allocators \cup MessageSlots
  /\ Unwritten \notin Objects
  /\ FirstRoom \in Nat /\ MaxSize \in Nat /\ MaxAlive \in Nat

VARIABLES
  alive,       \* the builders between constructor and destructor
  builder,     \* the fields of each builder that tell what it owns
  slice,       \* slice_ of each SliceAllocator
  held,        \* the released buffers
  memory,      \* what each block was allocated by, and its content
  allocators,  \* the custom allocators that have not been deleted
  ok           \* no assert has failed, and nothing was deallocated wrongly

ownershipVars == <<alive, builder, slice, held, memory, allocators, ok>>

\* The fields of a vector_downward, and of its builder's the one that matters.
Vector ==
  [allocator : Allocators \cup MessageSlots \cup {Nullptr}, own_allocator : BOOLEAN,
   buf : Blocks \cup {Nullptr}, reserved : Nat, size : Nat, finished : BOOLEAN]

\* A DetachedBuffer, what ReleaseRaw returned, a slice, a Message or a
\* ByteBuffer; whether it was released, and what was in it then.
HeldBuffer ==
  [kind : {"none", "detached", "raw", "slice", "message", "bytes"},
   allocator : Allocators \cup {Nullptr}, own_allocator : BOOLEAN,
   buf : Blocks \cup {Nullptr}, reserved : Nat, size : Nat,
   released : BOOLEAN, value : Seq(Objects \cup {Unwritten})]

Block ==
  [state : {"free", "allocated", "slice"}, by : Allocators \cup {Nullptr},
   data : Seq(Objects \cup {Unwritten})]

OwnershipTypeOK ==
  /\ alive \subseteq Builders \cup MessageBuilders
  /\ builder \in [Builders \cup MessageSlots -> Vector]
  /\ slice \in [MessageSlots -> Blocks \cup {Nullptr}]
  /\ held \in [Holders -> HeldBuffer]
  /\ memory \in [Blocks -> Block]
  /\ allocators \subseteq Allocators
  /\ ok \in BOOLEAN

----------------------------------------------------------------------------

FreeBlock == [state |-> "free", by |-> Nullptr, data |-> <<>>]

NewVector(allocator, own) ==
  [allocator |-> allocator, own_allocator |-> own, buf |-> Nullptr,
   reserved |-> 0, size |-> 0, finished |-> FALSE]

DefaultVector == NewVector(Nullptr, FALSE)
MemberVector(m) == NewVector(m, FALSE)

NoBuffer ==
  [kind |-> "none", allocator |-> Nullptr, own_allocator |-> FALSE, buf |-> Nullptr,
   reserved |-> 0, size |-> 0, released |-> FALSE, value |-> <<>>]

OwnershipInit ==
  /\ alive = {}
  /\ builder = [b \in Builders \cup MessageSlots |->
                  IF b \in Builders THEN DefaultVector ELSE MemberVector(b)]
  /\ slice = [m \in MessageSlots |-> Nullptr]
  /\ held = [x \in Holders |-> NoBuffer]
  /\ memory = [p \in Blocks |-> FreeBlock]
  /\ allocators = {}
  /\ ok = TRUE

----------------------------------------------------------------------------
(* Memory.                                                                 *)

\* A released buffer that is a slice, or a part of one.
IsSlice(x) == x.kind \in {"slice", "message", "bytes"}

Referenced(S, H, p) ==
  (\E m \in MessageSlots : S[m] = p) \/ (\E x \in Holders : IsSlice(H[x]) /\ H[x].buf = p)

\* Slices count their references.
Unreferenced(S, H, M) ==
  [p \in Blocks |-> IF M[p].state = "slice" /\ ~Referenced(S, H, p) THEN FreeBlock ELSE M[p]]

Settle(S, H, M) == slice' = S /\ held' = H /\ memory' = Unreferenced(S, H, M)

\* The three kinds of allocators deallocate what they have allocated, in the
\* size in which they have, while they exist.
Deallocatable(S, M, A, v) ==
  v.buf # Nullptr =>
    /\ Len(M[v.buf].data) = v.reserved
    /\ IF v.allocator \in MessageSlots THEN S[v.allocator] = v.buf
       ELSE /\ M[v.buf].state = "allocated" /\ M[v.buf].by = v.allocator
            /\ v.allocator \in A \cup {Nullptr}

\* Deallocate: a SliceAllocator gives up its slice.
Dropped(S, v) ==
  IF v.buf # Nullptr /\ v.allocator \in MessageSlots
  THEN [S EXCEPT ![v.allocator] = Nullptr] ELSE S

Freed(M, v) ==
  IF v.buf # Nullptr /\ v.allocator \notin MessageSlots
  THEN [M EXCEPT ![v.buf] = FreeBlock] ELSE M

OwnAllocator(v) == IF v.own_allocator THEN {v.allocator} ELSE {}

\* clear_buffer and clear_allocator, of a vector or a detached buffer.
Destroys(v, S, H) ==
  /\ ok' = (ok /\ Deallocatable(S, memory, allocators, v))
  /\ allocators' = allocators \ OwnAllocator(v)
  /\ Settle(Dropped(S, v), H, Freed(memory, v))

----------------------------------------------------------------------------
(* Constructors and destructors.                                           *)

Constructible(b) == b \notin alive /\ Cardinality(alive) < MaxAlive

Construct(b) ==
  /\ Constructible(b)
  /\ alive' = alive \cup {b}
  /\ UNCHANGED <<builder, slice, held, memory, allocators, ok>>

\* With an allocator of its own, at an address that is not in use.
ConstructWith(b, a) ==
  /\ Constructible(b) /\ a \notin allocators
  /\ \A p \in Blocks : memory[p].by # a
  /\ \A x \in Holders : held[x].allocator # a
  /\ alive' = alive \cup {b}
  /\ builder' = [builder EXCEPT ![b] = NewVector(a, TRUE)]
  /\ allocators' = allocators \cup {a}
  /\ UNCHANGED <<slice, held, memory, ok>>

Destroy(b) ==
  /\ b \in alive
  /\ alive' = alive \ {b}
  /\ builder' = [builder EXCEPT ![b] = IF b \in Builders THEN DefaultVector ELSE MemberVector(b)]
  /\ Destroys(builder[b], slice, held)

----------------------------------------------------------------------------
(* Building.                                                               *)

GrownRoom(v) ==
  LET step == IF v.reserved = 0 THEN FirstRoom ELSE v.reserved \div 2
  IN  v.reserved + (IF step > 1 THEN step ELSE 1)

\* The objects there are, copied to the end of a larger block.
Grown(v) ==
  [k \in 1 .. GrownRoom(v) |-> IF k <= v.size THEN memory[v.buf].data[k] ELSE Unwritten]

Allocated(v, data) ==
  [state |-> IF v.allocator \in MessageSlots THEN "slice" ELSE "allocated",
   by    |-> IF v.allocator \in MessageSlots THEN Nullptr ELSE v.allocator,
   data  |-> data]

\* A SliceAllocator has one slice at a time.
Allocatable(v) ==
  /\ Deallocatable(slice, memory, allocators, v)
  /\ v.buf = Nullptr /\ v.allocator \in MessageSlots => slice[v.allocator] = Nullptr
  /\ v.allocator \in MessageSlots \cup allocators \cup {Nullptr}

Taken(v, p) ==
  IF v.allocator \in MessageSlots THEN [slice EXCEPT ![v.allocator] = p] ELSE slice

WriteAndGrow(b, object, p) ==
  LET v == builder[b]
  IN  /\ v.size = v.reserved /\ memory[p] = FreeBlock
      /\ ok' = (ok /\ Allocatable(v))
      /\ builder' = [builder EXCEPT ![b] =
           [v EXCEPT !.buf = p, !.reserved = GrownRoom(v), !.size = @ + 1]]
      /\ Settle(Taken(v, p), held,
                [Freed(memory, v) EXCEPT
                   ![p] = Allocated(v, [Grown(v) EXCEPT ![v.size + 1] = object])])

WriteInPlace(b, object) ==
  LET v == builder[b]
  IN  /\ v.size < v.reserved
      /\ builder' = [builder EXCEPT ![b].size = @ + 1]
      /\ memory' = [memory EXCEPT ![v.buf].data[v.size + 1] = object]
      /\ UNCHANGED <<slice, held, ok>>

Write(b, object) ==
  /\ b \in alive /\ ~builder[b].finished /\ builder[b].size < MaxSize
  /\ (\E p \in Blocks : WriteAndGrow(b, object, p)) \/ WriteInPlace(b, object)
  /\ UNCHANGED <<alive, allocators>>

FinishBuffer(b) ==
  /\ b \in alive /\ ~builder[b].finished /\ builder[b].size > 0
  /\ builder' = [builder EXCEPT ![b].finished = TRUE]
  /\ UNCHANGED <<alive, slice, held, memory, allocators, ok>>

----------------------------------------------------------------------------
(* Using a builder again.                                                  *)

\* vector_downward::clear
Emptied(v) == [v EXCEPT !.reserved = IF v.buf = Nullptr THEN 0 ELSE @, !.size = 0]

ClearedBuilder(v) == [Emptied(v) EXCEPT !.finished = FALSE]

\* The memory stays allocated.
ClearForReuse(b) ==
  /\ b \in alive
  /\ builder' = [builder EXCEPT ![b] = ClearedBuilder(@)]
  /\ UNCHANGED <<alive, slice, held, memory, allocators, ok>>

WithoutBuffer(v) == Emptied([v EXCEPT !.buf = Nullptr])

\* Wrong variant: the memory is kept.
ResetKeeping(b, H) ==
  /\ builder' = [builder EXCEPT ![b] = ClearedBuilder(@)]
  /\ held' = H
  /\ UNCHANGED <<slice, memory, ok>>

ResetWith(b, H) ==
  LET v == builder[b]
  IN  /\ builder' = [builder EXCEPT ![b] = ClearedBuilder(WithoutBuffer(v))]
      /\ ok' = (ok /\ Deallocatable(slice, memory, allocators, v))
      /\ Settle(Dropped(slice, v), H, Freed(memory, v))

ResetForReuse(b) == b \in alive /\ ResetWith(b, held) /\ UNCHANGED <<alive, allocators>>

----------------------------------------------------------------------------
(* Moving and swapping.                                                    *)

SwapBuilders(b, c) ==
  /\ {b, c} \subseteq alive
  /\ builder' = [builder EXCEPT ![b] = builder[c], ![c] = builder[b]]
  /\ UNCHANGED <<alive, slice, held, memory, allocators, ok>>

\* A new builder is swapped with the other, which is as new afterwards.
MoveConstruct(b, c) ==
  /\ Constructible(b) /\ c \in alive
  /\ alive' = alive \cup {b}
  /\ builder' = [builder EXCEPT ![b] = builder[c], ![c] = DefaultVector]
  /\ UNCHANGED <<slice, held, memory, allocators, ok>>

\* What the builder had goes to the temporary, which is destroyed.
MoveAssign(b, c) ==
  /\ {b, c} \subseteq alive
  /\ LET moved == [builder EXCEPT ![c] = DefaultVector]
     IN  /\ builder' = [moved EXCEPT ![b] = builder[c]]
         /\ Destroys(moved[b], slice, held)
  /\ UNCHANGED alive

\* swap_allocator
WithAllocatorOf(v, w) == [v EXCEPT !.allocator = w.allocator, !.own_allocator = w.own_allocator]

\* Wrong variant: the allocators are not swapped back.
SwappedWithAllocators(B, m, n) == [B EXCEPT ![m] = B[n], ![n] = B[m]]

\* The slices are swapped, and each allocator stays with its builder.
Swapped(B, m, n) ==
  [B EXCEPT ![m] = WithAllocatorOf(B[n], B[m]), ![n] = WithAllocatorOf(B[m], B[n])]

SwappedSlices(S, m, n) == [S EXCEPT ![m] = S[n], ![n] = S[m]]

SwapMessageBuilders(m, n) ==
  /\ {m, n} \subseteq alive
  /\ builder' = Swapped(builder, m, n)
  /\ slice' = SwappedSlices(slice, m, n)
  /\ UNCHANGED <<alive, held, memory, allocators, ok>>

MoveConstructMessage(m, n) ==
  /\ Constructible(m) /\ n \in alive
  /\ alive' = alive \cup {m}
  /\ builder' = Swapped(builder, m, n)
  /\ slice' = SwappedSlices(slice, m, n)
  /\ UNCHANGED <<held, memory, allocators, ok>>

\* temp, made of what is assigned, is swapped with m and destroyed.
AssignTemporary(m, B, S, M) ==
  LET swapped == Swapped(B, m, Temporary)
      temp    == swapped[Temporary]
      slices  == SwappedSlices(S, m, Temporary)
  IN  /\ builder' = [swapped EXCEPT ![Temporary] = MemberVector(Temporary)]
      /\ ok' = (ok /\ Deallocatable(slices, M, allocators, temp))
      /\ Settle([slices EXCEPT ![Temporary] = Nullptr], held, Freed(M, temp))

MoveAssignMessage(m, n) ==
  /\ {m, n} \subseteq alive
  /\ AssignTemporary(m, Swapped(builder, Temporary, n), SwappedSlices(slice, Temporary, n), memory)
  /\ UNCHANGED <<alive, allocators>>

\* m, which is new, takes what a FlatBufferBuilder has, in a slice.
Adopted(m, b) ==
  [builder EXCEPT ![m] = WithAllocatorOf(builder[b], MemberVector(m)),
                  ![b] = WithAllocatorOf(MemberVector(m), builder[b])]

AdoptedSlices(m, b) == [slice EXCEPT ![m] = builder[b].buf]

AdoptedMemory(b) ==
  IF builder[b].buf = Nullptr THEN memory ELSE [memory EXCEPT ![builder[b].buf].state = "slice"]

ConstructFrom(m, b) ==
  /\ Constructible(m) /\ b \in alive /\ builder[b].allocator = Nullptr
  /\ alive' = alive \cup {m}
  /\ builder' = Adopted(m, b)
  /\ slice' = AdoptedSlices(m, b)
  /\ memory' = AdoptedMemory(b)
  /\ UNCHANGED <<held, allocators, ok>>

AssignFrom(m, b) ==
  /\ {m, b} \subseteq alive /\ builder[b].allocator = Nullptr
  /\ AssignTemporary(m, Adopted(Temporary, b), AdoptedSlices(Temporary, b), AdoptedMemory(b))
  /\ UNCHANGED <<alive, allocators>>

----------------------------------------------------------------------------
(* Releasing.                                                              *)

Content(M, v) == [k \in 1 .. v.size |-> M[v.buf].data[k]]

Buffer(kind, v, own) ==
  [kind |-> kind, allocator |-> v.allocator, own_allocator |-> own, buf |-> v.buf,
   reserved |-> v.reserved, size |-> v.size, released |-> TRUE, value |-> Content(memory, v)]

\* A slice has no allocator.
SliceBuffer(kind, v, released) ==
  [NoBuffer EXCEPT !.kind = kind, !.buf = v.buf, !.size = v.size,
                   !.released = released, !.value = Content(memory, v)]

Vacant(x) == held[x].kind = "none"

Finished(b) == b \in alive /\ builder[b].finished

\* An allocator of its own goes with the buffer.
Release(b, x) ==
  LET v == builder[b]
  IN  /\ Finished(b) /\ Vacant(x)
      /\ held' = [held EXCEPT ![x] = Buffer("detached", v, v.own_allocator)]
      /\ builder' = [builder EXCEPT ![b] =
           WithoutBuffer(IF v.own_allocator THEN WithAllocatorOf(v, DefaultVector) ELSE v)]
      /\ UNCHANGED <<alive, slice, memory, allocators, ok>>

\* An allocator of its own stays with the builder.
ReleaseRaw(b, x) ==
  LET v == builder[b]
  IN  /\ Finished(b) /\ Vacant(x)
      /\ held' = [held EXCEPT ![x] = Buffer("raw", v, FALSE)]
      /\ builder' = [builder EXCEPT ![b] = WithoutBuffer(v)]
      /\ UNCHANGED <<alive, slice, memory, allocators, ok>>

ReleaseRawSlice(m, x) ==
  LET v == builder[m]
  IN  /\ Finished(m) /\ Vacant(x)
      /\ held' = [held EXCEPT ![x] = SliceBuffer("slice", v, TRUE)]
      /\ builder' = [builder EXCEPT ![m] = WithoutBuffer(v)]
      /\ slice' = [slice EXCEPT ![m] = Nullptr]
      /\ UNCHANGED <<alive, memory, allocators, ok>>

\* The builder goes on with the memory that the message is in.
GetMessage(m, x) ==
  LET v == builder[m]
  IN  /\ m \in alive /\ v.size > 0 /\ Vacant(x)
      /\ held' = [held EXCEPT ![x] = SliceBuffer("message", v, FALSE)]
      /\ ok' = (ok /\ Deallocatable(slice, memory, allocators, v))
      /\ UNCHANGED <<alive, builder, slice, memory, allocators>>

ReleaseMessage(m, x) ==
  /\ m \in alive /\ builder[m].size > 0 /\ Vacant(x)
  /\ ResetWith(m, [held EXCEPT ![x] = SliceBuffer("message", builder[m], TRUE)])
  /\ UNCHANGED <<alive, allocators>>

----------------------------------------------------------------------------
(* Released buffers.                                                       *)

EmptyDetached == [NoBuffer EXCEPT !.kind = "detached"]

MoveDetached(x, y) ==
  /\ x # y /\ held[x].kind \in {"none", "detached"} /\ held[y].kind = "detached"
  /\ Destroys(held[x], slice, [held EXCEPT ![x] = held[y], ![y] = EmptyDetached])
  /\ UNCHANGED <<alive, builder>>

\* ~DetachedBuffer; the end of a slice; and the caller's deallocation of what
\* it got from ReleaseRaw, by the allocator it came from.
LetGo(x) ==
  /\ ~Vacant(x)
  /\ held[x].kind = "raw" => held[x].allocator \in allocators \cup {Nullptr}
  /\ LET H == [held EXCEPT ![x] = NoBuffer]
     IN  IF IsSlice(held[x]) THEN Settle(slice, H, memory) /\ UNCHANGED <<allocators, ok>>
         ELSE Destroys(held[x], slice, H)
  /\ UNCHANGED <<alive, builder>>

Serialize(x, y) ==
  /\ held[x].kind = "message" /\ Vacant(y)
  /\ held' = [held EXCEPT ![y] = [held[x] EXCEPT !.kind = "bytes"]]
  /\ UNCHANGED <<alive, builder, slice, memory, allocators, ok>>

\* Message's move assignment.
MoveMessage(x, y, kind) ==
  /\ x # y /\ held[x].kind \in {"none", "message"} /\ held[y].kind = kind
  /\ Settle(slice, [held EXCEPT ![x] = [held[y] EXCEPT !.kind = "message"], ![y] = NoBuffer], memory)
  /\ UNCHANGED <<alive, builder, allocators, ok>>

\* The message made of the single slice is assigned, and the bytes are cleared.
Deserialize(x, y) == MoveMessage(x, y, "bytes")

OwnershipNext ==
  \/ \E b \in Builders \cup MessageBuilders :
       \/ Construct(b) \/ Destroy(b) \/ FinishBuffer(b) \/ ClearForReuse(b) \/ ResetForReuse(b)
       \/ \E object \in Objects : Write(b, object)
  \/ \E b \in Builders :
       \/ \E a \in Allocators : ConstructWith(b, a)
       \/ \E c \in Builders : SwapBuilders(b, c) \/ MoveConstruct(b, c) \/ MoveAssign(b, c)
       \/ \E m \in MessageBuilders : ConstructFrom(m, b) \/ AssignFrom(m, b)
       \/ \E x \in Holders : Release(b, x) \/ ReleaseRaw(b, x)
  \/ \E m \in MessageBuilders :
       \/ \E n \in MessageBuilders :
            SwapMessageBuilders(m, n) \/ MoveConstructMessage(m, n) \/ MoveAssignMessage(m, n)
       \/ \E x \in Holders : ReleaseRawSlice(m, x) \/ GetMessage(m, x) \/ ReleaseMessage(m, x)
  \/ \E x \in Holders :
       \/ LetGo(x)
       \/ \E y \in Holders : MoveDetached(x, y) \/ MoveMessage(x, y, "message")
                               \/ Serialize(x, y) \/ Deserialize(x, y)

OwnershipSpec == OwnershipInit /\ [][OwnershipNext]_ownershipVars

----------------------------------------------------------------------------
(* Properties.                                                             *)

\* The builders and released buffers that would deallocate a block.
OwnersOf(p) ==
  {<<"builder", b>> : b \in {c \in alive : builder[c].buf = p}} \cup
  {<<"holder", x>> : x \in {y \in Holders : held[y].buf = p /\ held[y].kind \in {"detached", "raw"}}}

AllocatorOwners(a) ==
  {<<"builder", b>> : b \in {c \in alive : builder[c].own_allocator /\ builder[c].allocator = a}} \cup
  {<<"holder", x>> : x \in {y \in Holders : held[y].own_allocator /\ held[y].allocator = a}}

\* However builders are moved, swapped, reused and released from, all memory
\* and every allocator has one owner: nothing is leaked or freed twice, or by
\* another allocator or in another size than it was allocated, and no assert
\* of a SliceAllocator fails.  A slice has at most one builder that writes to it.
OwnedOnce ==
  /\ ok
  /\ \A p \in Blocks :
       /\ memory[p].state = "allocated" => \E o \in OwnersOf(p) : OwnersOf(p) = {o}
       /\ memory[p].state = "slice" =>
            /\ Referenced(slice, held, p)
            /\ \A o, q \in OwnersOf(p) : o = q
       /\ memory[p].state = "free" => OwnersOf(p) = {} /\ ~Referenced(slice, held, p)
  /\ \A a \in allocators : \E o \in AllocatorOwners(a) : AllocatorOwners(a) = {o}

\* A buffer keeps what was in it when it was released, whatever becomes of the
\* builder and of other slices of its memory.  GetMessage alone releases nothing.
ReleasedKept ==
  \A x \in Holders : held[x].released => Content(memory, held[x]) = held[x].value
============================================================================
