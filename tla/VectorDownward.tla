--------------------------- MODULE VectorDownward --------------------------
(***************************************************************************)
(* vector_downward, the memory in which a FlatBufferBuilder puts together  *)
(* the messages of this program.  The data grows from the high end of the  *)
(* allocated memory towards a scratch pad that grows from the low end;     *)
(* when they would meet, both are copied to a larger allocation.           *)
(*                                                                         *)
(* A vector_downward is a record, and each of its operations an operator   *)
(* from records to records.  Pointers are indices into buf; a null buf is  *)
(* the function with the empty domain, which is what it is when reserved   *)
(* is 0.  Moving and swapping whole vectors is left out.                   *)
(***************************************************************************)
EXTENDS Integers, Sequences

CONSTANTS
  InitialSize,     \* initial_size_
  BufferMinAlign,  \* buffer_minalign_, a power of 2
  Undefined        \* the content of memory nothing has been written to

ASSUME DownwardAssumption == InitialSize \in Nat /\ BufferMinAlign \in Nat \ {0}

Empty == [buf |-> <<>>, reserved |-> 0, size |-> 0, cur |-> 0, scratch |-> 0]

----------------------------------------------------------------------------
(* Growing.                                                                *)

\* & ~(buffer_minalign_ - 1)
RoundDown(n) == n - (n % BufferMinAlign)
RoundUp(n)   == RoundDown(n + BufferMinAlign - 1)

NewReserved(v, len) ==
  LET step == IF v.reserved = 0 THEN InitialSize ELSE v.reserved \div 2
  IN  RoundUp(v.reserved + IF len > step THEN len ELSE step)

\* Wrong variant: the copy of an ordinary realloc, from the low end.
MemcpyUpward(v, reserved) ==
  [k \in 0 .. reserved - 1 |->
     IF k < v.reserved THEN v.buf[k] ELSE Undefined]

\* The two memcpys of memcpy_downward: the data, and over it the scratch pad.
MemcpyDownward(v, reserved) ==
  [k \in 0 .. reserved - 1 |->
     IF k < v.scratch THEN v.buf[k]
     ELSE IF k >= reserved - v.size THEN v.buf[k - reserved + v.reserved]
     ELSE Undefined]

MoveTo(v, reserved) ==
  [v EXCEPT !.buf = MemcpyDownward(v, reserved),
            !.reserved = reserved, !.cur = reserved - v.size]

Reallocate(v, len) == MoveTo(v, NewReserved(v, len))

\* Wrong variant: the room above the scratch pad is taken for free.
EnsureSpaceAboveBuf(v, len) == IF len > v.cur THEN Reallocate(v, len) ELSE v

EnsureSpace(v, len) == IF len > v.cur - v.scratch THEN Reallocate(v, len) ELSE v

----------------------------------------------------------------------------
(* The operations.                                                         *)

\* memcpy of bytes to index p of a buffer.
WriteAt(buf, p, bytes) ==
  [k \in DOMAIN buf |->
     IF k \in p .. p + Len(bytes) - 1 THEN bytes[k - p + 1] ELSE buf[k]]

MakeSpace(v, len) ==
  IF len = 0 THEN v
  ELSE LET w == EnsureSpace(v, len)
       IN  [w EXCEPT !.cur = @ - len, !.size = @ + len]

WriteData(v, bytes) == [v EXCEPT !.buf = WriteAt(@, v.cur, bytes)]

Push(v, bytes) == WriteData(MakeSpace(v, Len(bytes)), bytes)

\* Wrong variant: padding is left as it is.
FillUnwritten(v, n) == MakeSpace(v, n)

Fill(v, n) == Push(v, [k \in 1 .. n |-> 0])

WriteScratch(v, bytes) ==
  [v EXCEPT !.buf = WriteAt(@, v.scratch, bytes), !.scratch = @ + Len(bytes)]

ScratchPush(v, bytes) == WriteScratch(EnsureSpace(v, Len(bytes)), bytes)

\* Their users pop no more than there is.
Pop(v, n)        == [v EXCEPT !.cur = @ + n, !.size = @ - n]
ScratchPop(v, n) == [v EXCEPT !.scratch = @ - n]
ClearScratch(v)  == [v EXCEPT !.scratch = 0]

\* The memory stays allocated.
Clear(v) == [v EXCEPT !.cur = v.reserved, !.size = 0, !.scratch = 0]

\* reset, and release, which gives the memory to the caller instead of freeing it.
Reset(v) == Clear([v EXCEPT !.buf = <<>>, !.reserved = 0])

----------------------------------------------------------------------------
(* The two stacks in it.                                                   *)

Data(v)    == [k \in 1 .. v.size |-> v.buf[v.cur + k - 1]]
Scratch(v) == [k \in 1 .. v.scratch |-> v.buf[k - 1]]

\* The byte at an offset, which is counted from the end of the memory.
DataAt(v, offset) == v.reserved - offset
============================================================================
