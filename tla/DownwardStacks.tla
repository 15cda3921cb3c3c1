--------------------------- MODULE DownwardStacks --------------------------
(***************************************************************************)
(* A vector_downward under any sequence of its operations, and that it is  *)
(* two stacks.                                                             *)
(***************************************************************************)
EXTENDS VectorDownward

CONSTANTS
  Byte,      \* values of a byte, 0 among them
  Contents,  \* sequences of bytes that are pushed
  MaxBytes   \* bound on the bytes in either stack

ASSUME StacksAssumption ==
  /\ 0 \in Byte /\ Undefined \notin Byte
  /\ Contents \subseteq Seq(Byte) /\ <<>> \in Contents
  /\ MaxBytes \in Nat

VARIABLE vec

Init == vec = Empty

push(bytes) ==
  vec.size + Len(bytes) <= MaxBytes /\ vec' = Push(vec, bytes)
scratch_push_small(bytes) ==
  bytes # <<>> /\ vec.scratch + Len(bytes) <= MaxBytes /\ vec' = ScratchPush(vec, bytes)
pop(n)         == n <= vec.size /\ vec' = Pop(vec, n)
scratch_pop(n) == n <= vec.scratch /\ vec' = ScratchPop(vec, n)
clear_scratch  == vec' = ClearScratch(vec)
clear          == vec' = Clear(vec)
reset          == vec' = Reset(vec)

Next ==
  \/ \E bytes \in Contents : push(bytes) \/ scratch_push_small(bytes)
  \/ \E n \in 1 .. MaxBytes : pop(n) \/ scratch_pop(n)
  \/ clear_scratch \/ clear \/ reset

Spec == Init /\ [][Next]_vec

----------------------------------------------------------------------------
(* Properties.                                                             *)

\* cur_ and scratch_ are where the sizes say, and never cross, which
\* ensure_space asserts: neither stack writes into the other.
NeverCross ==
  /\ vec.cur = vec.reserved - vec.size
  /\ 0 <= vec.scratch /\ vec.scratch <= vec.cur

Stacks == INSTANCE TwoStacks WITH data <- Data(vec), scratch <- Scratch(vec)

\* Growing, clearing and using the memory again, the vector is two stacks,
\* which never cross.
IsTwoStacks == Stacks!Spec /\ []NeverCross
============================================================================
