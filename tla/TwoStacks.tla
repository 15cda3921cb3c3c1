----------------------------- MODULE TwoStacks -----------------------------
(***************************************************************************)
(* What vector_downward promises its user: two stacks of bytes, the data   *)
(* that grows downwards and the scratch pad, which have nothing to do with *)
(* each other and no limit.                                                *)
(***************************************************************************)
EXTENDS Naturals, Sequences

CONSTANT Contents  \* sequences of bytes that are pushed

VARIABLES
  data,     \* the lowest address, which was pushed last, first
  scratch   \* the lowest address, which was pushed first, first

Init == data = <<>> /\ scratch = <<>>

Push    == \E bytes \in Contents : data' = bytes \o data /\ UNCHANGED scratch
Pop     == \E n \in 1 .. Len(data) :
             data' = SubSeq(data, n + 1, Len(data)) /\ UNCHANGED scratch
ScratchPush == \E bytes \in Contents : scratch' = scratch \o bytes /\ UNCHANGED data
ScratchPop  == \E n \in 1 .. Len(scratch) :
                 scratch' = SubSeq(scratch, 1, Len(scratch) - n) /\ UNCHANGED data
ClearScratch == scratch' = <<>> /\ UNCHANGED data
Clear        == data' = <<>> /\ scratch' = <<>>

Next == Push \/ Pop \/ ScratchPush \/ ScratchPop \/ ClearScratch \/ Clear

Spec == Init /\ [][Next]_<<data, scratch>>
============================================================================
