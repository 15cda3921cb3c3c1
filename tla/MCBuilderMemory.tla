--------------------------- MODULE MCBuilderMemory -------------------------
(* What is in the memory of a builder, or whose memory it is.              *)
EXTENDS DownwardStacks, BufferOwnership, TLC

VARIABLE concern

memoryVars == <<vec, ownershipVars, concern>>

MemoryInit == Init /\ OwnershipInit /\ concern \in {"content", "ownership"}

MemoryNext ==
  /\ UNCHANGED concern
  /\ \/ concern = "content" /\ Next /\ UNCHANGED ownershipVars
     \/ concern = "ownership" /\ OwnershipNext /\ UNCHANGED vec

MemorySpec == MemoryInit /\ [][MemoryNext]_memoryVars

Pushed == {<<>>, <<1>>, <<0, 1>>, <<1, 0, 0>>}

Symmetry ==
  Permutations(Builders) \cup Permutations(MessageBuilders) \cup Permutations(Blocks)
    \cup Permutations(Holders) \cup Permutations(Objects)
============================================================================
