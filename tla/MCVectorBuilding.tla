-------------------------- MODULE MCVectorBuilding -------------------------
(* MCMessageBuilding's properties, and a menu of vectors.                  *)
EXTENDS VectorBuilding, MCMessageBuilding

VectorSchemas == Schemas @@ [Entry |-> <<scalar(4)>>]

VectorWidths == ScalarWidths @@ [pair |-> 6, sorted |-> 6, bool |-> 1, nested |-> 1]

\* A string longer than the room that is kept for the offsets, and an empty one.
SomeStrings == {<<>>, <<(<<65, 66, 67, 68, 69>>), <<>>, <<70>>>>}

SomeStructs ==
  {<<(<<44, 1, 1, 2, 3, 4>>), <<2, 0, 5, 6, 7, 8>>, <<44, 1, 9, 9, 9, 9>>>>}

SomeFlags == {<<1, 0, 1>>}
SomeIdentifiers == {<<>>, <<1, 2, 3, 4>>}
============================================================================
