--------------------------- MODULE MCFlexBuffers ---------------------------
(* What callers use of a Builder, one menu for each of its concerns.       *)
EXTENDS FlexBuffers

Nothing == [flags |-> {}, scalars |-> {}, indirects |-> {}, doubles |-> {}, keys |-> {},
            strings |-> {}, blobs |-> {}, arrays |-> {}, groups |-> {FALSE}, widths |-> {}, numbers |-> {}]

\* Numbers of every width, and widths that are forced.
Numbers ==
  [Nothing EXCEPT !.scalars = {<<FBT.NULL, 0>>, <<FBT.BOOL, 1>>, <<FBT.INT, -5>>, <<FBT.UINT, 7>>,
                               <<FBT.FLOAT, 2>>, <<FBT.FLOAT, 4100>>},
                  !.widths = {1}, !.numbers = {-1, 31}]

\* Offsets, over blobs that bring them to the next width.  A float holds 8 and
\* not 4100.
Offsets ==
  [Nothing EXCEPT !.flags = {"reuse"},
                  !.indirects = {<<FBT.INDIRECT_INT, 70>>, <<FBT.INDIRECT_UINT, 3>>,
                                 <<FBT.INDIRECT_FLOAT, 2>>},
                  !.doubles = {8, 4100},
                  !.blobs = {<<>>, [k \in 1 .. 57 |-> 5]}, !.numbers = {40}]

\* Keys in every order, twice too.
Maps ==
  [Nothing EXCEPT !.flags = {"keys"}, !.keys = {<<1>>, <<1, 2>>, <<2>>},
                  !.scalars = {<<FBT.INT, 1>>}, !.groups = {TRUE}, !.numbers = {2}]

\* Texts that are shared.
Texts ==
  [Nothing EXCEPT !.flags = {"keys", "strings", "reuse"}, !.keys = {<<1>>},
                  !.strings = {<<>>, <<1>>, <<2, 1>>}, !.groups = BOOLEAN]

\* Arrays of scalars, of fixed length or not.
Arrays ==
  [Nothing EXCEPT !.arrays = {[type |-> FBT.INT, elems |-> <<-5, 31>>, width |-> 1, fixed |-> TRUE],
                              [type |-> FBT.UINT, elems |-> <<7, 1, 0>>, width |-> 0, fixed |-> FALSE],
                              [type |-> FBT.FLOAT, elems |-> <<3, 4, 5, 6>>, width |-> 2, fixed |-> TRUE],
                              [type |-> FBT.BOOL, elems |-> <<1, 0>>, width |-> 0, fixed |-> FALSE]},
                  !.strings = {<<3, 4>>}, !.widths = {2}, !.numbers = {3}]

AllMenus == {Numbers, Offsets, Maps, Texts, Arrays}
============================================================================
