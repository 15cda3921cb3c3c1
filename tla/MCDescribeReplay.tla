------------------------- MODULE MCDescribeReplay -------------------------
(* Descriptions with up to two parameters and an input, for TLC.           *)
EXTENDS DescribeReplay

Str(n, vs) == [name |-> n, type |-> "String", values |-> vs]
Num(n, t, vs) == [name |-> n, type |-> t, values |-> vs]

Name(v) == Str("Name", <<v>>)
Type    == Str("Type", <<"double">>)

Angle  == <<Name("angle"), Type, Num("Default", "Float", <<"1", "2">>)>>
Label  == <<Num("Data", "Pointer", <<>>), Type, Str("Label", <<"a">>), Name("label")>>
Geo    == <<Num("Min", "Int", <<>>), Name("geo"), Str("Type", <<"mesh">>)>>
NoName == <<Type, Num("Default", "Float", <<"1">>)>>
Unset  == <<Name("angle"), Type, Num("Default", "Float", None)>>
Absent == <<Name("label"), Type, Str(None, <<"a">>)>>

Lists(items, n) == UNION {[1 .. m -> items] : m \in 0 .. n}

CompleteReplies ==
  [status : {"OK", "Failed"},
   parameter : Lists({Angle, Label}, 2), input : Lists({Geo, Angle}, 2), bare : {{}}]

AllReplies == CompleteReplies \cup
  [status : {"OK", "Failed"},
   parameter : Lists({Angle, Label, NoName, Unset, Absent}, 2) \cup {None},
   input : Lists({Geo, NoName, Unset, Absent, None}, 1) \cup {None},
   bare : {{}, {1}}]

AllNames == {"Name", "Type", "Default", "Data", "Label", "Min"}
AllValues == {"angle", "double", "label", "geo", "mesh", "1", "2", "a"}
============================================================================
