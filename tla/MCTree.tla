------------------------------- MODULE MCTree -------------------------------
(* Small instances of Tree for TLC: two directories that stand side by side  *)
(* or one inside the other, or one directory with a file, which the other    *)
(* uuids join.                                                               *)
EXTENDS Tree, TLC
CONSTANTS root, a, b, f, x, y

Live(parent, name) == [state |-> "live", parent |-> parent, name |-> name]
Fresh == [state |-> "fresh", parent |-> NoId, name |-> NoName]

MCStarts ==
  {a :> Live(root, x) @@ b :> Live(root, y) @@ f :> Fresh,
   a :> Live(root, x) @@ b :> Live(a, x) @@ f :> Fresh,
   a :> Live(root, x) @@ b :> Fresh @@ f :> Live(a, x)}

Symmetry == Permutations(Tasks)
=============================================================================
