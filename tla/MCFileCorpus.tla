---------------------------- MODULE MCFileCorpus ----------------------------
(* An instance of FileCorpus for TLC.  One small file can be retained, a   *)
(* large one never; one small Go tree can be kept, and script trees of two *)
(* bytes.  Calls differ in name only, so one assignment of files to calls  *)
(* stands for the others like it.                                          *)
EXTENDS FileCorpus, TLC

CONSTANTS p, q, r, g, s, small, large

GoAndScript == [f \in Files |-> IF f = g THEN "go" ELSE "script"]
Lengths     == small :> 1 @@ large :> 2
TreeBytes   == [k \in Kinds |-> CASE k = "go" -> 9 [] k = "clike" -> 5 [] k = "script" -> 2]
TwoTrees    == [k \in Kinds |-> 2]
Gates       == [k \in Kinds |-> 1]

Asks == {p :> a @@ q :> b @@ r :> c : <<a, b, c>> \in {<<g, g, s>>, <<g, s, s>>, <<s, s, s>>}}
=============================================================================
