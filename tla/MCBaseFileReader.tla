-------------------------- MODULE MCBaseFileReader --------------------------
(* Instances of BaseFileReader for TLC: three reads of any of five paths,  *)
(* of which the contents of one fit in the budget.                         *)
EXTENDS BaseFileReader

CONSTANTS r1, r2, r3, a, b, t, l, x, none

KindOf == [p \in Paths |->
    CASE p \in {a, b} -> "blob" [] p = t -> "tree" [] p = l -> "large"
      [] p = x -> "missing"]
=============================================================================
