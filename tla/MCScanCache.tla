---------------------------- MODULE MCScanCache ----------------------------
(***************************************************************************)
(* Instances of ScanCache for TLC.  The two sources of one package are     *)
(* scanned twice, by scans that overlap or follow one another, with two    *)
(* edits at any moment: a file that changes and changes back, or that      *)
(* stops being readable and becomes so again.                              *)
(***************************************************************************)
EXTENDS ScanCache, TLC

CONSTANTS s1, s2, a, b, m, c1, c2, v1, v2

OnePackage == [f \in {a, b} |-> {a, b}]
Alone      == [f \in {a} |-> {a}]

\* Scans, configs and contents are only compared.
Symmetry == Permutations({s1, s2}) \cup Permutations({c1, c2}) \cup Permutations({v1, v2})
=============================================================================
