--------------------------- MODULE MCSectionScan ---------------------------
(* Instances of SectionScan for TLC.  Three sections share two slots, one  *)
(* target and up to two files, of which one is reported individually when  *)
(* it cannot be read and the next only in the summary.                     *)
EXTENDS SectionScan

CONSTANTS t1, f1, f2

AllIn(files) == [f \in files |-> t1]
OneFile  == AllIn({f1})
TwoFiles == AllIn({f1, f2})

Clean   == [findings |-> {}, diagnostics |-> {}]
Warning == [findings |-> {"warn"}, diagnostics |-> {}]
Failing == [findings |-> {"fail"}, diagnostics |-> {Tool("warn")}]

OnlyWarning == {Warning}
OnlyClean   == {Clean}
Mixed       == {Clean, Failing}
=============================================================================
