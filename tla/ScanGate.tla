------------------------------ MODULE ScanGate ------------------------------
(***************************************************************************)
(* What a scan promises the CI gate that runs it (core.ReportGateError):   *)
(* the scan may turn out incomplete while it is open, then it closes with  *)
(* one verdict that never changes, and an incomplete scan is not accepted. *)
(***************************************************************************)
VARIABLES
    incomplete,     \* part of the repository was not checked
    verdict         \* "open" until the report is out

vars == <<incomplete, verdict>>

Init ==
    /\ incomplete = FALSE
    /\ verdict = "open"

Degrade ==
    /\ verdict = "open"
    /\ incomplete' = TRUE
    /\ UNCHANGED verdict

Close ==
    /\ verdict = "open"
    /\ verdict' \in IF incomplete THEN {"refused"} ELSE {"accepted", "refused"}
    /\ UNCHANGED incomplete

Next == Degrade \/ Close

Spec == Init /\ [][Next]_vars
=============================================================================
