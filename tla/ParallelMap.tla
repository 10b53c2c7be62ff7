---------------------------- MODULE ParallelMap ----------------------------
(***************************************************************************)
(* What a parallel pass promises the section that runs it: it ends either  *)
(* with the results of all its items or with the panic of one of them, and *)
(* nothing of the pass runs after that.                                    *)
(***************************************************************************)
CONSTANT Items

VARIABLES
    finished,   \* items whose call returned
    failed,     \* items whose call panicked
    outcome     \* pending, returned, or the panic of an item re-raised

vars == <<finished, failed, outcome>>

Init ==
    /\ finished = {}
    /\ failed = {}
    /\ outcome = <<"pending">>

CallReturns(i) ==
    /\ outcome = <<"pending">>
    /\ i \notin finished \cup failed
    /\ finished' = finished \cup {i}
    /\ UNCHANGED <<failed, outcome>>

CallPanics(i) ==
    /\ outcome = <<"pending">>
    /\ i \notin finished \cup failed
    /\ failed' = failed \cup {i}
    /\ UNCHANGED <<finished, outcome>>

Returns ==
    /\ outcome = <<"pending">>
    /\ finished = Items
    /\ failed = {}
    /\ outcome' = <<"returned">>
    /\ UNCHANGED <<finished, failed>>

Raises(i) ==
    /\ outcome = <<"pending">>
    /\ i \in failed
    /\ outcome' = <<"panic", i>>
    /\ UNCHANGED <<finished, failed>>

Next == Returns \/ \E i \in Items : CallReturns(i) \/ CallPanics(i) \/ Raises(i)

Spec == Init /\ [][Next]_vars
=============================================================================
