----------------------------- MODULE SharedRun -----------------------------
(***************************************************************************)
(* What callers of an expensive analysis are promised when identical       *)
(* requests share it: per key one run at a time, every answer the outcome  *)
(* of a whole run for the key that was asked (or that the caller itself    *)
(* gave up), and a verdict that was kept stays, unless the file it is in   *)
(* is lost, which takes every verdict of the file.                         *)
(***************************************************************************)
CONSTANTS
    Calls, Keys, KeyOf, Nothing, GaveUp,
    Earlier,    \* the runs before, each for one of the keys in Before
    Before,
    Filed   \* the keys whose verdicts are kept in one file

VARIABLES
    run,    \* of each call that made a run: "none", "running", "ok", "failed"
    answer, \* the call whose run a call was answered from
    kept    \* the keys with a verdict in the cache

Init ==
    /\ run = [c \in Calls |-> "none"]
    /\ answer = [c \in Calls |-> Nothing]
    /\ kept = Before

Begin(c) ==
    /\ run[c] = "none"
    /\ \A d \in Calls : KeyOf[d] = KeyOf[c] => run[d] # "running"
    /\ run' = [run EXCEPT ![c] = "running"]
    /\ UNCHANGED <<answer, kept>>

End(c) ==
    /\ run[c] = "running"
    /\ \E outcome \in {"ok", "failed"} : run' = [run EXCEPT ![c] = outcome]
    /\ UNCHANGED <<answer, kept>>

\* Beside what was kept, or in a file that is begun again.
Keep(c) ==
    /\ run[c] = "ok"
    /\ \E lost \in {{}, Filed} : kept' = (kept \ lost) \cup {KeyOf[c]}
    /\ UNCHANGED <<run, answer>>

Lose ==
    /\ kept' = kept \ Filed
    /\ UNCHANGED <<run, answer>>

Answer(c) ==
    /\ answer[c] = Nothing
    /\ \E l \in Calls \cup {GaveUp, Earlier} :
          /\ l = Earlier => KeyOf[c] \in Before
          /\ l \in Calls => KeyOf[l] = KeyOf[c] /\ run[l] \in {"ok", "failed"}
          /\ answer' = [answer EXCEPT ![c] = l]
    /\ UNCHANGED <<run, kept>>

Next == Lose \/ \E c \in Calls : Begin(c) \/ End(c) \/ Keep(c) \/ Answer(c)

Spec == Init /\ [][Next]_<<run, answer, kept>>
=============================================================================
