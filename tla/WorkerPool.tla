----------------------------- MODULE WorkerPool -----------------------------
(***************************************************************************)
(* A section's parallel passes (checks/support/parallel.go): the runner's  *)
(* per-file scan (ParallelIndexed), the loops nested in a section          *)
(* (ParallelFor) and its fixed sets of passes (RunConcurrently).           *)
(*                                                                         *)
(* All three start goroutines that call fn on items 0..N-1, capture the    *)
(* first panic through a sync.Once and re-raise it on the caller once      *)
(* every goroutine has returned.  They differ in how a goroutine gets its  *)
(* items: from a shared atomic counter, or one fixed task each; and        *)
(* ParallelIndexed alone looks at the panic flag before claiming another.  *)
(* A pass too small for two workers runs on the caller, which is a pool    *)
(* of one.                                                                 *)
(***************************************************************************)
EXTENDS Integers, FiniteSets

CONSTANTS
    N,                  \* items of the pass
    CPUs,               \* min(GOMAXPROCS, NumCPU)
    MaxParallelWorkers, \* maxParallelWorkers
    MaxFileScanWorkers  \* MaxFileScanWorkers

ASSUME NAssumption == N \in Nat
ASSUME CPUsAssumption == CPUs \in Int
ASSUME MaxParallelWorkersAssumption == MaxParallelWorkers \in Nat
ASSUME MaxFileScanWorkersAssumption == MaxFileScanWorkers \in Nat \ {0}

Items == 0 .. (N - 1)

Smaller(a, b) == IF a < b THEN a ELSE b

\* ParallelWorkers: at least one worker, also for an empty pass.
ParallelWorkers ==
    LET wanted == Smaller(Smaller(CPUs, MaxParallelWorkers), N)
    IN  IF wanted < 1 THEN 1 ELSE wanted

FileScanWorkers == Smaller(ParallelWorkers, MaxFileScanWorkers)

Modes == {"indexed", "for", "tasks"}    \* ParallelIndexed, ParallelFor, RunConcurrently

Workers  == 0 .. (IF N = 0 THEN 0 ELSE N - 1)     \* never more than items, but one
Width(m) == CASE m = "indexed" -> ParallelWorkers
              [] m = "for"     -> FileScanWorkers
              [] m = "tasks"   -> N

None == -1

Pending  == <<"pending">>
Returned == <<"returned">>
Panic(i) == <<"panic", i>>

VARIABLES
    mode,       \* which of the three functions runs the pass
    pc,         \* where each goroutine of the pool is
    item,       \* the item it claimed last
    next,       \* the shared counter
    once,       \* panicOnce: the worker that won it, and whether it is through
    value,      \* panicValue: the item whose panic was captured
    panicked,   \* the flag stored after the value
    runs,       \* times fn was called on each item
    returned,   \* items whose call returned: their slot is written
    raised,     \* items whose call panicked
    outcome     \* of the pass, on the caller's goroutine

panicVars == <<once, value, panicked>>
vars == <<mode, pc, item, next, once, value, panicked, runs, returned, raised, outcome>>

Places == {"ready", "claiming", "calling", "recovering", "capturing", "done"}

Init ==
    /\ mode \in Modes
    /\ pc = [w \in Workers |-> IF w < Width(mode) THEN "ready" ELSE "done"]
    /\ item = [w \in Workers |-> None]
    /\ next = 0
    /\ once = "fresh"
    /\ value = None
    /\ panicked = FALSE
    /\ runs = [i \in Items |-> 0]
    /\ returned = {}
    /\ raised = {}
    /\ outcome = Pending

\* Mutant of Stops: ParallelFor gives up at the first panic as well.
StopsAlways(w) == panicked \/ (mode = "tasks" /\ item[w] # None)

(* The top of the loop: ParallelIndexed gives up once a panic is flagged,  *)
(* and a fixed task is not taken twice.                                    *)
Stops(w) ==
    \/ mode = "indexed" /\ panicked
    \/ mode = "tasks" /\ item[w] # None

Loop(w) ==
    /\ pc[w] = "ready"
    /\ pc' = [pc EXCEPT ![w] = IF Stops(w) THEN "done" ELSE "claiming"]
    /\ UNCHANGED <<mode, item, next, panicVars, runs, returned, raised, outcome>>

\* Starting fn on an item.
Call(w, i) ==
    /\ item' = [item EXCEPT ![w] = i]
    /\ runs' = [runs EXCEPT ![i] = @ + 1]
    /\ pc' = [pc EXCEPT ![w] = "calling"]

\* Mutant of Claim: the counter is loaded and stored instead of added to, so a
\* claim made in between is forgotten.
ClaimLoaded(w) ==
    /\ pc[w] = "claiming"
    /\ \E read \in {next, next - 1} \cap Nat :
         /\ next' = read + 1
         /\ IF read < N THEN Call(w, read)
            ELSE pc' = [pc EXCEPT ![w] = "done"] /\ UNCHANGED <<item, runs>>
    /\ UNCHANGED <<mode, panicVars, returned, raised, outcome>>

\* Mutant of Claim: the bound is off by one.
ClaimPastEnd(w) ==
    /\ pc[w] = "claiming"
    /\ next' = next + 1
    /\ IF next <= N THEN Call(w, next)
       ELSE pc' = [pc EXCEPT ![w] = "done"] /\ UNCHANGED <<item, runs>>
    /\ UNCHANGED <<mode, panicVars, returned, raised, outcome>>

(* i := next.Add(1) - 1, or the goroutine's own task.                      *)
Claim(w) ==
    /\ pc[w] = "claiming"
    /\ IF mode = "tasks" THEN Call(w, w) /\ UNCHANGED next
       ELSE /\ next' = next + 1
            /\ IF next < N THEN Call(w, next)
               ELSE pc' = [pc EXCEPT ![w] = "done"] /\ UNCHANGED <<item, runs>>
    /\ UNCHANGED <<mode, panicVars, returned, raised, outcome>>

CallReturns(w) ==
    /\ pc[w] = "calling"
    /\ returned' = returned \cup {item[w]}
    /\ pc' = [pc EXCEPT ![w] = "ready"]
    /\ UNCHANGED <<mode, item, next, panicVars, runs, raised, outcome>>

(* The panic unwinds to the goroutine's deferred recover, which ends it.   *)
CallPanics(w) ==
    /\ pc[w] = "calling"
    /\ raised' = raised \cup {item[w]}
    /\ pc' = [pc EXCEPT ![w] = "recovering"]
    /\ UNCHANGED <<mode, item, next, panicVars, runs, returned, outcome>>

(* panicOnce.Do: the first one stores the value ...                        *)
Capture(w) ==
    /\ pc[w] = "recovering"
    /\ once = "fresh"
    /\ once' = "entered"
    /\ value' = item[w]
    /\ pc' = [pc EXCEPT ![w] = "capturing"]
    /\ UNCHANGED <<mode, item, next, panicked, runs, returned, raised, outcome>>

\* Mutant of Flag: the flag is never stored.
FlagForgotten(w) ==
    /\ pc[w] = "capturing"
    /\ once' = "through"
    /\ pc' = [pc EXCEPT ![w] = "done"]
    /\ UNCHANGED <<mode, item, next, value, panicked, runs, returned, raised, outcome>>

(* ... and then the flag ...                                               *)
Flag(w) ==
    /\ pc[w] = "capturing"
    /\ panicked' = TRUE
    /\ once' = "through"
    /\ pc' = [pc EXCEPT ![w] = "done"]
    /\ UNCHANGED <<mode, item, next, value, runs, returned, raised, outcome>>

\* Mutant of Drop: wg.Done ends the loop and is not deferred.
DropUndone(w) ==
    /\ pc[w] = "recovering"
    /\ once = "through"
    /\ pc' = [pc EXCEPT ![w] = "lost"]
    /\ UNCHANGED <<mode, item, next, panicVars, runs, returned, raised, outcome>>

(* ... and a later one waits for that and drops its own.                   *)
Drop(w) ==
    /\ pc[w] = "recovering"
    /\ once = "through"
    /\ pc' = [pc EXCEPT ![w] = "done"]
    /\ UNCHANGED <<mode, item, next, panicVars, runs, returned, raised, outcome>>

(* wg.Wait on the caller, then the captured panic or the results.          *)
Wait ==
    /\ outcome = Pending
    /\ \A w \in Workers : pc[w] = "done"
    /\ outcome' = IF panicked THEN Panic(value) ELSE Returned
    /\ UNCHANGED <<mode, pc, item, next, panicVars, runs, returned, raised>>

Terminated == outcome # Pending /\ UNCHANGED vars

WorkerStep(w) ==
    \/ Loop(w) \/ Claim(w) \/ CallReturns(w) \/ CallPanics(w)
    \/ Capture(w) \/ Flag(w) \/ Drop(w)

Next == (\E w \in Workers : WorkerStep(w)) \/ Wait \/ Terminated

(* Goroutines are scheduled fairly and fn returns or panics.               *)
Fairness == WF_vars(Wait) /\ \A w \in Workers : WF_vars(WorkerStep(w))

Spec == Init /\ [][Next]_vars /\ Fairness

----------------------------------------------------------------------------
\* The variables stay in the shapes the code gives them.
TypeOK ==
    /\ pc \in [Workers -> Places]
    /\ item \in [Workers -> Items \cup {None}]
    /\ next \in Nat
    /\ once \in {"fresh", "entered", "through"}
    /\ value \in Items \cup {None}
    /\ panicked \in BOOLEAN
    /\ runs \in [Items -> Nat]
    /\ returned \subseteq Items
    /\ raised \subseteq Items
    /\ outcome \in {Pending, Returned} \cup {Panic(i) : i \in Items}
    /\ mode \in Modes

\* No item is handed to two goroutines: fn may write what index i owns.
EachItemOnce == \A i \in Items : runs[i] <= 1

\* ParallelFor and RunConcurrently call every item although some panic, unless
\* a panic ended every one of the goroutines.
PassRunsThrough ==
    outcome # Pending /\ mode # "indexed" =>
        Items \subseteq returned \cup raised \/ Cardinality(raised) = Width(mode)

\* Every pass ends, whichever calls panic.
Termination == <>(outcome # Pending)

\* The pass returns with every item's result or raises the panic of an item
\* that did panic, after all its goroutines are through (ParallelMap).
Promise == INSTANCE ParallelMap WITH finished <- returned, failed <- raised
PassPromise == Promise!Spec
=============================================================================
