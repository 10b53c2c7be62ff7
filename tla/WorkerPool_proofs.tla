------------------------- MODULE WorkerPool_proofs -------------------------
(***************************************************************************)
(* Machine-checked proofs about WorkerPool, for any number of items and of *)
(* CPUs, and for each of the three functions that run a pass.              *)
(***************************************************************************)
EXTENDS WorkerPool, FunctionTheorems, FiniteSetTheorems, TLAPS

\* A pass that claims its items from the counter has at least one goroutine.
LEMMA WidthPositive ==
    \A m \in {"indexed", "for"} : Width(m) \in Nat \ {0}
  BY NAssumption, CPUsAssumption, MaxParallelWorkersAssumption, MaxFileScanWorkersAssumption
     DEF Width, ParallelWorkers, FileScanWorkers, Smaller

\* RunConcurrently starts one goroutine per task.
LEMMA WidthOfTasks == Width("tasks") = N
  BY DEF Width

\* Goroutines and items are counted from zero, and there is a first goroutine.
LEMMA WorkersAreNat == Workers \subseteq Nat /\ 0 \in Workers /\ Items \subseteq Nat
  BY NAssumption DEF Workers, Items

----------------------------------------------------------------------------
(* The inductive invariant: each item is accounted for from its claim to   *)
(* its return or panic, and each panic from the call to the flag.          *)

\* What the counter has passed was called once; a task is its goroutine's own.
ClaimInv ==
    /\ mode # "tasks" => \A i \in Items : runs[i] = IF i < next THEN 1 ELSE 0
    /\ mode = "tasks" => /\ \A i \in Items : runs[i] = IF item[i] = None THEN 0 ELSE 1
                         /\ \A w \in Workers : item[w] \in {None, w}
                         /\ \A w \in Workers : pc[w] = "claiming" => item[w] = None
    /\ \A w \in Workers : pc[w] # "done" => w < Width(mode)

\* A called item has returned, has panicked, or is with exactly one goroutine.
CallInv ==
    /\ \A i \in returned \cup raised : runs[i] = 1
    /\ returned \cap raised = {}
    /\ \A w \in Workers : pc[w] = "calling" =>
          /\ item[w] \in Items
          /\ runs[item[w]] = 1
          /\ item[w] \notin returned \cup raised
    /\ \A v, w \in Workers :
          pc[v] = "calling" /\ pc[w] = "calling" /\ item[v] = item[w] => v = w
    /\ \A i \in Items : runs[i] = 1 =>
          \/ i \in returned \cup raised
          \/ \E w \in Workers : pc[w] = "calling" /\ item[w] = i

\* A panic is flagged, or some goroutine is still on its way to flag one.
PanicInv ==
    /\ \A w \in Workers : pc[w] \in {"recovering", "capturing"} => item[w] \in raised
    /\ once = "through" <=> panicked
    /\ \A w \in Workers : pc[w] = "capturing" => once # "fresh"
    /\ once # "fresh" => value \in raised
    /\ raised # {} => panicked \/ \E w \in Workers : pc[w] \in {"recovering", "capturing"}

\* A goroutine ends when the items are used up or a panic is flagged.
ExitInv ==
    /\ \A w \in Workers : pc[w] = "done" /\ w < Width(mode) =>
          \/ panicked
          \/ mode # "tasks" /\ next >= N
          \/ mode = "tasks" /\ item[w] # None
    /\ outcome # Pending => \A w \in Workers : pc[w] = "done"

\* The inductive invariant: who holds which item, and what that says of its call.
IInv == TypeOK /\ ClaimInv /\ CallInv /\ PanicInv /\ ExitInv

\* A task has a goroutine of its own, and both are counted from zero.
LEMMA TasksAreWorkers == /\ Items \subseteq Workers
                         /\ \A w \in Workers : w < N => w \in Items
  BY NAssumption DEF Workers, Items

\* The three outcomes of a pass are told apart.
LEMMA Outcomes ==
    /\ Returned # Pending
    /\ \A i : Panic(i) # Pending /\ Panic(i) # Returned
  BY DEF Returned, Pending, Panic

\* "None" names neither an item nor a goroutine.
LEMMA NoneIsNoItem == None \notin Items /\ None \notin Workers
  BY NAssumption DEF None, Items, Workers

\* The invariant holds when the goroutines start.
LEMMA InitInv == Init => IInv
  <1> SUFFICES ASSUME Init PROVE IInv
    OBVIOUS
  <1>1. TypeOK
    BY DEF Init, TypeOK, Places
  <1>2. ClaimInv
    BY NoneIsNoItem, TasksAreWorkers, WorkersAreNat DEF Init, ClaimInv, Items
  <1>3. CallInv /\ PanicInv /\ ExitInv
    BY DEF Init, CallInv, PanicInv, ExitInv
  <1> QED
    BY <1>1, <1>2, <1>3 DEF IInv

\* Every step of the pass keeps it.
LEMMA StepInv ==
    ASSUME IInv, [Next]_vars
    PROVE  IInv'
  <1> USE DEF IInv
  <1>1. ASSUME NEW w \in Workers, Loop(w) PROVE IInv'
    <2>1. TypeOK'
      BY <1>1 DEF TypeOK, Loop, panicVars, Places
    <2>2. ClaimInv' /\ CallInv' /\ PanicInv'
      BY <1>1 DEF TypeOK, Loop, Stops, panicVars, ClaimInv, CallInv, PanicInv
    <2>3. ExitInv'
      BY <1>1 DEF TypeOK, Loop, Stops, panicVars, ExitInv
    <2> QED
      BY <2>1, <2>2, <2>3
  <1>2. ASSUME NEW w \in Workers, Claim(w) PROVE IInv'
    <2>1. CASE mode = "tasks"
      <3>1. w \in Items /\ item[w] = None /\ runs[w] = 0
        BY <1>2, <2>1, WidthOfTasks, TasksAreWorkers DEF ClaimInv, Claim
      <3>2. Call(w, w) /\ UNCHANGED <<mode, next, panicVars, returned, raised, outcome>>
        BY <1>2, <2>1 DEF Claim
      <3>3. TypeOK'
        BY <3>1, <3>2 DEF TypeOK, Call, panicVars, Places
      <3>4. ClaimInv'
        <4>1. \A i \in Items : runs'[i] = IF item'[i] = None THEN 0 ELSE 1
          BY <2>1, <3>1, <3>2, NoneIsNoItem, TasksAreWorkers DEF TypeOK, Call, ClaimInv
        <4>2. \A v \in Workers : item'[v] \in {None, v}
          BY <2>1, <3>1, <3>2 DEF TypeOK, Call, ClaimInv
        <4>3. \A v \in Workers : pc'[v] = "claiming" => item'[v] = None
          BY <2>1, <3>1, <3>2 DEF TypeOK, Call, ClaimInv
        <4>4. \A v \in Workers : pc'[v] # "done" => v < Width(mode)
          BY <1>2, <3>2 DEF TypeOK, Call, ClaimInv, Claim
        <4> QED
          BY <2>1, <3>2, <4>1, <4>2, <4>3, <4>4 DEF ClaimInv
      <3>5. CallInv'
        BY <1>2, <3>1, <3>2 DEF TypeOK, Call, CallInv, Claim
      <3>6. PanicInv' /\ ExitInv'
        BY <1>2, <2>1, <3>1, <3>2 DEF TypeOK, Call, PanicInv, ExitInv, panicVars, Claim
      <3> QED
        BY <3>3, <3>4, <3>5, <3>6
    <2>2. CASE mode # "tasks" /\ next < N
      <3>1. next \in Items /\ runs[next] = 0
        BY <2>2, NAssumption DEF ClaimInv, TypeOK, Items
      <3>2. /\ Call(w, next) /\ next' = next + 1
            /\ UNCHANGED <<mode, panicVars, returned, raised, outcome>>
        BY <1>2, <2>2 DEF Claim
      <3>3. TypeOK'
        BY <3>1, <3>2 DEF TypeOK, Call, panicVars, Places
      <3>4. ClaimInv'
        <4>1. \A i \in Items : runs'[i] = IF i < next' THEN 1 ELSE 0
          BY <2>2, <3>1, <3>2, WorkersAreNat DEF TypeOK, Call, ClaimInv
        <4> QED
          BY <1>2, <2>2, <3>2, <4>1 DEF TypeOK, Call, ClaimInv, Claim
      <3>5. CallInv'
        BY <1>2, <3>1, <3>2 DEF TypeOK, Call, CallInv, Claim
      <3>6. PanicInv'
        BY <1>2, <3>2 DEF TypeOK, Call, PanicInv, panicVars, Claim
      <3>7. ExitInv'
        <4>1. outcome = Pending
          BY <1>2 DEF ExitInv, Claim
        <4>2. \A v \in Workers : pc[v] = "done" /\ v < Width(mode) => panicked
          BY <2>2, NAssumption DEF ExitInv, TypeOK
        <4> QED
          BY <2>2, <3>2, <4>1, <4>2 DEF TypeOK, Call, ExitInv, panicVars
      <3> QED
        BY <3>3, <3>4, <3>5, <3>6, <3>7
    <2>3. CASE mode # "tasks" /\ ~(next < N)
      <3>1. /\ pc' = [pc EXCEPT ![w] = "done"] /\ next' = next + 1 /\ next >= N
            /\ UNCHANGED <<mode, item, runs, panicVars, returned, raised, outcome>>
        BY <1>2, <2>3, NAssumption DEF Claim, TypeOK
      <3>2. TypeOK'
        BY <3>1 DEF TypeOK, panicVars, Places
      <3>3. ClaimInv'
        BY <2>3, <3>1, NAssumption, WorkersAreNat DEF TypeOK, ClaimInv, Items
      <3>4. CallInv' /\ PanicInv'
        BY <1>2, <3>1 DEF TypeOK, CallInv, PanicInv, panicVars, Claim
      <3>5. ExitInv'
        BY <1>2, <2>3, <3>1, NAssumption DEF TypeOK, ExitInv, panicVars, Claim
      <3> QED
        BY <3>2, <3>3, <3>4, <3>5
    <2> QED
      BY <2>1, <2>2, <2>3
  <1>3. ASSUME NEW w \in Workers, CallReturns(w) \/ CallPanics(w) PROVE IInv'
    <2>1. item[w] \in Items /\ runs[item[w]] = 1 /\ item[w] \notin returned \cup raised
      BY <1>3 DEF CallInv, CallReturns, CallPanics
    <2>2. TypeOK'
      BY <1>3, <2>1 DEF TypeOK, CallReturns, CallPanics, panicVars, Places
    <2>3. ClaimInv' /\ ExitInv'
      BY <1>3 DEF TypeOK, CallReturns, CallPanics, ClaimInv, ExitInv, panicVars
    <2>4. CallInv'
      BY <1>3, <2>1 DEF TypeOK, CallReturns, CallPanics, CallInv
    <2>5. PanicInv'
      BY <1>3 DEF TypeOK, CallReturns, CallPanics, PanicInv, panicVars
    <2> QED
      BY <2>2, <2>3, <2>4, <2>5
  <1>4. ASSUME NEW w \in Workers, Capture(w) \/ Flag(w) \/ Drop(w) PROVE IInv'
    <2>1. TypeOK'
      BY <1>4 DEF TypeOK, Capture, Flag, Drop, panicVars, Places, PanicInv
    <2>2. ClaimInv' /\ CallInv'
      BY <1>4 DEF TypeOK, Capture, Flag, Drop, panicVars, ClaimInv, CallInv
    <2>3. PanicInv'
      <3>1. CASE Capture(w)
        BY <3>1 DEF TypeOK, Capture, PanicInv
      <3>2. CASE Flag(w)
        BY <3>2 DEF TypeOK, Flag, PanicInv
      <3>3. CASE Drop(w)
        BY <3>3 DEF TypeOK, Drop, panicVars, PanicInv
      <3> QED
        BY <1>4, <3>1, <3>2, <3>3
    <2>4. ExitInv'
      BY <1>4 DEF TypeOK, Capture, Flag, Drop, panicVars, ExitInv, PanicInv
    <2> QED
      BY <2>1, <2>2, <2>3, <2>4
  <1>5. CASE Wait
    <2>1. outcome' \in {Returned} \cup {Panic(i) : i \in Items}
      BY <1>5 DEF Wait, PanicInv, TypeOK
    <2>2. TypeOK' /\ ClaimInv' /\ CallInv' /\ PanicInv'
      BY <1>5, <2>1 DEF Wait, TypeOK, ClaimInv, CallInv, PanicInv, panicVars
    <2>3. ExitInv'
      BY <1>5 DEF Wait, ExitInv, panicVars
    <2> QED
      BY <2>2, <2>3
  <1>6. CASE UNCHANGED vars
    BY <1>6 DEF vars, TypeOK, ClaimInv, CallInv, PanicInv, ExitInv
  <1> QED
    BY <1>1, <1>2, <1>3, <1>4, <1>5, <1>6 DEF Next, WorkerStep, Terminated

\* The inductive invariant holds in every state of a pass.
THEOREM InvariantHolds == Spec => []IInv
  BY InitInv, StepInv, PTL DEF Spec

\* Every variable keeps its shape; the outcome is never the panic of no item.
THEOREM TypeCorrect == Spec => []TypeOK
  BY InvariantHolds, PTL DEF IInv

\* No item is handed to two goroutines, by the counter or as a task.
THEOREM ItemsAreCalledOnce == Spec => []EachItemOnce
  <1>1. IInv => EachItemOnce
    BY DEF IInv, TypeOK, ClaimInv, EachItemOnce
  <1> QED
    BY <1>1, InvariantHolds, PTL

----------------------------------------------------------------------------
(* The refinement: when every goroutine is through and no panic is         *)
(* flagged, nobody panicked and the items are used up, so all returned.    *)

LEMMA UnflaggedIsComplete ==
    ASSUME IInv, \A w \in Workers : pc[w] = "done", ~panicked
    PROVE  returned = Items /\ raised = {}
  <1> USE DEF IInv
  <1>1. raised = {}
    BY DEF PanicInv
  <1>2. ASSUME NEW i \in Items PROVE runs[i] = 1
    <2>1. CASE mode = "tasks"
      BY <2>1, WidthOfTasks, TasksAreWorkers, NAssumption DEF ExitInv, ClaimInv, Items
    <2>2. CASE mode # "tasks"
      <3>1. 0 \in Workers /\ 0 < Width(mode)
        BY <2>2, WidthPositive, WorkersAreNat DEF TypeOK, Modes
      <3>2. next >= N
        BY <2>2, <3>1 DEF ExitInv
      <3>3. i < next
        BY <3>2, NAssumption DEF Items, TypeOK
      <3> QED
        BY <2>2, <3>3 DEF ClaimInv
    <2> QED
      BY <2>1, <2>2
  <1>3. \A i \in Items : i \in returned
    BY <1>1, <1>2 DEF CallInv
  <1> QED
    BY <1>1, <1>3 DEF TypeOK

\* A pass implements ParallelMap: all the results, or the panic of an item
\* that panicked, and no call outlives the pass.
THEOREM PassKeepsPromise == Spec => PassPromise
  <1>1. Init => Promise!Init
    BY DEF Init, Promise!Init, Pending
  <1>2. ASSUME IInv, [Next]_vars
        PROVE  [Promise!Next]_Promise!vars
    <2> USE DEF Promise!vars, Promise!Next
    <2>1. ASSUME NEW w \in Workers, Loop(w) \/ Claim(w) \/ Capture(w) \/ Flag(w) \/ Drop(w)
          PROVE  UNCHANGED Promise!vars
      BY <2>1 DEF Loop, Claim, Capture, Flag, Drop
    <2>2. ASSUME NEW w \in Workers, CallReturns(w) \/ CallPanics(w)
          PROVE  Promise!Next
      <3>1. item[w] \in Items /\ item[w] \notin returned \cup raised
        BY <1>2, <2>2 DEF IInv, CallInv, CallReturns, CallPanics
      <3>2. outcome = <<"pending">>
        BY <1>2, <2>2 DEF IInv, ExitInv, Pending, CallReturns, CallPanics
      <3>3. Promise!CallReturns(item[w]) \/ Promise!CallPanics(item[w])
        BY <2>2, <3>1, <3>2
           DEF CallReturns, CallPanics, Promise!CallReturns, Promise!CallPanics
      <3> QED
        BY <3>1, <3>3
    <2>3. CASE Wait
      <3>1. CASE panicked
        <4>1. value \in raised /\ value \in Items
          BY <1>2, <3>1 DEF IInv, PanicInv, TypeOK
        <4>2. Promise!Raises(value)
          BY <2>3, <3>1, <4>1 DEF Wait, Pending, Panic, Promise!Raises
        <4> QED
          BY <4>1, <4>2
      <3>2. CASE ~panicked
        <4>1. returned = Items /\ raised = {}
          BY <1>2, <2>3, <3>2, UnflaggedIsComplete DEF Wait
        <4> QED
          BY <2>3, <3>2, <4>1 DEF Wait, Pending, Returned, Promise!Returns
      <3> QED
        BY <3>1, <3>2
    <2>4. CASE UNCHANGED vars
      BY <2>4 DEF vars
    <2> QED
      BY <1>2, <2>1, <2>2, <2>3, <2>4 DEF Next, WorkerStep, Terminated
  <1> QED
    BY <1>1, <1>2, InvariantHolds, PTL DEF Spec, PassPromise, Promise!Spec

----------------------------------------------------------------------------
(* The passes that do not look at the flag: each goroutine goes on to the  *)
(* end of the items, unless a call of its own panicked; as nobody takes    *)
(* two panics, they are as many as the goroutines they ended.              *)

\* A goroutine that was started and is through.
Ended(w) == pc[w] = "done" /\ w < Width(mode)

\* Goroutines hold different items, a panicked item stays with the goroutine it
\* ended, and one that ends otherwise found the items used up.
ThroughInv ==
    /\ \A w \in Workers : item[w] = None \/ mode = "tasks" \/ item[w] < next
    /\ \A v, w \in Workers : item[v] = item[w] /\ item[v] # None => v = w
    /\ \A i \in raised : \E w \in Workers :
          item[w] = i /\ pc[w] \in {"recovering", "capturing", "done"} /\ w < Width(mode)
    /\ mode = "for" => \A w \in Workers : Ended(w) => next >= N \/ item[w] \in raised
    /\ mode = "tasks" => \A w \in Workers : Ended(w) => item[w] # None
    /\ \A w \in Workers : pc[w] # "done" => w < Width(mode)

\* Nothing is held or raised when the goroutines start.
LEMMA ThroughInit == Init => ThroughInv
  <1> SUFFICES ASSUME Init PROVE ThroughInv
    OBVIOUS
  <1> QED
    BY DEF Init, ThroughInv, Ended

\* Every step of the pass keeps it: a claim is past all earlier ones.
LEMMA ThroughStep ==
    ASSUME IInv, ThroughInv, [Next]_vars
    PROVE  ThroughInv'
  <1> USE DEF IInv
  <1> TypeOK
    OBVIOUS
  <1> USE NoneIsNoItem, WorkersAreNat
  <1>1. ASSUME NEW w \in Workers, Loop(w) PROVE ThroughInv'
    BY <1>1 DEF TypeOK, Loop, Stops, ThroughInv, Ended
  <1>2. ASSUME NEW w \in Workers, Claim(w) PROVE ThroughInv'
    <2>1. CASE mode = "tasks"
      <3>1. /\ pc[w] = "claiming" /\ item[w] = None /\ w < Width(mode)
            /\ item' = [item EXCEPT ![w] = w] /\ pc' = [pc EXCEPT ![w] = "calling"]
            /\ UNCHANGED <<mode, next, raised>>
        BY <1>2, <2>1 DEF Claim, Call, ClaimInv
      <3>2. \A v \in Workers : item'[v] \in {None, v} /\ (v # w => item'[v] = item[v])
        BY <2>1, <3>1 DEF TypeOK, ClaimInv
      <3>3. \A i \in raised : i # None
        BY DEF TypeOK
      <3>4. (\A i \in raised : \E v \in Workers :
               item[v] = i /\ pc[v] \in {"recovering", "capturing", "done"} /\ v < Width(mode))'
        BY <3>1, <3>2, <3>3 DEF TypeOK, ThroughInv
      <3>5. (\A u, v \in Workers : item[u] = item[v] /\ item[u] # None => u = v)'
        BY <3>2
      <3>6. \A v \in Workers : pc'[v] = "done" <=> pc[v] = "done"
        BY <3>1 DEF TypeOK
      <3>7. \A v \in Workers : pc'[v] = "done" => item'[v] = item[v]
        BY <3>1, <3>2, <3>6
      <3>8. (mode = "tasks" => \A v \in Workers : Ended(v) => item[v] # None)'
        BY <2>1, <3>1, <3>6, <3>7 DEF ThroughInv, Ended
      <3>9. (\A v \in Workers : pc[v] # "done" => v < Width(mode))'
        BY <3>1, <3>6 DEF ThroughInv
      <3>10. mode' = "tasks"
        BY <2>1, <3>1
      <3>11. (\A v \in Workers : item[v] = None \/ mode = "tasks" \/ item[v] < next)'
        BY <3>10
      <3>12. (mode = "for" => \A v \in Workers : Ended(v) => next >= N \/ item[v] \in raised)'
        BY <3>10
      <3> QED
        BY <3>4, <3>5, <3>8, <3>9, <3>11, <3>12 DEF ThroughInv
    <2>2. CASE mode # "tasks" /\ next < N
      <3>1. /\ pc[w] = "claiming" /\ w < Width(mode) /\ next \in Items /\ next \in Nat
            /\ item' = [item EXCEPT ![w] = next] /\ pc' = [pc EXCEPT ![w] = "calling"]
            /\ next' = next + 1 /\ UNCHANGED <<mode, raised>>
        BY <1>2, <2>2, NAssumption DEF TypeOK, Claim, Call, ThroughInv, Items
      <3>2. /\ item'[w] = next /\ pc'[w] = "calling"
            /\ \A v \in Workers : v # w => item'[v] = item[v] /\ pc'[v] = pc[v]
        BY <3>1 DEF TypeOK
      <3>3. \A v \in Workers : item[v] # None => item[v] < next /\ item[v] \in Nat
        BY <2>2 DEF TypeOK, ThroughInv
      <3>4. (\A v \in Workers : item[v] = None \/ mode = "tasks" \/ item[v] < next)'
        BY <3>1, <3>2, <3>3
      <3>5. (\A u, v \in Workers : item[u] = item[v] /\ item[u] # None => u = v)'
        BY <3>1, <3>2, <3>3 DEF ThroughInv
      <3>6. (\A i \in raised : \E v \in Workers :
               item[v] = i /\ pc[v] \in {"recovering", "capturing", "done"} /\ v < Width(mode))'
        BY <3>1, <3>2 DEF ThroughInv
      <3>7. (mode = "for" => \A v \in Workers : Ended(v) => next >= N \/ item[v] \in raised)'
        BY <2>2, <3>1, <3>2, NAssumption DEF ThroughInv, Ended
      <3>8. (\A v \in Workers : pc[v] # "done" => v < Width(mode))'
        BY <3>1, <3>2 DEF ThroughInv
      <3> QED
        BY <2>2, <3>1, <3>4, <3>5, <3>6, <3>7, <3>8 DEF ThroughInv
    <2>3. CASE mode # "tasks" /\ ~(next < N)
      BY <1>2, <2>3, NAssumption DEF TypeOK, Claim, ThroughInv, Ended, Items
    <2> QED
      BY <2>1, <2>2, <2>3
  <1>3. ASSUME NEW w \in Workers, CallReturns(w) PROVE ThroughInv'
    BY <1>3 DEF TypeOK, CallReturns, ThroughInv, Ended
  <1>4. ASSUME NEW w \in Workers, CallPanics(w) PROVE ThroughInv'
    BY <1>4 DEF TypeOK, CallPanics, ThroughInv, Ended
  <1>5. ASSUME NEW w \in Workers, Capture(w) \/ Flag(w) \/ Drop(w) PROVE ThroughInv'
    <2>1. item[w] \in raised
      BY <1>5 DEF Capture, Flag, Drop, PanicInv
    <2>2. \/ pc' = [pc EXCEPT ![w] = "capturing"]
          \/ pc' = [pc EXCEPT ![w] = "done"]
      BY <1>5 DEF Capture, Flag, Drop
    <2>3. pc[w] # "done" /\ UNCHANGED <<mode, item, next, raised>> /\ w < Width(mode)
      BY <1>5 DEF Capture, Flag, Drop, ThroughInv
    <2>4. item[w] # None
      BY <2>1 DEF TypeOK
    <2> QED
      BY <2>1, <2>2, <2>3, <2>4 DEF TypeOK, ThroughInv, Ended
  <1>6. CASE Wait \/ UNCHANGED vars
    BY <1>6 DEF Wait, vars, ThroughInv, Ended
  <1> QED
    BY <1>1, <1>2, <1>3, <1>4, <1>5, <1>6 DEF Next, WorkerStep, Terminated

\* Goroutines whose last items all panicked are as many as the panics.
LEMMA PanicsOfAll ==
    ASSUME TypeOK, ThroughInv, mode = "for", N > 0,
           \A w \in 0 .. (Width(mode) - 1) : item[w] \in raised
    PROVE  Cardinality(raised) = Width(mode)
  <1> DEFINE started == 0 .. (Width(mode) - 1)
             taken == [w \in started |-> item[w]]
  <1>1. Width(mode) \in Nat \ {0} /\ Width(mode) <= N
    BY WidthPositive, NAssumption, CPUsAssumption, MaxParallelWorkersAssumption,
       MaxFileScanWorkersAssumption DEF Width, ParallelWorkers, FileScanWorkers, Smaller
  <1>2. started \subseteq Workers
    BY <1>1, NAssumption DEF Workers
  <1>3. taken \in [started -> raised]
    OBVIOUS
  <1>4. \A v, w \in started : taken[v] = taken[w] => v = w
    BY <1>2, NoneIsNoItem DEF ThroughInv, TypeOK
  <1>5. \A i \in raised : \E w \in started : taken[w] = i
    BY <1>1, <1>2, WorkersAreNat DEF ThroughInv
  <1>6. taken \in Bijection(started, raised)
    BY <1>3, <1>4, <1>5, Fun_IsBij
  <1>7. IsFiniteSet(started) /\ Cardinality(started) = Width(mode)
    BY <1>1, FS_Interval
  <1> QED
    BY <1>6, <1>7, FS_Bijection DEF ExistsBijection

\* ParallelFor and RunConcurrently call every item although some panic, unless
\* as many panicked as there are goroutines.
THEOREM EveryItemIsCalled == Spec => []PassRunsThrough
  <1>1. ASSUME IInv, ThroughInv PROVE PassRunsThrough
    <2> SUFFICES ASSUME outcome # Pending, mode # "indexed",
                        ~(Items \subseteq returned \cup raised)
                 PROVE  Cardinality(raised) = Width(mode)
      BY DEF PassRunsThrough
    <2> USE <1>1 DEF IInv
    <2>1. \A w \in Workers : pc[w] = "done"
      BY DEF ExitInv
    <2>2. PICK i \in Items : runs[i] # 1
      BY <2>1 DEF CallInv
    <2>3. mode = "for"
      <3>1. ASSUME mode = "tasks" PROVE FALSE
        <4>1. i \in Workers /\ i < Width(mode)
          BY <3>1, WidthOfTasks, TasksAreWorkers, NAssumption DEF Items
        <4>2. item[i] # None
          BY <2>1, <3>1, <4>1 DEF ThroughInv, Ended
        <4> QED
          BY <2>2, <3>1, <4>2 DEF ClaimInv
      <3> QED
        BY <3>1 DEF TypeOK, Modes
    <2>4. ~(next >= N) /\ N > 0
      BY <2>2, <2>3, NAssumption DEF ClaimInv, Items, TypeOK
    <2>5. \A w \in Workers : w < Width(mode) => item[w] \in raised
      BY <2>1, <2>3, <2>4 DEF ThroughInv, Ended
    <2>6. \A w \in 0 .. (Width(mode) - 1) : w \in Workers /\ w < Width(mode)
      BY <2>3, <2>4, WidthPositive, NAssumption, CPUsAssumption, MaxParallelWorkersAssumption,
         MaxFileScanWorkersAssumption
         DEF Width, ParallelWorkers, FileScanWorkers, Smaller, Workers
    <2> QED
      BY <2>3, <2>4, <2>5, <2>6, PanicsOfAll
  <1>2. Spec => []ThroughInv
    BY ThroughInit, ThroughStep, InvariantHolds, PTL DEF Spec
  <1> QED
    BY <1>1, <1>2, InvariantHolds, PTL

----------------------------------------------------------------------------
\* A goroutine that can move, fn returning or panicking.
Unblocked(w) ==
    \/ pc[w] \in {"ready", "claiming", "calling", "capturing"}
    \/ pc[w] = "recovering" /\ once # "entered"

PoolNeverStuck ==
    (\E w \in Workers : pc[w] # "done") => \E w \in Workers : Unblocked(w)

\* Who entered panicOnce is on its way to the flag.
OnceInv == once = "entered" => \E w \in Workers : pc[w] = "capturing"

\* The caller never waits in vain: while a goroutine is not through, one of them can
\* move, also when all of them panic at once and wait for each other's panicOnce.
THEOREM PassNeverStuck == Spec => []PoolNeverStuck
  <1>1. Init => OnceInv
    BY DEF Init, OnceInv
  <1>2. IInv /\ OnceInv /\ [Next]_vars => OnceInv'
    <2> SUFFICES ASSUME TypeOK, OnceInv, [Next]_vars PROVE OnceInv'
      BY DEF IInv
    <2>1. ASSUME NEW w \in Workers, Capture(w) \/ Flag(w) PROVE OnceInv'
      BY <2>1 DEF Capture, Flag, OnceInv, TypeOK
    <2>2. ASSUME NEW w \in Workers, pc[w] # "capturing", UNCHANGED once,
                 \E place \in Places : pc' = [pc EXCEPT ![w] = place]
          PROVE  OnceInv'
      BY <2>2 DEF OnceInv, TypeOK
    <2>3. ASSUME NEW w \in Workers,
                 Loop(w) \/ Claim(w) \/ CallReturns(w) \/ CallPanics(w) \/ Drop(w)
          PROVE  OnceInv'
      BY <2>2, <2>3
         DEF Loop, Claim, Call, CallReturns, CallPanics, Drop, panicVars, Places
    <2>4. CASE Wait \/ UNCHANGED vars
      BY <2>4 DEF Wait, vars, panicVars, OnceInv
    <2> QED
      BY <2>1, <2>3, <2>4 DEF Next, WorkerStep, Terminated
  <1>3. IInv /\ OnceInv => PoolNeverStuck
    BY DEF IInv, TypeOK, Places, OnceInv, PoolNeverStuck, Unblocked
  <1> QED
    BY <1>1, <1>2, <1>3, InvariantHolds, PTL DEF Spec
=============================================================================
