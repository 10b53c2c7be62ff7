------------------------ MODULE SectionScan_proofs ------------------------
(***************************************************************************)
(* Machine-checked proofs about SectionScan, for any number of sections,   *)
(* targets and files.                                                      *)
(***************************************************************************)
EXTENDS SectionScan, FiniteSetTheorems, TLAPS

----------------------------------------------------------------------------
(* The results the actions build are results.                              *)

\* What SafeRun, the triage and the finalizer build is a section result.
LEMMA ResultTypes ==
    /\ PanicResult \in Result
    /\ \A v \in Verdicts, ds \in SUBSET Diagnostics :
          SectionResult(v.findings, v.diagnostics \cup ds) \in Result
    /\ \A levels : Escalate(levels) \in Statuses
  <1>1. \A levels : Escalate(levels) \in Statuses
    BY DEF Escalate, Statuses
  <1>2. PanicResult \in Result
    BY DEF PanicResult, Result, Statuses, Levels, Diagnostics
  <1>3. ASSUME NEW v \in Verdicts, NEW ds \in SUBSET Diagnostics
        PROVE  SectionResult(v.findings, v.diagnostics \cup ds) \in Result
    <2>1. /\ v.findings \in SUBSET Levels
          /\ v.diagnostics \in SUBSET ToolDiagnostics
      BY VerdictsAssumption
    <2>2. v.diagnostics \cup ds \in SUBSET Diagnostics
      BY <2>1 DEF Diagnostics
    <2> QED
      BY <1>1, <2>1, <2>2 DEF SectionResult, Result
  <1> QED
    BY <1>1, <1>2, <1>3

\* Draining the queue hands out diagnostics that were in it.
LEMMA TakenDiagnostics ==
    ASSUME queue \subseteq QueuedDiagnostics, walkFailures \subseteq Targets
    PROVE  TakeDiagnostics \in SUBSET Diagnostics
  BY DEF TakeDiagnostics, Diagnostics, WalkDiagnostics

\* Every variable keeps the shape its Go declaration gives it.
THEOREM TypeCorrect == Spec => []TypeOK
  <1>1. Init => TypeOK
    BY DEF Init, TypeOK, Places, WalkStates, Phases, Nobody
  <1>2. TypeOK /\ [Next]_vars => TypeOK'
    <2> SUFFICES ASSUME TypeOK, [Next]_vars PROVE TypeOK'
      OBVIOUS
    <2> USE DEF TypeOK, corpusVars, streamVars
    <2>1. ASSUME NEW s \in Section, Start(s) PROVE TypeOK'
      BY <2>1 DEF Start, Places
    <2>2. ASSUME NEW s \in Section, NEW t \in Targets, BeginWalk(s, t) PROVE TypeOK'
      BY <2>2 DEF BeginWalk, Places, WalkStates
    <2>3. ASSUME NEW s \in Section, NEW t \in Targets,
                 NEW outcome \in {"ok", "truncated", "failed"},
                 EndWalk(s, t, outcome)
          PROVE  TypeOK'
      BY <2>3 DEF EndWalk, RecordTruncation, Places, WalkStates, QueuedDiagnostics,
                  SeenKeys
    <2>4. ASSUME NEW s \in Section, NEW t \in Targets, WalkPanics(s, t) PROVE TypeOK'
      BY <2>4, ResultTypes DEF WalkPanics, Places, WalkStates
    <2>5. ASSUME NEW s \in Section, NEW t \in Targets, ListMemoized(s, t) PROVE TypeOK'
      BY <2>5 DEF ListMemoized
    <2>6. ASSUME NEW s \in Section, NEW f \in Files, ReadFails(s, f) PROVE TypeOK'
      BY <2>6 DEF ReadFails, RecordReadError, QueuedDiagnostics, SeenKeys
    <2>7. ASSUME NEW s \in Section, NEW v \in Verdicts, Finalize(s, v) PROVE TypeOK'
      BY <2>7, ResultTypes, TakenDiagnostics DEF Finalize, Places
    <2>8. ASSUME NEW s \in Section, EnterCallback(s) \/ NotifyRecovered(s) PROVE TypeOK'
      BY <2>8 DEF EnterCallback, NotifyRecovered, Places
    <2>9. ASSUME NEW s \in Section, Panics(s) PROVE TypeOK'
      BY <2>9, ResultTypes DEF Panics, Places
    <2>10. ASSUME NEW s \in Section, Return(s) PROVE TypeOK'
      BY <2>10 DEF Return, Places
    <2>11. CASE BuildReturns \/ TriageSkips \/ (\E ok \in BOOLEAN : ImportReports(ok))
      BY <2>11 DEF BuildReturns, TriageSkips, ImportReports, Later, Phases
    <2>12. ASSUME NEW s \in Section
           PROVE  results[s] \in [status : Statuses \cup {"none"},
                                  findings : SUBSET Levels,
                                  diagnostics : SUBSET Diagnostics]
      BY DEF Result, NoResult
    <2>13. ASSUME NEW dismissed \in [Section -> SUBSET Levels], TriageFilters(dismissed)
           PROVE  TypeOK'
      <3>1. ASSUME NEW s \in Section PROVE results'[s] \in Result
        <4>1. results'[s] = [status |-> Escalate(results[s].findings \ dismissed[s]),
                             findings |-> results[s].findings \ dismissed[s],
                             diagnostics |-> results[s].diagnostics]
          BY <2>13 DEF TriageFilters
        <4> QED
          BY <4>1, <2>12, ResultTypes DEF Result
      <3> QED
        BY <2>13, <3>1 DEF TriageFilters, Later, Phases
    <2>14. ASSUME NEW attached \in SUBSET Section, AttachHistory(attached) PROVE TypeOK'
      <3>1. ASSUME NEW s \in Section PROVE results'[s] \in Result \cup {NoResult}
        <4>1. CASE s \in attached
          <5>1. results'[s] =
                    [status |-> Escalate({results[s].status, Level(HistoryWrite)}),
                     findings |-> results[s].findings,
                     diagnostics |-> results[s].diagnostics \cup {HistoryWrite}]
            BY <2>14, <4>1 DEF AttachHistory
          <5>2. HistoryWrite \in Diagnostics
            BY DEF Diagnostics
          <5> QED
            BY <5>1, <5>2, <2>12, ResultTypes DEF Result
        <4>2. CASE s \notin attached
          BY <2>14, <4>2 DEF AttachHistory
        <4> QED
          BY <4>1, <4>2
      <3> QED
        BY <2>14, <3>1 DEF AttachHistory, Later, Phases
    <2> QED
      BY <2>1, <2>2, <2>3, <2>4, <2>5, <2>6, <2>7, <2>8, <2>9, <2>10, <2>11, <2>13, <2>14
         DEF Next, SectionStep, RunnerStep, Terminated, vars
  <1> QED
    BY <1>1, <1>2, PTL DEF Spec
----------------------------------------------------------------------------
(* The inductive invariant.  The properties are about results; what makes  *)
(* them hold is how a walk's outcome travels: memoized, recorded among the *)
(* failures, copied into the sections that consumed it, and kept there.    *)

\* A section inside the callback holds the mutex.
LockInv == \A s \in Section : pc[s] \in {"streaming", "notifying"} => holder = s

\* Walk failures are recorded, are final, and some section was handed each.
WalkInv ==
    /\ \A t \in Targets : walk[t] = "failed" <=> t \in walkFailures
    /\ \A s \in Section : \A t \in consumed[s] : walk[t] \notin {"unlisted", "walking"}
    /\ \A t \in walkFailures : \E s \in Section : t \in consumed[s]

\* Where a section's result is settled, short of a crash.
Settled == {"finalized", "streaming", "recovered", "notifying", "done"}

\* A settled section reports every failed walk it consumed, or its crash; any
\* fail-level diagnostic fails it.
SettledInv ==
    \A s \in Section : pc[s] \in Settled =>
        /\ \/ Panic \in section[s].diagnostics
           \/ \A t \in consumed[s] :
                 t \in walkFailures => WalkFailure(t) \in section[s].diagnostics
        /\ (\E d \in section[s].diagnostics : Level(d) = "fail")
              => section[s].status = "fail"

CrashInv ==
    \A s \in crashed : /\ pc[s] \in {"recovered", "notifying", "done"}
                       /\ Panic \in section[s].diagnostics

\* The later phases only ever add to the diagnostics of the sections.
ResultsInv ==
    /\ phase # "building" => \A s \in Section : pc[s] = "done"
    /\ \A s \in Section : pc[s] = "done" =>
          /\ section[s].diagnostics \subseteq results[s].diagnostics
          /\ phase \in {"building", "built"} => results[s] = section[s]

IInv == LockInv /\ WalkInv /\ SettledInv /\ CrashInv /\ ResultsInv

\* Diagnostics that fail a section leave it at "fail", and add to it.
LEMMA FailLevels ==
    /\ Level(Panic) = "fail"
    /\ \A t \in Targets : Level(WalkFailure(t)) = "fail"
    /\ \A levels : "fail" \in levels => Escalate(levels) = "fail"
  BY DEF Level, FailDiagnostics, WalkDiagnostics, Escalate

\* A section is never mistaken for the free holder of the callback lock.
LEMMA SectionsAreSomebody ==
    \A s \in Section : s # Nobody
  BY NAssumption DEF Section, Nobody

\* The invariant holds before the first section starts.
LEMMA InitInv == Init => IInv
  BY DEF Init, IInv, LockInv, WalkInv, SettledInv, Settled, CrashInv, ResultsInv

\* Every step keeps the inductive invariant.
LEMMA StepInv ==
    ASSUME TypeOK, IInv, [Next]_vars
    PROVE  IInv'
  <1> USE DEF IInv, LockInv, WalkInv, SettledInv, Settled, CrashInv, ResultsInv, TypeOK
  <1> USE SectionsAreSomebody
  <1>1. ASSUME NEW s \in Section, Start(s) PROVE IInv'
    BY <1>1 DEF Start, corpusVars, streamVars
  <1>2. ASSUME NEW s \in Section, NEW t \in Targets, BeginWalk(s, t) PROVE IInv'
    BY <1>2 DEF BeginWalk, corpusVars, streamVars
  <1>3. ASSUME NEW s \in Section, NEW t \in Targets,
               NEW outcome \in {"ok", "truncated", "failed"},
               EndWalk(s, t, outcome)
        PROVE  IInv'
    <2>1. LockInv' /\ CrashInv' /\ ResultsInv'
      BY <1>3 DEF EndWalk, streamVars
    <2>2. WalkInv'
      BY <1>3 DEF EndWalk
    <2>3. SettledInv'
      BY <1>3 DEF EndWalk
    <2> QED
      BY <2>1, <2>2, <2>3
  <1>4. ASSUME NEW s \in Section, NEW t \in Targets, WalkPanics(s, t) PROVE IInv'
    <2>1. LockInv' /\ WalkInv' /\ ResultsInv'
      BY <1>4 DEF WalkPanics, streamVars
    <2>2. SettledInv' /\ CrashInv'
      BY <1>4 DEF WalkPanics, PanicResult
    <2> QED
      BY <2>1, <2>2
  <1>5. ASSUME NEW s \in Section, NEW t \in Targets, ListMemoized(s, t) PROVE IInv'
    BY <1>5 DEF ListMemoized, corpusVars, streamVars
  <1>6. ASSUME NEW s \in Section, NEW f \in Files, ReadFails(s, f) PROVE IInv'
    BY <1>6 DEF ReadFails, streamVars
  <1>7. ASSUME NEW s \in Section, NEW v \in Verdicts, Finalize(s, v) PROVE IInv'
    <2>1. LockInv' /\ WalkInv' /\ CrashInv' /\ ResultsInv'
      BY <1>7 DEF Finalize, streamVars
    <2>2. SettledInv'
      <3> DEFINE ds == v.diagnostics \cup TakeDiagnostics
      <3>1. section'[s] = SectionResult(v.findings, ds)
        BY <1>7 DEF Finalize
      <3>2. \A t \in walkFailures : WalkFailure(t) \in section'[s].diagnostics
        BY <3>1 DEF SectionResult, TakeDiagnostics
      <3>3. (\E d \in section'[s].diagnostics : Level(d) = "fail")
                => section'[s].status = "fail"
        BY <3>1, FailLevels DEF SectionResult
      <3> QED
        BY <1>7, <3>2, <3>3 DEF Finalize
    <2> QED
      BY <2>1, <2>2
  <1>8. ASSUME NEW s \in Section, EnterCallback(s) \/ NotifyRecovered(s) PROVE IInv'
    BY <1>8 DEF EnterCallback, NotifyRecovered, corpusVars
  <1>9. ASSUME NEW s \in Section, Panics(s) PROVE IInv'
    <2>1. LockInv' /\ WalkInv' /\ ResultsInv'
      BY <1>9 DEF Panics, corpusVars
    <2>2. SettledInv' /\ CrashInv'
      BY <1>9 DEF Panics, PanicResult, corpusVars
    <2> QED
      BY <2>1, <2>2
  <1>10. ASSUME NEW s \in Section, Return(s) PROVE IInv'
    BY <1>10 DEF Return, corpusVars
  <1>11. CASE BuildReturns \/ TriageSkips \/ \E ok \in BOOLEAN : ImportReports(ok)
    BY <1>11 DEF BuildReturns, TriageSkips, ImportReports, Later, corpusVars, streamVars
  <1>12. ASSUME NEW dismissed \in [Section -> SUBSET Levels], TriageFilters(dismissed)
         PROVE  IInv'
    <2>1. \A s \in Section : results'[s].diagnostics = results[s].diagnostics
      BY <1>12 DEF TriageFilters
    <2> QED
      BY <1>12, <2>1 DEF TriageFilters, Later, corpusVars, streamVars
  <1>13. ASSUME NEW attached \in SUBSET Section, AttachHistory(attached) PROVE IInv'
    <2>1. \A s \in Section : results[s].diagnostics \subseteq results'[s].diagnostics
      BY <1>13 DEF AttachHistory
    <2> QED
      BY <1>13, <2>1 DEF AttachHistory, Later, corpusVars, streamVars
  <1>14. CASE UNCHANGED vars
    BY <1>14 DEF vars
  <1> QED
    BY <1>1, <1>2, <1>3, <1>4, <1>5, <1>6, <1>7, <1>8, <1>9, <1>10, <1>11, <1>12,
       <1>13, <1>14
       DEF Next, SectionStep, RunnerStep, Terminated

\* The inductive invariant holds in every state of a scan.
THEOREM InvariantHolds == Spec => []IInv
  <1>1. Init => IInv
    BY InitInv
  <1>2. TypeOK /\ IInv /\ [Next]_vars => IInv'
    BY StepInv
  <1> QED
    BY <1>1, <1>2, TypeCorrect, PTL DEF Spec

----------------------------------------------------------------------------
\* OnSectionComplete is never entered by two sections at once.
THEOREM CallbackIsSerial == Spec => []CallbackSerial
  <1>1. IInv => CallbackSerial
    BY DEF IInv, LockInv, CallbackSerial
  <1> QED
    BY <1>1, InvariantHolds, PTL

\* A section handed a failed listing is returned by Build as a failure.
THEOREM FailedWalksFail == Spec => []FailedWalkNeverClean
  <1>1. TypeOK /\ IInv => FailedWalkNeverClean
    <2> SUFFICES ASSUME TypeOK, IInv, phase \in {"building", "built"},
                        NEW s \in Section, NEW t \in consumed[s],
                        walk[t] = "failed", pc[s] = "done"
                 PROVE  results[s].status = "fail"
      BY DEF FailedWalkNeverClean
    <2>1. t \in Targets /\ t \in walkFailures
      BY DEF TypeOK, IInv, WalkInv
    <2>2. \E d \in section[s].diagnostics : Level(d) = "fail"
      BY <2>1, FailLevels DEF IInv, SettledInv, Settled
    <2>3. section[s].status = "fail"
      BY <2>2 DEF IInv, SettledInv, Settled
    <2> QED
      BY <2>3 DEF IInv, ResultsInv
  <1> QED
    BY <1>1, TypeCorrect, InvariantHolds, PTL
----------------------------------------------------------------------------
(* The refinement.  An incomplete scan is marked by a fail-level           *)
(* diagnostic in some section when Build returns, and no later phase       *)
(* removes a diagnostic.                                                   *)

\* Once Build has returned, an incomplete scan holds what refuses it.
LEMMA IncompleteIsMarked ==
    ASSUME TypeOK, IInv, Incomplete, phase # "building"
    PROVE  Refused("none")
  <1>1. \A s \in Section : /\ pc[s] = "done"
                           /\ section[s].diagnostics \subseteq results[s].diagnostics
    BY DEF IInv, ResultsInv
  <1>2. CASE crashed # {}
    <2>1. PICK s \in crashed : Panic \in section[s].diagnostics
      BY <1>2 DEF IInv, CrashInv
    <2>2. s \in Section
      BY DEF TypeOK
    <2> QED
      BY <1>1, <2>1, <2>2, FailLevels DEF Refused
  <1>3. CASE walkFailures # {}
    <2>1. PICK t \in walkFailures : \E s \in Section : t \in consumed[s]
      BY <1>3 DEF IInv, WalkInv
    <2>2. PICK s \in Section : t \in consumed[s]
      BY <2>1
    <2>3. t \in Targets
      BY DEF TypeOK
    <2>4. \/ Panic \in section[s].diagnostics
          \/ WalkFailure(t) \in section[s].diagnostics
      BY <1>1, <2>2 DEF IInv, SettledInv, Settled
    <2> QED
      BY <1>1, <2>3, <2>4, FailLevels DEF Refused
  <1> QED
    BY <1>2, <1>3 DEF Incomplete

\* A scan only becomes incomplete while its sections run.
LEMMA IncompleteWhileBuilding ==
    ASSUME TypeOK, IInv, NEW s \in Section, SectionStep(s)
    PROVE  /\ phase = "building" /\ phase' = "building"
           /\ Incomplete => Incomplete'
  <1>1. pc[s] # "done"
    BY DEF SectionStep, Start, BeginWalk, EndWalk, WalkPanics, ListMemoized, ReadFails,
           Finalize, EnterCallback, Panics, NotifyRecovered, Return
  <1>2. phase = "building"
    BY <1>1 DEF IInv, ResultsInv
  <1>3. phase' = phase /\ walkFailures \subseteq walkFailures' /\ crashed \subseteq crashed'
    BY DEF SectionStep, Start, BeginWalk, EndWalk, WalkPanics, ListMemoized, ReadFails,
           Finalize, EnterCallback, Panics, NotifyRecovered, Return, corpusVars
  <1> QED
    BY <1>2, <1>3 DEF Incomplete

\* An incomplete scan is refused whatever the exit policy (ScanGate).
THEOREM GateIsHeld == Spec => GateHolds
  <1>1. Init => Gate!Init
    BY DEF Init, Gate!Init, Incomplete, Verdict
  <1>2. ASSUME TypeOK, IInv, IInv', TypeOK', [Next]_vars
        PROVE  [Gate!Next]_Gate!vars
    <2>1. CASE \E s \in Section : SectionStep(s)
      <3>1. /\ phase = "building" /\ phase' = "building"
            /\ Incomplete => Incomplete'
        BY <1>2, <2>1, IncompleteWhileBuilding
      <3> QED
        BY <3>1 DEF Gate!Next, Gate!vars, Gate!Degrade, Verdict, Incomplete
    <2>2. CASE RunnerStep
      <3>1. Incomplete' = Incomplete
        BY <2>2 DEF RunnerStep, BuildReturns, TriageSkips, TriageFilters,
                    ImportReports, AttachHistory, Later, Incomplete, corpusVars
      <3>2. CASE phase' \in {"built", "triaged", "imported"} /\ phase \in {"building", "built", "triaged"}
        BY <3>1, <3>2 DEF Gate!vars, Verdict
      <3>3. CASE phase = "triaged" /\ phase' = "aborted"
        BY <3>1, <3>3 DEF Gate!Next, Gate!Close, Verdict
      <3>4. CASE phase = "imported" /\ phase' = "reported"
        <4>1. Incomplete' => Refused("none")'
          <5>1. phase' # "building"
            BY <3>4
          <5>2. (TypeOK /\ IInv /\ Incomplete /\ phase # "building" => Refused("none"))'
            BY IncompleteIsMarked, PTL
          <5> QED
            BY <1>2, <5>1, <5>2
        <4>2. Verdict' \in {"accepted", "refused"} /\ (Incomplete' => Verdict' = "refused")
          BY <3>4, <4>1 DEF Verdict
        <4>3. Verdict = "open"
          BY <3>4 DEF Verdict
        <4> QED
          BY <3>1, <4>2, <4>3 DEF Gate!Next, Gate!Close
      <3> QED
        BY <2>2, <3>2, <3>3, <3>4
           DEF RunnerStep, BuildReturns, TriageSkips, TriageFilters, ImportReports,
               AttachHistory, Later
    <2>3. CASE UNCHANGED vars
      BY <2>3 DEF vars, Gate!vars, Incomplete, Verdict, Refused
    <2> QED
      BY <1>2, <2>1, <2>2, <2>3 DEF Next, Terminated
  <1> QED
    BY <1>1, <1>2, TypeCorrect, InvariantHolds, PTL DEF Spec, GateHolds, Gate!Spec
----------------------------------------------------------------------------
(* What is streamed.  A section is streamed once on its way to "done", and *)
(* once more if it crashed after the first time.                           *)
StreamInv ==
    \A s \in Section :
        /\ pc[s] \in {"idle", "running", "walking", "finalized"} => calls[s] = 0
        /\ pc[s] = "streaming" => calls[s] = 1
        /\ pc[s] = "recovered" => calls[s] \in {0, 1}
        /\ pc[s] = "notifying" => calls[s] \in {1, 2}
        /\ pc[s] = "done" => calls[s] \in {1, 2}
        /\ pc[s] \in {"recovered", "notifying"} => s \in crashed
        /\ calls[s] = 2 => s \in crashed
        /\ pc[s] \in {"streaming", "notifying", "done"} => streamed[s] = section[s]

\* Every step keeps it.
LEMMA StreamStep ==
    ASSUME TypeOK, StreamInv, [Next]_vars
    PROVE  StreamInv'
  <1> USE DEF TypeOK, StreamInv
  <1>1. ASSUME NEW s \in Section, NEW t \in Targets,
               \/ BeginWalk(s, t) \/ ListMemoized(s, t)
               \/ \E outcome \in {"ok", "truncated", "failed"} : EndWalk(s, t, outcome)
        PROVE  StreamInv'
    BY <1>1 DEF BeginWalk, ListMemoized, EndWalk, streamVars
  <1>2. ASSUME NEW s \in Section, Start(s) PROVE StreamInv'
    BY <1>2 DEF Start, streamVars
  <1>3. ASSUME NEW s \in Section, NEW f \in Files, ReadFails(s, f) PROVE StreamInv'
    BY <1>3 DEF ReadFails, streamVars
  <1>4. ASSUME NEW s \in Section, NEW v \in Verdicts, Finalize(s, v) PROVE StreamInv'
    BY <1>4 DEF Finalize, streamVars
  <1>5. ASSUME NEW s \in Section, NEW t \in Targets, WalkPanics(s, t) PROVE StreamInv'
    BY <1>5 DEF WalkPanics, streamVars
  <1>6. ASSUME NEW s \in Section, Panics(s) PROVE StreamInv'
    BY <1>6 DEF Panics
  <1>7. ASSUME NEW s \in Section, EnterCallback(s) \/ NotifyRecovered(s) PROVE StreamInv'
    BY <1>7 DEF EnterCallback, NotifyRecovered
  <1>8. ASSUME NEW s \in Section, Return(s) PROVE StreamInv'
    BY <1>8 DEF Return
  <1>9. CASE RunnerStep
    BY <1>9 DEF RunnerStep, BuildReturns, TriageSkips, TriageFilters, ImportReports,
                AttachHistory, Later, streamVars
  <1>10. CASE UNCHANGED vars
    BY <1>10 DEF vars
  <1> QED
    BY <1>1, <1>2, <1>3, <1>4, <1>5, <1>6, <1>7, <1>8, <1>9, <1>10
       DEF Next, SectionStep, Terminated

\* What a caller was streamed last is what Build returns, and a section that did
\* not crash is streamed once.
THEOREM StreamIsReturned == Spec => []StreamMatchesResults
  <1>1. Init => StreamInv
    BY DEF Init, StreamInv
  <1>2. TypeOK /\ StreamInv /\ [Next]_vars => StreamInv'
    BY StreamStep
  <1>3. IInv /\ StreamInv => StreamMatchesResults
    BY DEF IInv, ResultsInv, StreamInv, StreamMatchesResults
  <1> QED
    BY <1>1, <1>2, <1>3, TypeCorrect, InvariantHolds, PTL DEF Spec

----------------------------------------------------------------------------
(* What is queued.  A diagnostic is queued when its key is seen for the    *)
(* first time, and is then in one place: the queue, or the section whose   *)
(* finalizer drained it.                                                   *)

\* The key under which a diagnostic is queued.
KeyOf(d) ==
    CASE d[1] = "scan.file-limit" -> FilesKey
      [] d = ReadLimit            -> ReadLimitKey
      [] OTHER                    -> ReadKey(d[2])

Held(s) == section[s].diagnostics \cap QueuedDiagnostics

QueueInv ==
    /\ \A d \in queue : KeyOf(d) \in seen
    /\ \A s \in Section : \A d \in Held(s) : KeyOf(d) \in seen
    /\ \A s \in Section : Held(s) \cap queue = {}
    /\ \A r, s \in Section : r # s => Held(r) \cap Held(s) = {}
    /\ \A s \in Section : results[s].diagnostics \cap QueuedDiagnostics \subseteq Held(s)
    /\ \A s \in Section : pc[s] # "done" => results[s] = NoResult

\* The keys of the diagnostics there are, and what is no queued diagnostic.
LEMMA KeysOfQueued ==
    /\ \A t \in Targets : KeyOf(WalkLimit(t)) = FilesKey
    /\ KeyOf(ReadLimit) = ReadLimitKey
    /\ \A f \in Files : KeyOf(ReadFailure(f)) = ReadKey(f)
    /\ FilesKey # ReadLimitKey
    /\ \A f \in Files : ReadKey(f) \notin {FilesKey, ReadLimitKey}
  BY DEF KeyOf, WalkLimit, ReadLimit, ReadFailure, FilesKey, ReadLimitKey, ReadKey

LEMMA NotQueued ==
    /\ Panic \notin QueuedDiagnostics
    /\ HistoryWrite \notin QueuedDiagnostics
    /\ \A t \in Targets : WalkFailure(t) \notin QueuedDiagnostics
    /\ ToolDiagnostics \cap QueuedDiagnostics = {}
  BY DEF WalkLimit, ReadLimit, ReadFailure, Panic, HistoryWrite, WalkFailure,
         ToolDiagnostics, Tool, QueuedDiagnostics

\* What a finalizer hands out of the queue is all that its section holds of it.
LEMMA FinalizedHolds ==
    ASSUME TypeOK, NEW v \in Verdicts
    PROVE  SectionResult(v.findings, v.diagnostics \cup TakeDiagnostics).diagnostics
              \cap QueuedDiagnostics = queue
  <1>1. v.diagnostics \cap QueuedDiagnostics = {}
    BY VerdictsAssumption, NotQueued
  <1>2. {WalkFailure(t) : t \in walkFailures} \cap QueuedDiagnostics = {}
    BY NotQueued DEF TypeOK
  <1>3. queue \subseteq QueuedDiagnostics
    BY DEF TypeOK
  <1> QED
    BY <1>1, <1>2, <1>3 DEF SectionResult, TakeDiagnostics

\* A diagnostic with a new key is nowhere yet.
LEMMA QueueNew ==
    ASSUME TypeOK, QueueInv, NEW d \in QueuedDiagnostics,
           \/ queue' = queue /\ seen \subseteq seen'
           \/ /\ queue' = queue \cup {d}
              /\ KeyOf(d) \notin seen /\ KeyOf(d) \in seen' /\ seen \subseteq seen',
           UNCHANGED <<section, results>>,
           \A s \in Section : pc'[s] # "done" => pc[s] # "done"
    PROVE  QueueInv'
  BY DEF QueueInv, Held

\* Every step keeps it.
LEMMA QueueStep ==
    ASSUME TypeOK, IInv, QueueInv, [Next]_vars
    PROVE  QueueInv'
  <1> USE DEF corpusVars, streamVars
  <1>1. ASSUME NEW s \in Section, Start(s) \/ EnterCallback(s) \/ NotifyRecovered(s)
        PROVE  QueueInv'
    BY <1>1 DEF Start, EnterCallback, NotifyRecovered, QueueInv, Held, TypeOK
  <1>2. ASSUME NEW s \in Section, NEW t \in Targets, BeginWalk(s, t) \/ ListMemoized(s, t)
        PROVE  QueueInv'
    BY <1>2 DEF BeginWalk, ListMemoized, QueueInv, Held, TypeOK
  <1>3. ASSUME NEW s \in Section, NEW t \in Targets,
               NEW outcome \in {"ok", "truncated", "failed"}, EndWalk(s, t, outcome)
        PROVE  QueueInv'
    <2>1. WalkLimit(t) \in QueuedDiagnostics
      BY DEF QueuedDiagnostics
    <2> QED
      BY <1>3, <2>1, QueueNew, KeysOfQueued DEF EndWalk, RecordTruncation
  <1>4. ASSUME NEW s \in Section, NEW f \in Files, ReadFails(s, f) PROVE QueueInv'
    <2>1. ReadFailure(f) \in QueuedDiagnostics /\ ReadLimit \in QueuedDiagnostics
      BY DEF QueuedDiagnostics
    <2>2. UNCHANGED <<section, results, pc>>
      BY <1>4 DEF ReadFails
    <2>3. \/ queue' = queue /\ seen' = seen
          \/ /\ ReadKey(f) \notin seen
             /\ queue' = queue \cup {ReadFailure(f)} /\ seen' = seen \cup {ReadKey(f)}
          \/ /\ queue' = IF ReadLimitKey \in seen THEN queue ELSE queue \cup {ReadLimit}
             /\ seen' = seen \cup {ReadKey(f), ReadLimitKey}
      BY <1>4 DEF ReadFails, RecordReadError
    <2>4. CASE queue' = queue
      BY <2>1, <2>2, <2>3, <2>4, QueueNew
    <2>5. CASE ReadKey(f) \notin seen /\ queue' = queue \cup {ReadFailure(f)} /\ seen' = seen \cup {ReadKey(f)}
      BY <2>1, <2>2, <2>5, QueueNew, KeysOfQueued
    <2>6. CASE /\ ReadLimitKey \notin seen
               /\ queue' = queue \cup {ReadLimit} /\ seen' = seen \cup {ReadKey(f), ReadLimitKey}
      BY <2>1, <2>2, <2>6, QueueNew, KeysOfQueued
    <2> QED
      BY <2>3, <2>4, <2>5, <2>6
  <1>5. ASSUME NEW s \in Section, NEW v \in Verdicts, Finalize(s, v) PROVE QueueInv'
    <2>1. Held(s)' = queue
      BY <1>5, FinalizedHolds DEF Finalize, Held, TypeOK
    <2>2. \A r \in Section : r # s => Held(r)' = Held(r)
      BY <1>5 DEF Finalize, Held, TypeOK
    <2>3. queue' = {} /\ UNCHANGED <<seen, results>>
      BY <1>5 DEF Finalize
    <2>4. results[s].diagnostics = {} /\ \A r \in Section : pc'[r] # "done" => pc[r] # "done"
      BY <1>5 DEF Finalize, QueueInv, NoResult, TypeOK
    <2> QED
      BY <2>1, <2>2, <2>3, <2>4 DEF QueueInv
  <1>6. ASSUME NEW s \in Section, Panics(s) \/ \E t \in Targets : WalkPanics(s, t)
        PROVE  QueueInv'
    <2>1. Held(s)' = {}
      BY <1>6, NotQueued DEF Panics, WalkPanics, Held, TypeOK, PanicResult
    <2>2. \A r \in Section : r # s => Held(r)' = Held(r)
      BY <1>6 DEF Panics, WalkPanics, Held, TypeOK
    <2>3. UNCHANGED <<seen, queue, results>>
      BY <1>6 DEF Panics, WalkPanics
    <2>4. results[s].diagnostics = {} /\ \A r \in Section : pc'[r] # "done" => pc[r] # "done"
      BY <1>6 DEF Panics, WalkPanics, QueueInv, NoResult, TypeOK
    <2> QED
      BY <2>1, <2>2, <2>3, <2>4 DEF QueueInv
  <1>7. ASSUME NEW s \in Section, Return(s) PROVE QueueInv'
    BY <1>7 DEF Return, QueueInv, Held, TypeOK
  <1>8. ASSUME RunnerStep PROVE QueueInv'
    <2>1. UNCHANGED <<pc, section, queue, seen>>
      BY <1>8 DEF RunnerStep, BuildReturns, TriageSkips, TriageFilters, ImportReports,
                  AttachHistory, Later
    <2>2. results' = results \/ \A s \in Section : pc[s] = "done"
      BY <1>8 DEF RunnerStep, BuildReturns, TriageSkips, TriageFilters, ImportReports,
                  AttachHistory, Later, IInv, ResultsInv
    <2>3. \A s \in Section : results'[s].diagnostics \subseteq results[s].diagnostics \cup {HistoryWrite}
      <3>1. ASSUME NEW dismissed \in [Section -> SUBSET Levels], TriageFilters(dismissed)
            PROVE  \A s \in Section : results'[s].diagnostics = results[s].diagnostics
        BY <3>1 DEF TriageFilters
      <3>2. ASSUME NEW attached \in SUBSET Section, AttachHistory(attached), NEW s \in Section
            PROVE  results'[s].diagnostics \subseteq results[s].diagnostics \cup {HistoryWrite}
        BY <3>2 DEF AttachHistory
      <3>3. CASE results' = results
        BY <3>3
      <3> QED
        BY <1>8, <3>1, <3>2, <3>3 DEF RunnerStep, BuildReturns, TriageSkips, ImportReports
    <2>4. \A s \in Section : Held(s)' = Held(s)
      BY <2>1 DEF Held
    <2>5. \A s \in Section : results'[s].diagnostics \cap QueuedDiagnostics \subseteq Held(s)
      BY <2>3, NotQueued DEF QueueInv
    <2>6. \A s \in Section : pc'[s] # "done" => results'[s] = NoResult
      BY <2>1, <2>2 DEF QueueInv
    <2> QED
      BY <2>1, <2>4, <2>5, <2>6 DEF QueueInv
  <1>9. CASE UNCHANGED vars
    BY <1>9 DEF vars, QueueInv, Held
  <1> QED
    BY <1>1, <1>2, <1>3, <1>4, <1>5, <1>6, <1>7, <1>8, <1>9 DEF Next, SectionStep, Terminated

LEMMA QueueHolds == Spec => []QueueInv
  <1>1. Init => QueueInv
    BY DEF Init, QueueInv, Held, NoResult
  <1>2. TypeOK /\ IInv /\ QueueInv /\ [Next]_vars => QueueInv'
    BY QueueStep
  <1> QED
    BY <1>1, <1>2, TypeCorrect, InvariantHolds, PTL DEF Spec

\* No two sections report the same diagnostic of the queue.
THEOREM QueueIsReportedOnce == Spec => []ReportedOnce
  <1>1. QueueInv => ReportedOnce
    BY DEF QueueInv, ReportedOnce
  <1> QED
    BY <1>1, QueueHolds, PTL

----------------------------------------------------------------------------
(* What is left out.  While no section crashes, a degradation that was     *)
(* noted is still in the queue or in a section, and the queue has somebody *)
(* who will drain it.                                                      *)

\* In the queue, or in the hands of a section.
Noted(d) == d \in queue \/ \E s \in Section : d \in section[s].diagnostics

DegradedInv ==
    /\ \A s \in Section : pc[s] \in {"idle", "running", "walking"} => section[s] = NoResult
    /\ queue # {} => crashed # {} \/ \E s \in Section : pc[s] \in {"running", "walking"}
    /\ crashed = {} =>
          /\ \A f \in Files : ReadKey(f) \in seen => Noted(ReadFailure(f)) \/ Noted(ReadLimit)
          /\ ReadLimitKey \in seen => Noted(ReadLimit)
          /\ FilesKey \in seen => \E t \in Targets : Noted(WalkLimit(t))
    /\ \A f \in dropped : ReadKey(f) \in seen
    /\ (\E t \in Targets : walk[t] = "truncated") => FilesKey \in seen

\* Only a crash loses what a section holds.
LEMMA NotedStays ==
    ASSUME TypeOK, DegradedInv, [Next]_vars, crashed' = {}, NEW d, Noted(d)
    PROVE  Noted(d)'
  <1> USE DEF corpusVars, streamVars, Noted
  <1>1. ASSUME NEW s \in Section, NEW v \in Verdicts, Finalize(s, v) PROVE Noted(d)'
    <2>1. queue \subseteq section'[s].diagnostics
      BY <1>1 DEF Finalize, TypeOK, SectionResult, TakeDiagnostics
    <2>2. section[s].diagnostics = {}
      BY <1>1 DEF Finalize, DegradedInv, NoResult
    <2>3. \A r \in Section : r # s => section'[r] = section[r]
      BY <1>1 DEF Finalize, TypeOK
    <2> QED
      BY <2>1, <2>2, <2>3
  <1>2. ASSUME NEW s \in Section, Panics(s) \/ \E t \in Targets : WalkPanics(s, t)
        PROVE  FALSE
    BY <1>2 DEF Panics, WalkPanics
  <1>3. ASSUME NEW s \in Section, NEW t \in Targets, NEW outcome \in {"ok", "truncated", "failed"},
               EndWalk(s, t, outcome)
        PROVE  Noted(d)'
    BY <1>3 DEF EndWalk, RecordTruncation
  <1>4. ASSUME NEW s \in Section, NEW f \in Files, ReadFails(s, f) PROVE Noted(d)'
    BY <1>4 DEF ReadFails, RecordReadError
  <1>5. ASSUME NEW s \in Section,
               \/ Start(s) \/ EnterCallback(s) \/ NotifyRecovered(s) \/ Return(s)
               \/ \E t \in Targets : BeginWalk(s, t) \/ ListMemoized(s, t)
        PROVE  Noted(d)'
    BY <1>5 DEF Start, EnterCallback, NotifyRecovered, Return, BeginWalk, ListMemoized
  <1>6. ASSUME RunnerStep PROVE Noted(d)'
    BY <1>6 DEF RunnerStep, BuildReturns, TriageSkips, TriageFilters, ImportReports,
                AttachHistory, Later
  <1>7. CASE UNCHANGED vars
    BY <1>7 DEF vars
  <1> QED
    BY <1>1, <1>2, <1>3, <1>4, <1>5, <1>6, <1>7 DEF Next, SectionStep, Terminated

\* Every step keeps it.
LEMMA DegradedStep ==
    ASSUME TypeOK, IInv, DegradedInv, [Next]_vars
    PROVE  DegradedInv'
  <1> DEFINE Fresh == \A s \in Section : pc[s] \in {"idle", "running", "walking"} => section[s] = NoResult
             Drained == queue # {} => crashed # {} \/ \E s \in Section : pc[s] \in {"running", "walking"}
             Grows ==
               /\ seen \subseteq seen' /\ crashed \subseteq crashed'
               /\ \A f \in Files : ReadKey(f) \in seen' =>
                     \/ ReadKey(f) \in seen \/ ReadFailure(f) \in queue'
                     \/ ReadLimitKey \in seen'
               /\ ReadLimitKey \in seen' => ReadLimitKey \in seen \/ ReadLimit \in queue'
               /\ FilesKey \in seen' => FilesKey \in seen \/ \E t \in Targets : WalkLimit(t) \in queue'
               /\ \A f \in dropped' : f \in dropped \/ ReadKey(f) \in seen'
               /\ \A t \in Targets : walk'[t] = "truncated" => walk[t] = "truncated" \/ FilesKey \in seen'
  <1> USE DEF corpusVars, streamVars
  <1>1. Fresh' /\ Drained'
    <2>1. ASSUME NEW s \in Section, Start(s) \/ EnterCallback(s) \/ NotifyRecovered(s) \/ Return(s)
          PROVE  Fresh' /\ Drained'
      BY <2>1 DEF Start, EnterCallback, NotifyRecovered, Return, DegradedInv, TypeOK
    <2>2. ASSUME NEW s \in Section, NEW t \in Targets, BeginWalk(s, t) \/ ListMemoized(s, t)
          PROVE  Fresh' /\ Drained'
      BY <2>2 DEF BeginWalk, ListMemoized, DegradedInv, TypeOK
    <2>3. ASSUME NEW s \in Section, NEW t \in Targets,
                 NEW outcome \in {"ok", "truncated", "failed"}, EndWalk(s, t, outcome)
          PROVE  Fresh' /\ Drained'
      BY <2>3 DEF EndWalk, DegradedInv, TypeOK
    <2>4. ASSUME NEW s \in Section, NEW f \in Files, ReadFails(s, f) PROVE Fresh' /\ Drained'
      BY <2>4 DEF ReadFails, DegradedInv, TypeOK
    <2>5. ASSUME NEW s \in Section, NEW v \in Verdicts, Finalize(s, v) PROVE Fresh' /\ Drained'
      BY <2>5 DEF Finalize, DegradedInv, TypeOK
    <2>6. ASSUME NEW s \in Section, Panics(s) \/ \E t \in Targets : WalkPanics(s, t)
          PROVE  Fresh' /\ Drained'
      BY <2>6 DEF Panics, WalkPanics, DegradedInv, TypeOK
    <2>7. CASE RunnerStep
      BY <2>7 DEF RunnerStep, BuildReturns, TriageSkips, TriageFilters, ImportReports,
                  AttachHistory, Later, DegradedInv
    <2>8. CASE UNCHANGED vars
      BY <2>8 DEF vars, DegradedInv
    <2> QED
      BY <2>1, <2>2, <2>3, <2>4, <2>5, <2>6, <2>7, <2>8 DEF Next, SectionStep, Terminated
  <1>2. Grows
    <2>1. ASSUME NEW s \in Section, NEW t \in Targets,
                 NEW outcome \in {"ok", "truncated", "failed"}, EndWalk(s, t, outcome)
          PROVE  Grows
      BY <2>1, KeysOfQueued DEF EndWalk, RecordTruncation, TypeOK
    <2>2. ASSUME NEW s \in Section, NEW f \in Files, ReadFails(s, f) PROVE Grows
      <3>1. \A g \in Files : ReadKey(g) = ReadKey(f) => g = f
        BY DEF ReadKey
      <3>2. UNCHANGED <<walk, crashed>> /\ dropped' = dropped \cup {f}
        BY <2>2 DEF ReadFails
      <3>3. CASE ReadKey(f) \in seen
        BY <2>2, <3>2, <3>3 DEF ReadFails, RecordReadError
      <3>4. CASE ReadKey(f) \notin seen /\ ReadErrorCount < MaxReadErrors
        BY <2>2, <3>1, <3>2, <3>4, KeysOfQueued DEF ReadFails, RecordReadError
      <3>5. CASE ReadKey(f) \notin seen /\ ~(ReadErrorCount < MaxReadErrors)
        BY <2>2, <3>1, <3>2, <3>5, KeysOfQueued DEF ReadFails, RecordReadError
      <3> QED
        BY <3>3, <3>4, <3>5
    <2>3. ASSUME NEW s \in Section,
                 \/ Start(s) \/ EnterCallback(s) \/ NotifyRecovered(s) \/ Return(s) \/ Panics(s)
                 \/ \E v \in Verdicts : Finalize(s, v)
                 \/ \E t \in Targets : BeginWalk(s, t) \/ ListMemoized(s, t) \/ WalkPanics(s, t)
          PROVE  Grows
      BY <2>3 DEF Start, EnterCallback, NotifyRecovered, Return, Panics, Finalize, BeginWalk,
                  ListMemoized, WalkPanics, TypeOK
    <2>4. CASE RunnerStep
      BY <2>4 DEF RunnerStep, BuildReturns, TriageSkips, TriageFilters, ImportReports,
                  AttachHistory, Later
    <2>5. CASE UNCHANGED vars
      BY <2>5 DEF vars
    <2> QED
      BY <2>1, <2>2, <2>3, <2>4, <2>5 DEF Next, SectionStep, Terminated
  <1>3. ASSUME crashed' = {}
        PROVE  /\ \A f \in Files : ReadKey(f) \in seen' => Noted(ReadFailure(f))' \/ Noted(ReadLimit)'
               /\ ReadLimitKey \in seen' => Noted(ReadLimit)'
               /\ FilesKey \in seen' => \E t \in Targets : Noted(WalkLimit(t))'
    <2>1. crashed = {}
      BY <1>2, <1>3
    <2>2. \A d : Noted(d) => Noted(d)'
      BY <1>3, NotedStays
    <2>3. \A d \in queue' : Noted(d)'
      BY DEF Noted
    <2> QED
      BY <1>2, <2>1, <2>2, <2>3 DEF DegradedInv
  <1>4. /\ \A f \in dropped' : ReadKey(f) \in seen'
        /\ (\E t \in Targets : walk'[t] = "truncated") => FilesKey \in seen'
    BY <1>2 DEF DegradedInv
  <1> QED
    BY <1>1, <1>3, <1>4 DEF DegradedInv

\* Whatever was left out of a scan in which nothing crashed is in the report.
THEOREM DegradationIsReported == Spec => []DegradationReported
  <1>1. Init => DegradedInv
    BY DEF Init, DegradedInv
  <1>2. TypeOK /\ IInv /\ DegradedInv /\ [Next]_vars => DegradedInv'
    BY DegradedStep
  <1>3. TypeOK /\ IInv /\ DegradedInv => DegradationReported
    <2> SUFFICES ASSUME TypeOK, IInv, DegradedInv, phase = "built", crashed = {}
                 PROVE  LET reported == UNION {results[s].diagnostics : s \in Section}
                        IN  /\ queue = {}
                            /\ \A f \in dropped : ReadFailure(f) \in reported \/ ReadLimit \in reported
                            /\ (\E t \in Targets : walk[t] = "truncated")
                                  => \E t \in Targets : WalkLimit(t) \in reported
      BY DEF DegradationReported
    <2>1. \A s \in Section : pc[s] = "done" /\ results[s] = section[s]
      BY DEF IInv, ResultsInv
    <2>2. queue = {}
      BY <2>1 DEF DegradedInv
    <2>3. \A d : Noted(d) => d \in UNION {results[s].diagnostics : s \in Section}
      BY <2>1, <2>2 DEF Noted
    <2>4. dropped \subseteq Files
      BY DEF TypeOK
    <2> QED
      BY <2>2, <2>3, <2>4 DEF DegradedInv
  <1> QED
    BY <1>1, <1>2, <1>3, TypeCorrect, InvariantHolds, PTL DEF Spec

----------------------------------------------------------------------------
(* Nobody waits for ever.  A section waits for a place among those that    *)
(* run, for the walk of another, or for the callback.                      *)

Calling == {"streaming", "notifying"}

\* The sections that were started are the first ones of the registry.
StartInv == \E k \in 0 .. N : \A s \in Section : pc[s] = "idle" <=> s > k

\* The callback's mutex is held by a section inside it.
HolderInv == holder # Nobody => pc[holder] \in Calling

\* A walk under way is one section's, and that section is at no other.
WalkerInv ==
    /\ \A t \in Targets : walk[t] = "walking" => walker[t] \in Section /\ pc[walker[t]] = "walking"
    /\ \A s \in Section : pc[s] = "walking" => \E t \in Targets : walk[t] = "walking" /\ walker[t] = s
    /\ \A t, u \in Targets :
          walk[t] = "walking" /\ walk[u] = "walking" /\ walker[t] = walker[u] => t = u

WaitInv == StartInv /\ HolderInv /\ WalkerInv

\* Every step keeps it.
LEMMA WaitStep ==
    ASSUME TypeOK, IInv, WaitInv, [Next]_vars
    PROVE  WaitInv'
  <1> USE SectionsAreSomebody DEF corpusVars, streamVars, WaitInv, TypeOK
  <1>1. ASSUME NEW s \in Section, Start(s) PROVE WaitInv'
    <2>1. PICK k \in 0 .. N : \A r \in Section : pc[r] = "idle" <=> r > k
      BY DEF StartInv
    <2>2. /\ s \in 1 .. N /\ pc[s] = "idle" /\ pc'[s] = "running"
          /\ \A r \in Section : r < s => pc[r] # "idle"
          /\ \A r \in Section \ {s} : pc'[r] = pc[r]
      BY <1>1 DEF Start, Section
    <2>3. \A r \in Section : r \in Int /\ (r > k <=> ~(r <= k))
      BY <2>1, NAssumption DEF Section
    <2>4. \A r \in Section : pc'[r] = "idle" <=> r > s
      BY <2>1, <2>2, NAssumption DEF Section
    <2>5. StartInv'
      BY <2>2, <2>4, NAssumption DEF StartInv
    <2>6. HolderInv' /\ WalkerInv'
      BY <1>1, <2>2 DEF Start, HolderInv, WalkerInv, Calling
    <2> QED
      BY <2>5, <2>6
  <1>2. ASSUME \A s \in Section : pc'[s] = "idle" <=> pc[s] = "idle" PROVE StartInv'
    BY <1>2 DEF StartInv
  <1>3. ASSUME NEW s \in Section, NEW t \in Targets, BeginWalk(s, t) PROVE WaitInv'
    <2>1. StartInv' /\ HolderInv'
      BY <1>2, <1>3 DEF BeginWalk, HolderInv, Calling
    <2>2. WalkerInv'
      BY <1>3 DEF BeginWalk, WalkerInv
    <2> QED
      BY <2>1, <2>2
  <1>4. ASSUME NEW s \in Section, NEW t \in Targets,
               WalkPanics(s, t) \/ \E outcome \in {"ok", "truncated", "failed"} : EndWalk(s, t, outcome)
        PROVE  WaitInv'
    <2>1. StartInv' /\ HolderInv'
      BY <1>2, <1>4 DEF WalkPanics, EndWalk, HolderInv, Calling
    <2>2. /\ pc[s] = "walking" /\ walker[t] = s /\ walk[t] = "walking"
          /\ pc'[s] # "walking" /\ walk'[t] # "walking" /\ walker' = walker
          /\ \A r \in Section \ {s} : pc'[r] = pc[r]
          /\ \A u \in Targets \ {t} : walk'[u] = walk[u]
      BY <1>4 DEF WalkPanics, EndWalk
    <2>3. WalkerInv'
      BY <2>2 DEF WalkerInv
    <2> QED
      BY <2>1, <2>3
  <1>5. ASSUME NEW s \in Section,
               \/ (\E t \in Targets : ListMemoized(s, t))
               \/ (\E f \in Files : ReadFails(s, f))
               \/ (\E v \in Verdicts : Finalize(s, v))
        PROVE  WaitInv'
    <2>1. UNCHANGED <<walk, walker, holder>>
      BY <1>5 DEF ListMemoized, ReadFails, Finalize
    <2>2. pc[s] = "running" /\ (pc' = pc \/ pc' = [pc EXCEPT ![s] = "finalized"])
      BY <1>5 DEF ListMemoized, ReadFails, Finalize
    <2>3. StartInv'
      BY <1>2, <2>2
    <2> QED
      BY <2>1, <2>2, <2>3 DEF HolderInv, WalkerInv, Calling
  <1>6. ASSUME NEW s \in Section, EnterCallback(s) \/ NotifyRecovered(s) \/ Panics(s) \/ Return(s)
        PROVE  WaitInv'
    <2>1. StartInv' /\ WalkerInv'
      BY <1>2, <1>6 DEF EnterCallback, NotifyRecovered, Panics, Return, WalkerInv
    <2>2. HolderInv'
      BY <1>6 DEF EnterCallback, NotifyRecovered, Panics, Return, HolderInv, Calling, IInv, LockInv
    <2> QED
      BY <2>1, <2>2
  <1>7. CASE RunnerStep
    BY <1>2, <1>7 DEF RunnerStep, BuildReturns, TriageSkips, TriageFilters, ImportReports,
                      AttachHistory, Later, HolderInv, WalkerInv
  <1>8. CASE UNCHANGED vars
    BY <1>2, <1>8 DEF vars, HolderInv, WalkerInv
  <1> QED
    BY <1>1, <1>3, <1>4, <1>5, <1>6, <1>7, <1>8 DEF Next, SectionStep, Terminated

\* A section that can move although every section that is not walking itself may be
\* waiting for the walks under way.
Unblocked(s) ==
    \/ /\ pc[s] = "idle"
       /\ \A r \in Section : r < s => pc[r] # "idle"
       /\ Cardinality(Running) < SectionConcurrency
    \/ pc[s] = "running" /\ \A t \in Targets : walk[t] # "walking"
    \/ pc[s] = "walking" /\ \E t \in Targets : walk[t] = "walking" /\ walker[t] = s
    \/ pc[s] \in {"finalized", "recovered"} /\ holder = Nobody
    \/ pc[s] \in Calling

ScanNeverStuck ==
    (\E s \in Section : pc[s] # "done") => \E s \in Section : Unblocked(s)

\* Until every section is done some section can move: the places of the scheduler,
\* the walks that sections share and the lock of the callback never leave everybody
\* waiting for somebody else, whatever panics and wherever.
THEOREM SectionsNeverStuck == Spec => []ScanNeverStuck
  <1>1. Init => WaitInv
    <2> SUFFICES ASSUME Init PROVE WaitInv
      OBVIOUS
    <2>1. StartInv
      <3>1. 0 \in 0 .. N /\ \A s \in Section : pc[s] = "idle" /\ s > 0
        BY NAssumption DEF Init, Section
      <3> QED
        BY <3>1 DEF StartInv
    <2> QED
      BY <2>1 DEF Init, WaitInv, HolderInv, WalkerInv
  <1>2. TypeOK /\ IInv /\ WaitInv /\ [Next]_vars => WaitInv'
    BY WaitStep
  <1>3. TypeOK /\ WaitInv => ScanNeverStuck
    <2> SUFFICES ASSUME TypeOK, WaitInv, NEW s \in Section, pc[s] # "done"
                 PROVE  \E r \in Section : Unblocked(r)
      BY DEF ScanNeverStuck
    <2>1. CASE Running = {}
      <3>1. PICK k \in 0 .. N : \A r \in Section : pc[r] = "idle" <=> r > k
        BY DEF WaitInv, StartInv
      <3>2. s > k /\ pc[s] = "idle"
        BY <2>1, <3>1 DEF Running
      <3>3. k + 1 \in Section /\ pc[k + 1] = "idle" /\ \A r \in Section : r < k + 1 => pc[r] # "idle"
        BY <3>1, <3>2, NAssumption DEF Section
      <3>4. Cardinality(Running) < SectionConcurrency
        BY <2>1, FS_EmptySet, NAssumption, ParallelismAssumption DEF SectionConcurrency
      <3> QED
        BY <3>3, <3>4 DEF Unblocked
    <2>2. CASE \E t \in Targets : walk[t] = "walking"
      BY <2>2 DEF WaitInv, WalkerInv, Unblocked
    <2>3. CASE Running # {} /\ \A t \in Targets : walk[t] # "walking"
      <3>1. PICK r \in Section : pc[r] \notin {"idle", "done"}
        BY <2>3 DEF Running
      <3>2. CASE holder = Nobody
        BY <2>3, <3>1, <3>2 DEF TypeOK, Places, WaitInv, WalkerInv, Unblocked, Calling
      <3>3. CASE holder # Nobody
        BY <3>3 DEF TypeOK, WaitInv, HolderInv, Unblocked
      <3> QED
        BY <3>2, <3>3
    <2> QED
      BY <2>1, <2>2, <2>3
  <1> QED
    BY <1>1, <1>2, <1>3, TypeCorrect, InvariantHolds, PTL DEF Spec
=============================================================================
