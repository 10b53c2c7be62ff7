---------------------------- MODULE SectionScan ----------------------------
(***************************************************************************)
(* One codeguard scan, from the first section started to the report.       *)
(*                                                                         *)
(* checks.Build starts one goroutine per enabled section, at most          *)
(* SectionConcurrency of them at a time, and every section lists targets   *)
(* and reads files through the file corpus that all of them share.  The    *)
(* corpus memoizes one walk per target and queues the diagnostics that the *)
(* next finalizing section must report.  A section ends by finalizing or   *)
(* by panicking (SafeRun), streams its result to OnSectionComplete and     *)
(* leaves it in its own slot.  RunWithOptions then applies AI triage,      *)
(* imports external reports, attaches the history diagnostics, and the     *)
(* caller asks ReportGateError whether the scan may pass.                  *)
(*                                                                         *)
(* Abstractions: a finding is its level once admitted (after suppression,  *)
(* confidence and diff filters), a diagnostic is a tuple of its id and its *)
(* subject, and informational diagnostics, which never change a status,    *)
(* are left to the module FileCorpus.  Every diagnostic here is            *)
(* operational.  A section is one sequential actor; its own file workers   *)
(* are the module WorkerPool.                                              *)
(***************************************************************************)
EXTENDS Integers, FiniteSets

CONSTANTS
    N,              \* number of enabled sections, in registry order 1..N
    Targets,        \* the configured targets
    Files,          \* files that can fail to be read after the walk listed them
    TargetOf,       \* the target each file belongs to
    Parallelism,    \* runnersupport.ScanParallelism(): usable CPUs
    MaxReadErrors,  \* maxReadErrorDiagnostics: read failures listed one by one
    Verdicts        \* what a section's own checks can hand to FinalizeSection

ASSUME NAssumption == N \in Nat
ASSUME TargetOfAssumption == TargetOf \in [Files -> Targets]
ASSUME ParallelismAssumption == Parallelism \in Int
ASSUME MaxReadErrorsAssumption == MaxReadErrors \in Nat

Section  == 1 .. N
Nobody   == 0               \* holds no lock: not a section
Levels   == {"warn", "fail"}
Statuses == {"pass", "warn", "fail"}

\* Diagnostic identities.  The summary of the failures past the limit names no file.
WalkFailure(t) == <<"scan.target-walk", t>>
WalkLimit(t)   == <<"scan.file-limit", t>>
ReadFailure(f) == <<"scan.file-read", f>>
ReadLimit      == <<"scan.file-read">>
Tool(level)    == <<"scan.tool", level>>     \* a section's own diagnostic
Panic          == <<"scan.section.panic">>
HistoryWrite   == <<"scan.history-write">>

QueuedDiagnostics == {WalkLimit(t) : t \in Targets}
                        \cup {ReadFailure(f) : f \in Files} \cup {ReadLimit}
WalkDiagnostics   == {WalkFailure(t) : t \in Targets}
ToolDiagnostics   == {Tool(l) : l \in Levels}
Diagnostics       == QueuedDiagnostics \cup WalkDiagnostics \cup ToolDiagnostics
                        \cup {Panic, HistoryWrite}

\* Level of a diagnostic, as its constructor in the code sets it.
FailDiagnostics == WalkDiagnostics \cup {Panic, Tool("fail")}
Level(d)        == IF d \in FailDiagnostics THEN "fail" ELSE "warn"

ASSUME VerdictsAssumption ==
    Verdicts \subseteq [findings : SUBSET Levels, diagnostics : SUBSET ToolDiagnostics]

\* Keys of corpus.diagnosticSeen.
FilesKey     == <<"files">>
ReadLimitKey == <<"read-limit">>
ReadKey(f)   == <<"read", f>>
SeenKeys     == {FilesKey, ReadLimitKey} \cup {ReadKey(f) : f \in Files}

Result   == [status : Statuses, findings : SUBSET Levels,
             diagnostics : SUBSET Diagnostics]
NoResult == [status |-> "none", findings |-> {}, diagnostics |-> {}]

\* Mutant of Escalate: a section with nothing to report keeps the zero status.
EscalateUnset(levels) == IF "fail" \in levels THEN "fail"
                         ELSE IF "warn" \in levels THEN "warn" ELSE "none"

\* The highest of a set of levels; no level is a pass.
Escalate(levels) == IF "fail" \in levels THEN "fail"
                    ELSE IF "warn" \in levels THEN "warn" ELSE "pass"

SectionResult(findings, ds) ==
    [status      |-> Escalate(findings \cup {Level(d) : d \in ds}),
     findings    |-> findings,
     diagnostics |-> ds]

\* Mutant of PanicResult: the crash is told by the status alone.
PanicStatusOnly == [status |-> "fail", findings |-> {}, diagnostics |-> {}]

PanicResult == [status |-> "fail", findings |-> {}, diagnostics |-> {Panic}]

SectionConcurrency ==
    IF N <= 1 THEN 1
    ELSE IF Parallelism < 1 THEN 1
    ELSE IF Parallelism > N THEN N
    ELSE Parallelism

VARIABLES
    pc,             \* where each section's goroutine is
    walk,           \* per target: the memoized walk's outcome
    walker,         \* per target: the section inside the walk's sync.Once
    consumed,       \* per section: the targets whose listing it was handed
    dropped,        \* files that some section had to leave out
    queue,          \* corpus.diagnostics: drained by the next finalizer
    walkFailures,   \* corpus.walkFailures: never drained
    seen,           \* corpus.diagnosticSeen: keys already reported this scan
    section,        \* the result in each section's hands
    crashed,        \* sections whose run panicked
    holder,         \* section holding the OnSectionComplete mutex
    calls,          \* times OnSectionComplete was invoked for each section
    streamed,       \* the last result it was invoked with
    results,        \* Build's position-indexed slots, later report.Sections
    phase           \* of RunWithOptions

corpusVars == <<walk, walker, queue, walkFailures, seen>>
streamVars == <<holder, calls, streamed>>
vars == <<pc, consumed, dropped, section, crashed, results, phase,
          walk, walker, queue, walkFailures, seen, holder, calls, streamed>>

Places == {"idle", "running", "walking", "finalized", "streaming",
           "recovered", "notifying", "done"}
Phases == {"building", "built", "triaged", "imported", "reported", "aborted"}
WalkStates == {"unlisted", "walking", "ok", "truncated", "failed", "panicked"}

Running == {s \in Section : pc[s] \notin {"idle", "done"}}

Init ==
    /\ pc = [s \in Section |-> "idle"]
    /\ walk = [t \in Targets |-> "unlisted"]
    /\ walker = [t \in Targets |-> Nobody]
    /\ consumed = [s \in Section |-> {}]
    /\ dropped = {}
    /\ queue = {}
    /\ walkFailures = {}
    /\ seen = {}
    /\ section = [s \in Section |-> NoResult]
    /\ crashed = {}
    /\ holder = Nobody
    /\ calls = [s \in Section |-> 0]
    /\ streamed = [s \in Section |-> NoResult]
    /\ results = [s \in Section |-> NoResult]
    /\ phase = "building"

----------------------------------------------------------------------------
(* Build's loop: one section at a time in registry order, blocked while    *)
(* the semaphore is full.                                                  *)
Start(s) ==
    /\ pc[s] = "idle"
    /\ \A r \in Section : r < s => pc[r] # "idle"
    /\ Cardinality(Running) < SectionConcurrency
    /\ pc' = [pc EXCEPT ![s] = "running"]
    /\ UNCHANGED <<corpusVars, streamVars, consumed, dropped, section, crashed,
                   results, phase>>

(* corpus.list: the first section to ask enters the target's sync.Once ... *)
BeginWalk(s, t) ==
    /\ pc[s] = "running"
    /\ walk[t] = "unlisted"
    /\ walk' = [walk EXCEPT ![t] = "walking"]
    /\ walker' = [walker EXCEPT ![t] = s]
    /\ pc' = [pc EXCEPT ![s] = "walking"]
    /\ UNCHANGED <<queue, walkFailures, seen, streamVars, consumed, dropped,
                   section, crashed, results, phase>>

\* recordWalkTruncation: one diagnostic per scan, whatever the target.
RecordTruncation(t) ==
    IF FilesKey \in seen
    THEN UNCHANGED <<queue, seen>>
    ELSE /\ queue' = queue \cup {WalkLimit(t)}
         /\ seen' = seen \cup {FilesKey}

\* Mutant of EndWalk: the failure is queued for one section, as a truncation is.
EndWalkQueued(s, t, outcome) ==
    /\ pc[s] = "walking"
    /\ walker[t] = s
    /\ walk[t] = "walking"
    /\ walk' = [walk EXCEPT ![t] = outcome]
    /\ IF outcome = "truncated" THEN RecordTruncation(t)
       ELSE /\ queue' = IF outcome = "failed" THEN queue \cup {WalkFailure(t)} ELSE queue
            /\ UNCHANGED seen
    /\ consumed' = [consumed EXCEPT ![s] = @ \cup {t}]
    /\ pc' = [pc EXCEPT ![s] = "running"]
    /\ UNCHANGED <<walkFailures, walker, streamVars, dropped, section, crashed,
                   results, phase>>

(* ... and records how the walk went before any waiting section is let in. *)
EndWalk(s, t, outcome) ==
    /\ pc[s] = "walking"
    /\ walker[t] = s
    /\ walk[t] = "walking"
    /\ walk' = [walk EXCEPT ![t] = outcome]
    /\ IF outcome = "truncated" THEN RecordTruncation(t)
                                ELSE UNCHANGED <<queue, seen>>
    /\ walkFailures' = IF outcome = "failed" THEN walkFailures \cup {t}
                                             ELSE walkFailures
    /\ consumed' = [consumed EXCEPT ![s] = @ \cup {t}]
    /\ pc' = [pc EXCEPT ![s] = "running"]
    /\ UNCHANGED <<walker, streamVars, dropped, section, crashed, results, phase>>

(* A panic inside the walk completes its sync.Once: the walking section    *)
(* crashes and every later caller is handed an empty listing and no error. *)
WalkPanics(s, t) ==
    /\ pc[s] = "walking"
    /\ walker[t] = s
    /\ walk[t] = "walking"
    /\ walk' = [walk EXCEPT ![t] = "panicked"]
    /\ pc' = [pc EXCEPT ![s] = "recovered"]
    /\ section' = [section EXCEPT ![s] = PanicResult]
    /\ crashed' = crashed \cup {s}
    /\ UNCHANGED <<walker, queue, walkFailures, seen, streamVars, consumed,
                   dropped, results, phase>>

(* corpus.list once the walk is memoized.                                  *)
ListMemoized(s, t) ==
    /\ pc[s] = "running"
    /\ walk[t] \notin {"unlisted", "walking"}
    /\ t \notin consumed[s]
    /\ consumed' = [consumed EXCEPT ![s] = @ \cup {t}]
    /\ UNCHANGED <<corpusVars, streamVars, pc, dropped, section, crashed,
                   results, phase>>

\* recordReadError: each file once per scan, and past MaxReadErrors one summary.
ReadErrorCount == Cardinality({f \in Files : ReadKey(f) \in seen})

\* Mutant of RecordReadError: failures past the limit are only counted.
RecordReadErrorNoSummary(f) ==
    /\ seen' = seen \cup {ReadKey(f)}
    /\ queue' = IF ReadKey(f) \in seen \/ ReadErrorCount >= MaxReadErrors
                THEN queue ELSE queue \cup {ReadFailure(f)}

RecordReadError(f) ==
    IF ReadKey(f) \in seen THEN UNCHANGED <<queue, seen>>
    ELSE IF ReadErrorCount < MaxReadErrors
         THEN /\ queue' = queue \cup {ReadFailure(f)}
              /\ seen' = seen \cup {ReadKey(f)}
         ELSE /\ queue' = IF ReadLimitKey \in seen THEN queue ELSE queue \cup {ReadLimit}
              /\ seen' = seen \cup {ReadKey(f), ReadLimitKey}

(* A listed file cannot be read: the section goes on without it.           *)
ReadFails(s, f) ==
    /\ pc[s] = "running"
    /\ TargetOf[f] \in consumed[s]
    /\ walk[TargetOf[f]] # "panicked"
    /\ RecordReadError(f)
    /\ dropped' = dropped \cup {f}
    /\ UNCHANGED <<walk, walker, walkFailures, streamVars, pc, consumed, section,
                   crashed, results, phase>>

(* FinalizeSectionWithDiagnostics: drains the queue into this section and  *)
(* computes its status; the walk failures are copied, not drained.         *)
TakeDiagnostics == queue \cup {WalkFailure(t) : t \in walkFailures}

\* Mutant of Finalize: the queue is copied and not drained.
FinalizeCopying(s, v) ==
    /\ pc[s] = "running"
    /\ section' = [section EXCEPT
           ![s] = SectionResult(v.findings, v.diagnostics \cup TakeDiagnostics)]
    /\ pc' = [pc EXCEPT ![s] = "finalized"]
    /\ UNCHANGED <<corpusVars, streamVars, consumed, dropped, crashed, results, phase>>

Finalize(s, v) ==
    /\ pc[s] = "running"
    /\ section' = [section EXCEPT
           ![s] = SectionResult(v.findings, v.diagnostics \cup TakeDiagnostics)]
    /\ queue' = {}
    /\ pc' = [pc EXCEPT ![s] = "finalized"]
    /\ UNCHANGED <<walk, walker, walkFailures, seen, streamVars, consumed, dropped,
                   crashed, results, phase>>

\* Mutant of EnterCallback: the callback is passed down without the mutex.
EnterCallbackUnlocked(s) ==
    /\ pc[s] = "finalized"
    /\ holder' = s
    /\ calls' = [calls EXCEPT ![s] = @ + 1]
    /\ streamed' = [streamed EXCEPT ![s] = section[s]]
    /\ pc' = [pc EXCEPT ![s] = "streaming"]
    /\ UNCHANGED <<corpusVars, consumed, dropped, section, crashed, results, phase>>

(* OnSectionComplete under withSynchronizedSectionCallback's mutex.        *)
EnterCallback(s) ==
    /\ pc[s] = "finalized"
    /\ holder = Nobody
    /\ holder' = s
    /\ calls' = [calls EXCEPT ![s] = @ + 1]
    /\ streamed' = [streamed EXCEPT ![s] = section[s]]
    /\ pc' = [pc EXCEPT ![s] = "streaming"]
    /\ UNCHANGED <<corpusVars, consumed, dropped, section, crashed, results, phase>>

\* Mutant of Panics: the mutex is not released by a defer.
PanicsHolding(s) ==
    /\ pc[s] \in {"running", "finalized", "streaming"}
    /\ section' = [section EXCEPT ![s] = PanicResult]
    /\ crashed' = crashed \cup {s}
    /\ pc' = [pc EXCEPT ![s] = "recovered"]
    /\ UNCHANGED <<corpusVars, streamVars, consumed, dropped, results, phase>>

(* SafeRun recovers a panic of the section's checks, of its finalization,  *)
(* or of the caller's callback; what the section held is lost.             *)
Panics(s) ==
    /\ pc[s] \in {"running", "finalized", "streaming"}
    /\ section' = [section EXCEPT ![s] = PanicResult]
    /\ crashed' = crashed \cup {s}
    /\ holder' = IF pc[s] = "streaming" THEN Nobody ELSE holder
    /\ pc' = [pc EXCEPT ![s] = "recovered"]
    /\ UNCHANGED <<corpusVars, calls, streamed, consumed, dropped, results, phase>>

\* Mutant of NotifyRecovered: the crash of a section is not streamed.
NotifyRecoveredSilently(s) ==
    /\ pc[s] = "recovered"
    /\ holder = Nobody
    /\ holder' = s
    /\ pc' = [pc EXCEPT ![s] = "notifying"]
    /\ UNCHANGED <<corpusVars, calls, streamed, consumed, dropped, section, crashed,
                   results, phase>>

(* notifyRecoveredSection streams the synthetic result of a crash.         *)
NotifyRecovered(s) ==
    /\ pc[s] = "recovered"
    /\ holder = Nobody
    /\ holder' = s
    /\ calls' = [calls EXCEPT ![s] = @ + 1]
    /\ streamed' = [streamed EXCEPT ![s] = section[s]]
    /\ pc' = [pc EXCEPT ![s] = "notifying"]
    /\ UNCHANGED <<corpusVars, consumed, dropped, section, crashed, results, phase>>

(* The callback returns (or panics in notifyRecoveredSection, which is     *)
(* swallowed); the goroutine frees the mutex, writes its own slot, which   *)
(* nobody reads before it is done, and gives its semaphore slot back.      *)
Return(s) ==
    /\ pc[s] \in {"streaming", "notifying"}
    /\ holder' = Nobody
    /\ results' = [results EXCEPT ![s] = section[s]]
    /\ pc' = [pc EXCEPT ![s] = "done"]
    /\ UNCHANGED <<corpusVars, calls, streamed, consumed, dropped, section, crashed,
                   phase>>

----------------------------------------------------------------------------
Later(from, to) ==
    /\ phase = from
    /\ phase' = to
    /\ UNCHANGED <<pc, corpusVars, streamVars, consumed, dropped, section, crashed>>

(* wg.Wait returns.                                                        *)
BuildReturns ==
    /\ \A s \in Section : pc[s] = "done"
    /\ Later("building", "built")
    /\ UNCHANGED results

(* triage.Apply when it is off, misconfigured, has no candidate, or its    *)
(* provider fails: the sections are returned as they are.                  *)
TriageSkips == Later("built", "triaged") /\ UNCHANGED results

(* triage.Apply with verdicts: filterSections drops the dismissed findings *)
(* and recomputes every section's status from the findings it keeps.       *)
TriageFilters(dismissed) ==
    /\ \E s \in Section : results[s].findings # {}
    /\ \A s \in Section : dismissed[s] \subseteq results[s].findings
    /\ Later("built", "triaged")
    /\ results' = [s \in Section |->
           LET kept == results[s].findings \ dismissed[s]
           IN  [status |-> Escalate(kept), findings |-> kept,
                diagnostics |-> results[s].diagnostics]]

(* externalreports.Import: a failed import ends the scan with an error and *)
(* no report.  The external sections it appends carry no diagnostic.       *)
ImportReports(ok) ==
    /\ Later("triaged", IF ok THEN "imported" ELSE "aborted")
    /\ UNCHANGED results

(* attachScoreHistoryDiagnostics and attachRunDiagnostics: history files   *)
(* that could not be written raise the status of the section they are      *)
(* attached to.                                                            *)
AttachHistory(attached) ==
    /\ Later("imported", "reported")
    /\ results' = [s \in Section |->
           IF s \in attached
           THEN [status |-> Escalate({results[s].status, Level(HistoryWrite)}),
                 findings |-> results[s].findings,
                 diagnostics |-> results[s].diagnostics \cup {HistoryWrite}]
           ELSE results[s]]

----------------------------------------------------------------------------
SectionStep(s) ==
    \/ Start(s)
    \/ \E t \in Targets :
          \/ BeginWalk(s, t)
          \/ \E outcome \in {"ok", "truncated", "failed"} : EndWalk(s, t, outcome)
          \/ WalkPanics(s, t)
          \/ ListMemoized(s, t)
    \/ \E f \in Files : ReadFails(s, f)
    \/ \E v \in Verdicts : Finalize(s, v)
    \/ EnterCallback(s)
    \/ Panics(s)
    \/ NotifyRecovered(s)
    \/ Return(s)

RunnerStep ==
    \/ BuildReturns
    \/ TriageSkips
    \/ phase = "built" /\ \E dismissed \in [Section -> SUBSET Levels] : TriageFilters(dismissed)
    \/ \E ok \in BOOLEAN : ImportReports(ok)
    \/ phase = "imported" /\ \E attached \in SUBSET Section : AttachHistory(attached)

Terminated == phase \in {"reported", "aborted"} /\ UNCHANGED vars

Next == (\E s \in Section : SectionStep(s)) \/ RunnerStep \/ Terminated

(* Some goroutine that can move does, and walks, checks and callbacks      *)
(* return (Finalize is always available to a running section).             *)
Fairness == WF_vars(RunnerStep \/ \E s \in Section : SectionStep(s))

Spec == Init /\ [][Next]_vars /\ Fairness

----------------------------------------------------------------------------
(* ReportGateError: fail-level operational diagnostics refuse the scan     *)
(* under every policy; the section statuses only as the policy says.       *)
Refused(policy) ==
    \/ \E s \in Section : \E d \in results[s].diagnostics : Level(d) = "fail"
    \/ policy = "warn" /\ \E s \in Section : results[s].status \in {"warn", "fail"}
    \/ policy = "fail" /\ \E s \in Section : results[s].status = "fail"

----------------------------------------------------------------------------
\* The variables stay in the shapes the code gives them.
TypeOK ==
    /\ pc \in [Section -> Places]
    /\ walk \in [Targets -> WalkStates]
    /\ walker \in [Targets -> Section \cup {Nobody}]
    /\ consumed \in [Section -> SUBSET Targets]
    /\ dropped \subseteq Files
    /\ queue \subseteq QueuedDiagnostics
    /\ walkFailures \subseteq Targets
    /\ seen \subseteq SeenKeys
    /\ section \in [Section -> Result \cup {NoResult}]
    /\ crashed \subseteq Section
    /\ holder \in Section \cup {Nobody}
    /\ calls \in [Section -> Nat]
    /\ streamed \in [Section -> Result \cup {NoResult}]
    /\ results \in [Section -> Result \cup {NoResult}]
    /\ phase \in Phases

\* OnSectionComplete keeps the single-threaded contract callers were written
\* against: the wrapping mutex admits one section at a time.
CallbackSerial ==
    \A r, s \in Section :
        pc[r] \in {"streaming", "notifying"} /\ pc[s] \in {"streaming", "notifying"} => r = s

\* corpus.go takeDiagnostics: a section that was handed a failed listing never
\* finalizes as anything but a failure, whichever section ran the walk and
\* whichever finalized first.
FailedWalkNeverClean ==
    phase \in {"building", "built"} =>
        \A s \in Section : \A t \in consumed[s] :
            walk[t] = "failed" /\ pc[s] = "done" => results[s].status = "fail"

\* Whatever a section had to leave out is reported by some section when Build
\* returns (one by one or in the summary), unless a section crashed and failed
\* the scan; the queue is never left with a diagnostic nobody reports.
DegradationReported ==
    phase = "built" /\ crashed = {} =>
        LET reported == UNION {results[s].diagnostics : s \in Section}
        IN  /\ queue = {}
            /\ \A f \in dropped :
                  ReadFailure(f) \in reported \/ ReadLimit \in reported
            /\ (\E t \in Targets : walk[t] = "truncated")
                  => \E t \in Targets : WalkLimit(t) \in reported

\* takeDiagnostics drains under the lock: two sections finalizing at once never
\* report the same queued diagnostic twice.
ReportedOnce ==
    \A r, s \in Section : r # s =>
        results[r].diagnostics \cap results[s].diagnostics \cap QueuedDiagnostics = {}

\* What a caller was streamed last for a section is what Build returns for it, and
\* a section that did not crash is streamed once.  notifyRecoveredSection promises
\* as much of the others ("keeping its once-per-section contract"), which is not
\* claimed here and not so: a section whose callback panics, after it was streamed
\* as finalized, is streamed again as crashed (EnterCallback, Panics and
\* NotifyRecovered leave calls[s] = 2).
StreamMatchesResults ==
    phase = "built" => \A s \in Section :
        /\ streamed[s] = results[s]
        /\ s \notin crashed => calls[s] = 1

\* Every scan ends, with a report or with an import error.
Termination == <>(phase \in {"reported", "aborted"})

----------------------------------------------------------------------------
(* What a CI gate is promised: ScanGate, refined by the scan.  A scan is   *)
(* incomplete once a walk failed or a section crashed, and its verdict is  *)
(* what ReportGateError answers under the most lenient policy.             *)
Incomplete == walkFailures # {} \/ crashed # {}
Verdict    == IF phase = "aborted" THEN "refused"
              ELSE IF phase # "reported" THEN "open"
              ELSE IF Refused("none") THEN "refused" ELSE "accepted"

Gate == INSTANCE ScanGate WITH incomplete <- Incomplete, verdict <- Verdict

\* An incomplete scan is refused under every exit policy, through every order
\* of sections, crashes of callbacks and AI triage of the findings.
GateHolds == Gate!Spec

----------------------------------------------------------------------------
(* Two claims of the source that the code does not keep.                   *)

\* checks.go SafeRun: "A crashed section has not checked anything, so it must
\* never read as clean", its status is fail "for every section".
CrashedSectionReadsFail ==
    phase = "reported" => \A s \in crashed : results[s].status = "fail"

\* corpus.go recordWalkTruncation: "the section reports warn rather than a clean
\* pass it has not earned".
TruncatedWalkNeverClean ==
    phase = "built" => \A s \in Section : \A t \in consumed[s] :
        walk[t] = "truncated" => results[s].status # "pass"
=============================================================================
