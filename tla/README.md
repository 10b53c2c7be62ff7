# codeguard in TLA+

codeguard scans a repository with a set of sections (quality, security, design, CI, ...), each of
which lists the configured targets, reads and parses their files, and hands its findings and
diagnostics to a report that a CI gate accepts or refuses.  The checks themselves are pure functions
of what they read.  What is hard is what they share: the scheduler that runs sections in parallel
and survives their panics, the file corpus all sections read through, the worker pools inside a
section, the cache that replays the findings of an earlier scan, the git process that reads files at
the base ref, and the semantic analyses that identical requests share.  The same program is an MCP
server: tool calls run beside each other, are cancelled, and ask their client things while they run.
These are what this directory models, checks with TLC and proves about with TLAPS.

Paths below are relative to `src/internal/codeguard/` unless they start with `cli/`
(`src/internal/cli/`).  `PROJECT.json` has the exact lines every definition stands for.

## 1. Inventory

### The components and how they interact

`RunWithOptions` (`runner/runner.go`) builds a context (configuration, file corpus, findings cache,
base-ref reader, git memo), calls `checks.Build`, applies AI triage to the sections it returns,
imports external reports, attaches the diagnostics of history files that could not be written, and
returns a report.  The caller asks `core.ReportGateError` whether the scan may pass.

| Component | State it keeps | Operations | Who it meets |
|---|---|---|---|
| Section scheduler (`runner/checks/checks.go`) | a slot per section, a semaphore, the callback mutex | start, run under `SafeRun`, stream, collect | starts sections; calls the caller's `OnSectionComplete` |
| Section finalization (`runner/support/findings_section.go`) | none of its own | drain the corpus' diagnostics, compute the status, stream | corpus queue, callback |
| Run pipeline and gate (`runner/runner.go`, `ai/triage/verdicts.go`, `core/exit_policy.go`) | the report's sections | triage, import, history, gate | everything a section returned |
| File corpus (`runner/support/corpus.go`) | one slot with a `sync.Once` per walk, read and parse; retained bytes and counts; the diagnostic queue and what was already reported | `list`, `read`, `parseGo`, `parseCLike`, `parseScript`, `takeDiagnostics` | every section and every file worker |
| Parallel passes (`checks/support/parallel.go`) | a shared counter, the first panic, a wait group | `ParallelIndexed`, `ParallelFor`, `RunConcurrently`, `RunBoth` | file scans and loops inside a section |
| Findings cache (`runner/support/findings_scan*.go`, `cache_io.go`, `cachefile/`) | a file of entries keyed by path; the entries in memory; a dirty flag | load, digest dependencies, replay, store, save | corpus for contents, the disk, other scans of the same repository |
| Base-ref reader (`runner/support/base_reader*.go`) | an entry with a done channel per path; a `git cat-file` process | fetch, fallback, close | sections in diff mode |
| Git memo (`runner/support/git_memo.go`) | a `sync.Once` per key | memoized git queries | sections |
| Shared semantic requests (`ai/semantic/inflight.go`, `checks/support/typescript_semantic_flight.go`) | calls in flight, verdicts | lead, follow, store | semantic checks, the AI provider, the TypeScript worker |
| MCP client bridge (`cli/mcp_client_*.go`) | per connection: a counter, the requests that wait for an answer, the cached roots under a lock | ask, deliver, give up, load and invalidate the roots | running tool calls, the transport |
| MCP server on stdio (`cli/mcp_run.go`, `mcp_requests.go`) | calls in flight, calls cancelled | dispatch, cancel, reply, end of input | the editor or agent |
| MCP server on HTTP (`cli/mcp_http_*.go`) | sessions in order of age, their streams, a semaphore | initialize, delete, evict, attach, detach, call | agents |
| MCP reports (`cli/mcp_report_cache.go`) | eight recent reports under one mutex | put, page | tool calls |
| Target walk, check rules, suppressions, configuration, external report parsers, histories, report formats | none shared while a scan runs (histories are files) | pure or sequential | |

### What is hard, and what correct means

- **Sections.** Any number of goroutines drain one queue of diagnostics, and any of them can panic
  before, during or after it streamed its result.  Correct: the callback sees one section at a time;
  a section that was given a failed listing never reads as clean; nothing left out of the scan goes
  unreported or is reported twice; what was streamed is what is returned; the scan ends; and an
  incomplete scan is refused by the gate under every exit policy, whatever triage does afterwards.
- **Passes.** Claiming an item, recording the first panic and re-raising it are separate steps of
  many goroutines.  Correct: every item is called at most once, a pass ends with all its results or
  with a panic of an item that panicked, and nothing of it runs after that.
- **Corpus.** Slots are found under a lock, filled outside it and dropped again when the budget
  declines them, while other goroutines already wait on their `sync.Once`.  Correct: a caller is not
  refused content because the cache is full; within the budget a file is read once and all callers
  see the same content though it is edited; budgets account for what is in the maps; no caller is
  left waiting.
- **Cache.** A scan is replayed from an entry whose hashes are compared with what the scan sees,
  while files change, scans overlap and any of them can be killed in the middle of writing.
  Correct: an entry's hashes tell all that its findings were made from, so a replay is what an
  evaluation would have found.  The hashes are made by one pass over the files and the findings by
  others, and a read can fail in one of them and succeed in the next.
- **Base-ref reader.** Reads share entries, and one process that is asked in turn, may be slow, die
  or never answer, and is killed while an answer may be on its way; the scan is cancelled or closes
  the reader meanwhile.  Correct: an answer is that of `git show` for the path that was asked for,
  it fails only when `git show` did or the scan was cancelled, no process outlives `Close`, and
  every read returns.
- **Shared semantic requests.** A leader runs, fails or is cancelled while followers wait; its entry
  is gone before its verdict is stored; several calls rewrite one cache file.  Correct: one run per
  key at a time, answers come from whole runs of the same key, no writer drops another's verdict
  from a file it can read and write, and every caller is answered.
- **MCP.** Requests, cancellations, replies and the end of input cross; a client answers late,
  twice or never, and changes its roots while they are being fetched; sessions are evicted under
  calls that use them.  Correct: an answer reaches the call that asked, while it waits; no roots are
  kept that the client is known to have changed; nothing is written to a stream that is gone; a
  call leaves nothing behind, and ends, and so does the server; when it returns in order, every call
  it read was answered or cancelled.

The list of hazards, each at its line and with the properties that catch it, is in `PROJECT.json`.

## 2. The modules

| Module | Role |
|---|---|
| `ScanGate` | abstract: what the CI gate is promised |
| `SectionScan` | scheduler, corpus listings and diagnostic queue, finalization, run pipeline, gate; implements `ScanGate` |
| `ParallelMap` | abstract: what a parallel pass promises the section that runs it |
| `WorkerPool` | the three parallel passes; implements `ParallelMap` |
| `ScanCache` | the findings cache over several scans |
| `FileCorpus` | reads and parses shared by the sections of a scan |
| `BaseFileReader` | reads at the base ref and the `git cat-file` process behind them |
| `SharedRun` | abstract: what callers that share a run are promised |
| `SemanticFlight` | shared semantic requests, of both kinds; implements `SharedRun` |
| `ClientBridge` | requests from running tool calls to their client, and the roots; extended by both transports |
| `McpStdio` | the server on a pipe: reader, calls, cancellation, end of input |
| `McpHttp` | the server over HTTP: sessions, streams, posted messages in any order |
| `*_proofs` | theorems about the module each is named after; `Mcp_proofs` is about both transports |
| `MC*` | instances for TLC: constants that a `.cfg` cannot write down |

### SectionScan

A section is one sequential actor whose place (`pc`) goes `idle`, `running` (with detours to
`walking`), `finalized`, `streaming`, `done`, or from most of these to `recovered`, `notifying`,
`done` when it panics.

| State and actions | Code |
|---|---|
| `Start`, `SectionConcurrency` | the loop of `Build`, its semaphore, `sectionConcurrency` |
| `walk`, `walker`, `BeginWalk`, `EndWalk`, `WalkPanics`, `ListMemoized` | `corpus.list`: one `sync.Once` per target; a panicking walk completes the `Once`, so later callers get an empty listing |
| `queue`, `seen`, `RecordTruncation`, `RecordReadError`, `ReadFails` | `recordWalkTruncation`, `recordReadError`: keys seen once, the summary past `maxReadErrorDiagnostics` |
| `walkFailures`, `TakeDiagnostics`, `Finalize` | `takeDiagnostics` (queue drained, walk failures copied) and `FinalizeSectionWithDiagnostics` |
| `holder`, `EnterCallback`, `NotifyRecovered`, `Return` | `withSynchronizedSectionCallback`, `notifyRecoveredSection` |
| `Panics`, `crashed`, `PanicResult` | `SafeRun` |
| `BuildReturns`, `TriageSkips`, `TriageFilters`, `ImportReports`, `AttachHistory` | the rest of `RunWithOptions`, with `filterSections` |
| `Refused` | `ReportGateError` |

A finding is its level after suppression, confidence and diff filters; a diagnostic is its id and
subject; informational diagnostics, which never change a status, are not kept here.  A listing that
was truncated, failed or panicked stands for whatever it left out.  External sections carry no
diagnostics and are not added to the report.

### WorkerPool

`mode` chooses the function, `Width` its number of goroutines (`ParallelWorkers`,
`FileScanWorkers`).  `Loop`, `Claim`, `CallReturns` and `CallPanics` are the body of a goroutine;
`Capture`, `Flag` and `Drop` are its deferred recover: `panicOnce` is entered, the value stored,
then the flag, and later panics wait for that and are dropped.  `Wait` is the caller.  The
sequential path for one worker is a pool of one.

### ScanCache

A scan goes `loaded`, `indexing` (the package index reads the listed sources), `digesting`
(`dependencyDigests` reads every dependency again), `scanning` (`Replay` or `Compute` per file),
`saving`, `writing`.  Every read goes through `Seen`/`Read`, the corpus as a cache sees it: the
retained content, or the disk.  `Edit` changes the tree at any moment, `Crash` ends a scan anywhere.
`Truncate` and `Write` are the two halves of `os.WriteFile`, so that a kill or a second scan falls
between them.  An evaluation is the record of everything it read, which is the most an evaluator
can depend on, and a hash is the content it digests: two findings are equal exactly when nothing the
evaluator saw differs.  `Manifests` stands for the files the Go evaluator opens itself, `Hidden` for
those of them that no listing of the target contains.

Reads fail: a file can be `Unreadable` at any moment and readable again at the next.  The corpus
keeps no failed read, so every pass tries anew: the index leaves the file out (`VisitTargetFiles`),
the digest has the constant `unreadable` for it (`dependencyDigests`), and the scan of the file
itself skips it (`Skip`).  `Cold` is what an evaluation at this moment would
be made from.  `Agree` compares two reads of a file as far as both could be made; what that leaves
out is in section 5.

### FileCorpus

A call asks for a file (`FindSlot`, `MakeSlot`, `SlotsFull`), leads or waits for the slot's
`sync.Once` (`Lead`, `Share`), passes the read gate, reads the disk (`EnterGate`, `ReadDisk`), and
settles the slot under the lock (`Settle`): within the budget it is retained, else it is removed
from the map while those who hold it still get its content.  An answered call leaves or parses:
`FindParse`, `MakeParse` (the cost is charged before the parse), `ParseUncached` for Go and C-like
files past their budget, `RefuseParse` for scripts past theirs, then the slot's `Once`, the parse
gate and `Parsed`.  A slot is named after the call that made it.  A disk read is one step.  The
budget notes of Go trees (bytes and entries) are one member of `noted`; `parseCLike` notes nothing
and has no gate, as in the code.

### BaseFileReader

A read goes `new`, `fetching` (or `joined`, behind the read that made the entry), `locking`,
`asked`, `payload` or `draining`, `settling`, `done`, and to `showing` from wherever the process is
given up.

| State and actions | Code |
|---|---|
| `entries`, `joined`, `settled`, `Join`, `Enter`, `Settle`, `Follow`, `cachedBytes` | `BaseFileReader.Read`: an entry and its done channel; past the budget the entry is dropped, its waiters are answered anyhow |
| `proc`, `StartProc`, `UseProc`, `FallBack`, `Abandon` | `catFileBatches.fetch` and `procFor`: started on first use, once; nothing starts after Close |
| `lock`, `Ask`, `AvoidBroken`, `broken`, `Fail` | `catFileBatch.read`: the round trip under `mu`, a stream that failed is never used again |
| `owed`, `pipe`, `GitWrites`, `Dies` | the process: it writes an answer in two parts, at its pace |
| `ReadHeader`, `ReadPayload`, `DrainPayload`, `ReadEnd`, `Watchdog` | `roundTrip`: header, payload or the part that is read past, end of the pipe, deadline |
| `Show` | `showBaseFile`, one process per path, which can fail for its own reasons |
| `Cancel`, `CloseReader`, `Stop` | the scan's context, `Close`, `catFileBatch.stop` |

What is at a path is one of six kinds; what the process answers for it is a line, or a line and data.
A status line names the request and is compared with it, the header of an object does not: that an
object belongs to the path asked for rests on the order of the pipe alone.

### SemanticFlight

`FindCached`, `Join` and `Lead` are the three ways into `Analyze` (or its TypeScript counterpart);
`RunEnds` is the external command.  The leader of a request closes `done` and then removes the
flight (`Close`, `Land`); that of a program stores its result, and then removes the flight and wakes
the others in one locked step (`Store`, `Finish`).  `LoadCache` and `SaveCache` are
`storeCachedResponse`, which leader and followers all do.  Runs are told apart by who made them, so
that an answer says which run it is from; `Earlier` stands for those of earlier scans, whose
verdicts for the requests in `Before` are in the file at the start.

The file fails in both directions.  What cannot be read, is torn, or is longer than the reader
accepts loads as an empty cache, in `FindCached` and in `LoadCache`; the save that follows then
writes a file with the one new verdict.  A save replaces the file, fails before it touched it, or
fails once `os.WriteFile` has truncated it (or makes it longer than the reader accepts), after which
no verdict is found.  So what `SharedRun` promises about verdicts is that the file loses all of them
at once or none (`Lose`, `Keep`): never that of one other request.  The lock on the file is of the
process; a second process that saves at the same time is not modelled.

### ClientBridge, McpStdio, McpHttp

`ClientBridge` is what a tool call does with its client, whatever carries the messages.

| State and actions | Code |
|---|---|
| `counter`, `pending`, `asking`, `chan`, `Issue`, `Unregister`, `Deliver` | `serverRequester`: id, table, the channel of size one, the deferred delete, answers to unknown ids dropped |
| `lock`, `roots`, `CheckRoots`, `LoadRoots`, `FetchRoots`, `TakeRoots`, `GiveUpRoots`, `Invalidate` | `rootsCache`, with the lock held across the fetch |
| `late`, `stopped`, `Expire`, `GiveUpEarly` | the deadlines and the call's own context |
| `Ask`, `TakeAnswer`, `StopAsking` | sampling and elicitation |
| `asked`, `current`, `handled` | the client: what reached it, the version of its roots, the newest version whose notification was handled |

`McpStdio` has the pipe (`wire`, in order), its one reader (`ReadInitialize`, `ReadCall`,
`ReadCancel`, `ReadRootsChanged`, `ReadReply`), the end of a call (`CheckCancelled`,
`WriteReply`, `FinishRequest`) and `EndInput`, `ServeReturns`.  An invalidation runs on the reader
itself, which therefore waits while a call fetches the roots.  The loop of `serve` ends in three
ways.  At the end of input, and at a line longer than the scanner's buffer with all that is behind
it unread (`ClientOverflows`, `Stalled`), it waits for its calls (`EndInput`, `ServeReturns`).  When
an answer that the reader itself writes cannot be written (`ClientDies`, `broken`, `Responds`), it
returns the error at once, and the process ends with calls still running (`serve` is `failed`).
Calls ignore whether their own writes succeed, but the runtime may end a process that writes to a
broken standard output (`Survives`).

`McpHttp` has a goroutine per message: answers and notifications are handled in any order, more
than once, or never.  `Create` and `RemoveSession` are the registry, `Acquire` and `Return` the
semaphore, `Attach` and `Detach` the handler of a GET.  A call keeps the session it found when it
got its place, also after the registry dropped it.

### What feeds what

The modules meet at the corpus.  `SectionScan` has its listings and its queue of diagnostics;
`FileCorpus` has its contents and budgets; `ScanCache` uses the promise `FileCorpus` proves: its
switch `Retains` says that a content once read is served to the end of the scan, which is
`RetainedForGood` together with `Agreement`, and holds within the read budget (of reads that succeed:
those that fail are in `ScanCache` only).  `WorkerPool` is the
inside of one section's `running` place; what it promises (`ParallelMap`: results or one panic, and
nothing running afterwards) is why `SectionScan` may treat a section as one actor that finalizes or
panics.  `BaseFileReader` and `SemanticFlight` are used from within `running` too: each returns an
answer or an error to its section.  A tool call of `McpStdio` and `McpHttp` runs whole scans in its
place `working`; the scan's own behaviour does not depend on who started it, except that a cancelled
call cancels the contexts the other modules mention.

## 3. The runs

| Run (`.cfg`) | Instance | Distinct states | Expected |
|---|---|---|---|
| `section_scan` (`MCSectionScan`) | 3 sections, 2 slots, 1 target, 2 files, `MaxReadErrors` 1 | 922 259 | pass |
| `section_scan_triage` (`MCSectionScanTriage`) | 2 sections, clean or failing verdicts | stops at the violation | violation |
| `section_scan_truncated` (`MCSectionScanTruncated`) | 2 sections with nothing of their own to report | stops at the violation | violation |
| `worker_pool` (`MCWorkerPool`) | 4 items, 3 CPUs, the three kinds of pass | 27 929 | pass |
| `scan_cache` (`MCScanCache`) | 2 scans, 2 configurations, 2 sources of one package, 2 edits, reads that fail | 1 489 244 | pass |
| `scan_cache_unlisted` (`MCScanCacheUnlisted`) | 2 scans, 1 source, walks that fail | stops at the violation | violation |
| `scan_cache_manifest` (`MCScanCacheManifest`) | 2 scans, 1 source, 1 unlisted manifest, edits between scans only | stops at the violation | violation |
| `file_corpus` (`MCFileCorpus`) | 3 calls for a Go file and a script, 1 edit | 270 068 | pass |
| `base_reader` (`MCBaseFileReader`) | 3 reads of any of 5 paths, budget for 1 content | about 1 400 000 | pass |
| `semantic_flight` (`MCSemanticFlight`) | 5 calls, 3 requests of which 2 have an earlier verdict, 1 program | 914 412 | pass |
| `mcp_stdio` (`MCMcpStdio`) | 2 calls, 1 change of the roots, 1 mishap (cancellation, overlong line or death of the client) | 363 859 | pass |
| `mcp_http` (`MCMcpHttp`) | 2 calls, 3 sessions of which 2 fit, 2 streams, 1 place | 1 532 803 | pass |

**section_scan.** `TypeOK`; `CallbackSerial`; `FailedWalkNeverClean` (every section handed a failed
listing is returned by `Build` as a failure, whoever walked and whoever finalized first);
`DegradationReported` (with no crash, the queue is empty when `Build` returns, and every unreadable
file and truncation is in some section); `ReportedOnce`; `StreamMatchesResults` (what was last
streamed of a section is what the report returns of it, and a section that did not crash was
streamed once; a crashed one may have been streamed twice, see section 5); `GateHolds`
(refinement of `ScanGate`: a scan with a failed walk or a crash is refused under the most lenient
exit policy, after triage, imports and history); `Termination` (with panics in the callback while it
holds the mutex, and with crashed walks, every scan still ends).

**worker_pool.** `TypeOK`, `EachItemOnce`, `PassRunsThrough` (a pass that does not look at the flag
calls every item unless a panic ended every goroutine), `PassPromise` (refinement of `ParallelMap`),
`Termination`.

**scan_cache.** `TypeOK` (which includes that a cache has one entry per file), `EntriesSound` (every
entry in memory or on disk that was made under a complete listing tells in its hashes what its
findings were made from, as far as siblings could be read both for the index and for the digest),
`WarmAsCold` (a scan whose walk did not fail reports for a replayed file what evaluating it would
report, with the same reservation).

**file_corpus.** `TypeOK`; `Accounted` (the byte and entry counters are what is in the maps and within
the limits: the bytes as the cardinality of a set with a member for each retained byte, so that the
sum needs no recursion); `ContentNotLost`; `ReadOnce` and `Agreement` (within the read budget); `ScriptsAllOrNone`
(a script content one section was refused is parsed for none, although the refusal depends on who
asked first); `RetainedForGood` (action property); `Termination`.

**base_reader.** `TypeOK` (which includes that the bytes reckoned are those retained);
`AnswersAsShow`; `NoProcessLeft`; `Termination` (every read and `Close` return, although the process
may never answer).

**semantic_flight.** `TypeOK` (a flight is listed exactly while a call leads one, the cache lock is
held exactly by who saves); `SharedPromise` (refinement of `SharedRun`: also with loads and
saves that fail, two writers never drop one verdict of each other's); `Termination`.

**mcp_stdio.** `StdioTypeOK`; `RepliesMatch`; `NoneForgotten` (when `serve` returns without an error of
its output, every call was answered, refused, or cancelled by its client, unless the client is gone
or the call stands behind an overlong line); `NothingLeft` (a call that is over is in no table and
holds no lock, whenever its cancellation or a late answer arrives); `Termination`
(every call ends, and after the end of input the server, unless a failed write ended the process).

**mcp_http.** `HttpTypeOK` (which includes that the order lists the sessions once each and within their
maximum, and that the places of the semaphore are those of the calls that run); `RepliesMatch`;
`RootsFresh`; `StreamOwned`.

### Bounds, and why they are enough

- `SectionScan`: two slots and three sections make a section start after another finished and two
  finalize at once; one more section would repeat the second or the third.  One target is enough
  for one section to walk while another waits and a third comes later; sections interact over a
  target through its own state only, but for the one truncation key they share.  Two unreadable
  files with `MaxReadErrors` 1 cross the limit on itemised failures, with the first possibly drained
  by another section already.
- `WorkerPool`: four items on three workers bring one worker back for a second item while two
  others panic; a fixed task per goroutine gives four goroutines, of which one captures and the
  others wait and drop.  `Width` is evaluated at its real ceilings.
- `ScanCache`: a stale entry needs a scan to make it, an edit, and a scan to replay it, and every
  entry that a third scan could replay is in memory or in the file, where `EntriesSound` looks at
  it.  Two edits let a file change and change back, or stop being readable and become so again,
  between any two reads; two configurations are needed for an entry to be of the wrong one.
  Contents, scans and configurations are only compared, so the run uses symmetry over them (it
  checks invariants only).  `MaxScans` and `MaxEdits` bound the length of a behaviour; each scan
  starts with an empty corpus, so a longer history adds caches but no new way to mix them.  Deadlock
  is not checked: scans stop for good at the bound, as nobody has to start another.
- `FileCorpus`: one small file fits the read budget, a large one never does, and there is room for
  one entry, so a call may find the map full, have its slot declined, or be declined by bytes while
  others wait.  Three calls are one that leads, one that waits and one that comes after the slot was
  dropped.  Gates of one make every wait for a place happen.  The script budget holds two small
  trees or one large.  Calls differ in name only, so `Asks` has one assignment of files to calls for
  each way of sharing them that matters (two readers of the Go file and one of the script, the
  reverse, and three of the script).
- `BaseFileReader`: three reads are one in its round trip, one that waits for its entry or for the
  lock, and one that comes later, to a stream that failed or a reader that is closed.  The paths are
  two contents that can be mistaken for each other, a tree, a large file and a missing one; a path
  with a line break and an ambiguous one differ from these in a guard each, and are covered by the
  proofs only.  The process, its deaths and the deadlines have no bound.
- `SemanticFlight`: two calls for one request are a leader and a follower, a third for another
  request shares the cache file, and the two for a program take the other order of steps.  That other
  request and a third, which nobody asks again, have verdicts of earlier scans, so that there is
  something to drop that no writer is about to store.
- `McpStdio`: `MaxAsks` 1 (requests of a connection after which its calls ask no more; fetches of
  roots are not bounded by it), `MaxRoots` 1, a pipe of `Capacity` 2 messages, and `MaxMishaps` 1:
  one cancellation, overlong line or death of the client in a behaviour.  They are bounded together
  because each is met by calls in every place already, and whoever is gone or no longer read cannot
  cancel; the proofs have no such bound.
  Two calls compete for the roots; the reply to one can be behind the notification that invalidates
  them, the cancellation of the other, or its own deadline.
- `McpHttp`: a third session evicts the first while a call and a stream use it; one place makes the
  second call wait until its session is gone; the second stream takes over from the first.  Calls,
  sessions and streams are only compared, so the run uses symmetry.  Deadlock is not checked: a
  server waits for ever when its clients do nothing more.

### Fairness

Goroutines are scheduled.  For passes and the corpus that is weak fairness of each worker's and
call's steps together.  For a scan, the shared requests and the base-ref reader it is less: some
goroutine that can move does, which is enough because none of them can go round in a circle.  That walks, checks, callbacks, disk reads and parses return is part of it, and
is what `Build` relies on: it waits for every section without a timeout of its own.  Weak fairness is enough at the
semaphore, the mutex and the gates, although another goroutine can be served first: each is entered
a bounded number of times in a scan, so a waiting goroutine is in the end the only one left at it.
For the base-ref reader the deadlines are among these steps, and those of the git process are not:
it may never write.  In `McpStdio` the reader and each call are fair, deadlines included, as long as the
process lives, and the client owes nothing.  Nobody has to cancel anything.  `ScanCache` and `McpHttp` assume no fairness;
they have no liveness property.

### Findings

Four statements of the source that its code does not keep; each violation run produces the
behaviour.

1. `section_scan_triage`: `checks.go:109` says a crashed section "must never read as clean" and line
   110 gives it "a failing section status for every section".  `filterSections` recomputes the status of every section from its
   kept findings, so once triage has a verdict for any section, a crashed one reads `pass`.  The gate
   still refuses the scan, because it looks at the diagnostic (`GateHolds`, proved).
2. `section_scan_truncated`: `corpus.go:476` says a truncation makes a section report warn "rather
   than a clean pass it has not earned".  The diagnostic is drained by the first section that
   finalizes; the others used the same truncated listing and pass.
3. `scan_cache_unlisted`: `findings_scan_deps.go:39` says that without a listing "no cached entry may
   be trusted. A non-hash value never equals a stored digest".  The placeholder is stored with new
   entries and compared for equality, so the next scan whose walk fails replays them.
4. `scan_cache_manifest`: `findings_scan_deps.go:14` says an edit to a sibling source or manifest
   invalidates the findings that depend on it.  A `go.mod` reached through `go.work` outside the
   target is read by the evaluator but is in no listing, so its edits invalidate nothing.

## 4. The proofs

All theorems hold for every value of the constants that satisfies the named assumptions of the
modules (sets of the right shape, positive gates, sentinels that are not files' contents); none
assumes finiteness of a set beyond what the module says, or a bound of a run.

**SectionScan_proofs.** `TypeCorrect`, `CallbackIsSerial`, `FailedWalksFail`, `GateIsHeld`,
`StreamIsReturned`, `QueueIsReportedOnce`, `DegradationIsReported`, `SectionsNeverStuck`.
`CallbackSerial` is not inductive, as a section may enter the callback only when `holder` is free:
the strengthening says that whoever is inside the callback is the holder.  `FailedWalkNeverClean`
needs that a failed walk stays in `walkFailures`, and that whatever a section carries once it has
finalized, was streamed, or crashed, already has a failing diagnostic if it used a failed listing.
`GateIsHeld` shows the refinement of `ScanGate` step by step; the invariant behind it is that in an
incomplete scan some section's diagnostics hold a fail-level one, which no later phase removes:
triage rewrites statuses and findings only.  The next three follow the degradation queue and the
stream from step to step: what was streamed of a section that is through is what the report holds
of it; a diagnostic of the queue is in one place only, the queue or one section, once its key has
been seen, and finalizing moves it; and while no section crashed, a truncation or failed read that
was noted is in the queue or in a section, and a section that has not drained is still to come.
`SectionsNeverStuck` needs that the sections started are a prefix of the registry (so that the next
one is known without induction), that the holder of the lock is inside the callback, and that a walk
under way has a section of its own at it.

**WorkerPool_proofs.** `TypeCorrect`, `ItemsAreCalledOnce`, `PassKeepsPromise`,
`EveryItemIsCalled`, `PassNeverStuck`.  The invariant relates the counter to the calls made (what was called lies below it, or is a goroutine's own task),
makes the item of each goroutine in a call its own, and ties the captured value to an item that
panicked.  A returned pass has all its results because without the flag no goroutine ended early.
For `PassRunsThrough`, goroutines hold different items and one that ends with items left was ended
by a panic of its own; when all were, the items they hold are a bijection between goroutines and
panics.  `PassNeverStuck`: whoever entered `panicOnce` is on its way to the flag, so those that wait
for it do not wait for each other.

**ScanCache_proofs.** `TypeCorrect` without assumptions.  `EntriesAreSound` and
`ReplaysAreEvaluations` assume `Retains` (the corpus is below its read budget) and nothing about
manifests: the properties speak of the configuration, the file and its siblings, for any set of
manifests opened beside them, and of complete listings only, which is where finding 3 leaves them.
The argument: index and digests are what the corpus retained or a read that failed (`ReadInv`);
with a complete listing every dependency was tried before the first file is scanned (`PhaseInv`);
so a new entry's digest agrees with what its result was made from, and a digest that matches forces
the replayed result.  `ListedEditsInvalidate` is the whole of `EditsInvalidate`, manifests included,
where it does hold: when the tree is edited between scans only (`QuietTree`) and every manifest is in
the listing (`Hidden = {}`), also past the read budget and with files that cannot be read.  Then
whatever a scan reads is what is on disk, so that digests and findings are of one content
(`QuietInv`, `EntriesExact`).  Finding 4 shows that it needs the second assumption.

**FileCorpus_proofs.** `TypeCorrect`, `BudgetsHold`, `ContentIsNotLost`, `FilesAreReadOnce`,
`CallsAgree`, `ScriptsAgree`, `RetentionIsForGood`, `SmallTreesAreReadOnce`, `CorpusNeverStuck`, from
one inductive invariant: whose slot is in the map and who
works on it (`SlotInv`); at most one call is inside a slot's `Once`, and a completed one has its
content (`OnceInv`); below the budget a file without a slot was never opened, and one with a slot
was opened once by the call inside (`SharedInv`); and for scripts, that a refusal means the budget
had no room and never has again, since counters of parses only grow (`ScriptInv`).
`BudgetsHold` is an induction over the run instead of over the retained files: a content or a parse
that is admitted adds a block of bytes that no other key has, and the library's fact about the
cardinality of a disjoint union does the sum (`ReadBudgetInv`, `ParseBudgetInv`).
`SmallTreesAreReadOnce` removes the condition from `FilesAreReadOnce`: if the map has an entry for
every file and the budget room for every file at the longest content it may come to have, the budget
is never exceeded, whatever is edited and in whichever order files are read, as each file keeps at
most one block.  This is when `Retains` of `ScanCache` is justified.  `CorpusNeverStuck` adds that a slot's
unfinished `Once` has a call at work inside it, and that a full gate has somebody to leave it
(`WaitInv`).

**SemanticFlight_proofs.** `TypeCorrect`, `SharingKeepsPromise`, `CallsNeverStuck`,
`CallsOnlyAdvance`.  The invariant says of each call
which run it joined and how far that run is (a follower waits for a leader of its own key that is
still to close its channel or has an outcome), and of each key that what is stored is a run of that
key that went well, or of an earlier scan that left one (`VerdictOK`); and that what the writer
loaded is still the whole file, or nothing (`LoadOK`).  From it every step is one of `SharedRun`
or none.  For `CallsNeverStuck`, the run a call waits for is under way or has woken its followers.
`CallsOnlyAdvance` gives places a rank that every step of a call raises: with the former it is the
whole argument for `Termination` but its last, temporal step.

**BaseFileReader_proofs.** `TypeCorrect`, `AnswersAreShown`, `NoneOutlivesClose`, `ReadsNeverStuck`,
`ReadsOnlyAdvance`.  That an object belongs to the path asked for needs an invariant about the pipe:
unless the stream is broken, what
the process owes and has written is exactly what is left of the answer to the read that holds the
lock, and nothing when nobody holds it.  A read that fails breaks the stream before it releases the
lock; that is why no later read finds the rest of an answer.  The bytes reckoned are the cardinality
of the retained entries, from the library's facts about adding one element to a finite set.
`ReadsNeverStuck` needs that an entry is never left to itself (`AttendedStays`: who made it works on
it until it is settled) and that a round trip has a process, alive or dead, to end it.
`ReadsOnlyAdvance` ranks the places of a read, of the process and of `Close`: every step raises one
of the ranks or hands out a part of an answer, and none of them ever falls.  A read given up goes to
`git show`, never to a second process.

**ClientBridge_proofs.** An invariant of the requester and the roots, with one lemma per kind of step,
whatever carries the messages.  `RepliesMatch` is not inductive: it needs that an entry of the table
belongs to a call that waits for exactly that id, and that whatever the client was asked under this
id is what the call asked.  New ids are above all that ever reached the client, so no late answer
finds another call.  `RootsFresh` needs that the lock is held by whoever fetches: a `list_changed` is
handled only when nobody does, so every fetch under way began after the newest one that was handled.

**Mcp_proofs.** The two transports that use those lemmas, in one module, which is why their
definitions have names of their own.  Over HTTP: `HttpTypeCorrect`, `HttpAnswersMatch`,
`RootsStayFresh`, `StreamsStayOwned`, `HttpCallsNeverStuck`; the registry's order is proved from
lemmas on appending to and removing from an injective sequence.  On the pipe: `StdioTypeCorrect`,
`StdioAnswersMatch`, `StdioRootsFresh`, `NobodyIsForgotten`, `NothingStays`, `StdioServerNeverStuck`.
Their invariant (`StdioInv`) adds to that of the bridge that every message on the pipe is one its
client may have written, about a request that reached it and a version its roots had (`WireOK`);
that a call is on the pipe once, or runs and is listed, or is over and answered or withdrawn
(`CallOK`, which excepts answers to a client that is gone); and that the reader stops in order only
when the pipe is empty for good or begins with an overlong line, where it then stays, and the server
returns only after the calls (`ServeOK`).  `NothingLeft` needs the second of these: an id that a cancellation may still
name belongs to a call that is listed, so nothing is marked cancelled after its call is over.

**Nobody waits for ever.** Each module but `ScanCache`, whose scans wait for nothing, has a theorem
`...NeverStuck`: in every reachable state with something left to do, somebody can move without help
from whoever need not act (the client, git, a user who cancels).  As `ENABLED` is out of the prover's
reach, "can move" is written out: `Unblocked` and its like repeat the guards of the waiting steps, and
TLC found them to imply that the step is enabled in every state of the instances of section 3.  This
excludes deadlock for any number of actors; `Termination`, which TLC checks, adds that nobody goes
round in a circle.

**Only model-checked.** Liveness (every `Termination`): the prover has no rule for fairness.  Every
other property of the passing runs is a theorem.

## 5. Not modelled

The map covers a small share of the repository's lines.  Most of them are several hundred checks:
functions of the text or syntax tree of one file, with their word lists, patterns and messages.
They keep no state, run in one goroutine and meet nothing; what they read, when, and what becomes
of their findings is modelled, their tables are not.  A TLA+ rendering of them would be a second
implementation, longer than the first, with nothing to check it against.

- `RunBoth`, whose two goroutines share nothing but a panic; the git memo, which is the listing's
  `sync.Once` again; `ReportDiagnostic`, which only appends to the queue.
- Walk and exclusion rules, parsers of external reports, suppressions, baselines, configuration,
  report formats: sequential and pure.  Their outcomes are choices of the models (a walk is ok,
  truncated, failed or panicked; an import succeeds or not; a finding is admitted or not).
- What the Go quality pass reads decides what may be cached, and that is in `ScanCache`.
- Binary files, which the passes skip, and files created or deleted before a walk, which change the
  listing and nothing after it.  The resolver of Go modules keeps what it read of a manifest for the
  scan, in an order of its own; `Compute` reads manifests from disk each time, which allows more.
- Panics of the leader of a shared request or of a fetch at the base ref: both run a command and parse
  what it writes, and followers would wait for a channel that nobody closes.
- AI provider protocols and their retries: network I/O.  Triage has its outcomes in `SectionScan`.
- Histories: advisory files; a failed write is a step of `SectionScan`.  That overlapping scans lose
  each other's record is listed as a hazard and not modelled.
- The AI verdicts kept in the same cache file as the findings, and passes without dependencies,
  which are the case of an empty dependency set.
- MCP: methods that are answered at once (resources, prompts, logging, completion), batches, progress
  notifications, authorization; two calls under one request id; a client that stops reading, so that
  a write blocks; the shutdown of
  the HTTP server; liveness over HTTP, where a call may wait for a place for ever.  The report cache
  is one locked step per operation.

### Limits of the code that the models show

Each is a behaviour of the models.  No statement of the source excludes them, but for the first.

- `checks.go:172` says that a recovered section still honours a "once-per-section contract".  A
  section whose callback panics after `FinalizeSection` streamed it (`EnterCallback`, `Panics`) is
  streamed again with its crash result (`NotifyRecovered`), and the progress of the MCP server
  counts both calls.  `StreamMatchesResults` therefore asks for one call of the other sections only.
- A sibling that cannot be read while the package index is built and can be a moment later, when the
  dependencies are digested, gives an entry that is stored under a content its findings were made
  without.  The next scan, for which the sibling is readable throughout, replays it (`IndexFile`,
  `DigestFile`, `Replay`).  `EntriesSound` and `WarmAsCold` leave out exactly this.
- A save of the verdict cache that fails after it truncated the file, or that makes it longer than
  32 MiB, loses the verdicts of every request, and a load that fails is followed by a save that
  drops all others (`SaveCache`, `LoadCache`).
- An answer that `serve` itself cannot write ends it with calls still running, and a line longer than
  10 MiB leaves the calls behind it unread and unanswered (`Responds`, `EndInput`).

- Truncations of two targets share one key, so one of them is never named (`RecordTruncation`).
- On the pipe, a `list_changed` that arrives while a call fetches the roots stops the reader at the
  lock, and the answer the call waits for is behind it: the call goes on without roots at its
  deadline (`ReadRootsChanged`; `Termination` holds because of the deadline).
- Over HTTP, a client that attaches a new stream before the handler of the old one returned loses
  the new one: `Detach` takes whatever stream the session has.  It stays open and is not written to.
- A follower of a shared request is given its leader's failure also when that is the cancellation of
  the leader's own context (`RunEnds`).
- A call that misses the verdict cache just before it is written, and the flight just after it was
  removed, runs the same request again (`FindCached`, `Lead`).

## 6. Plan

Done: `SectionScan` over `ScanGate`, `WorkerPool` over `ParallelMap`, `ScanCache`, `FileCorpus`,
`BaseFileReader`, `SemanticFlight` over `SharedRun`, and `McpStdio` and `McpHttp` over
`ClientBridge`, each with its run, its mutants and its theorems.  Next:

1. The composition of `FileCorpus` with `ScanCache` (that the reads of the former are those of the
   latter).  `SmallTreesAreReadOnce` is the condition on the tree under which `Retains` would follow.
2. A rank that every step lowers, as in `CallsOnlyAdvance` and `ReadsOnlyAdvance`, for the other
   modules: with `...NeverStuck` it bounds the steps of a scan, a read and a call.
3. Overlapping scans that rewrite the history files, as a second use of the disk of `ScanCache`.
4. Batches of messages over HTTP, and calls that wait behind a client that stops reading.
