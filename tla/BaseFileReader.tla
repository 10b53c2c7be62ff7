--------------------------- MODULE BaseFileReader ---------------------------
(***************************************************************************)
(* How the sections of one scan read files as they were at the base ref    *)
(* (runner/support/base_reader.go, base_reader_catfile.go): reads of one   *)
(* path share a fetch, fetches share one `git cat-file --batch` process    *)
(* per target, and whatever that process cannot answer goes to `git show`. *)
(* The process answers in order on a pipe, and may be slow, die or be      *)
(* killed at any moment.  One target; others have a process of their own.  *)
(***************************************************************************)
EXTENDS Integers, FiniteSets, Sequences

CONSTANTS
    Reads,      \* calls of Read
    Paths,      \* paths of the target
    Kind,       \* what is at a path at the base ref
    Budget,     \* maxBaseMemoBytes
    None        \* no read, nothing answered yet

Kinds    == {"blob", "tree", "large", "missing", "ambiguous", "multiline"}
TooLarge == "too large"
Missing  == "missing"
Failed   == "failed"

ASSUME KindAssumption == Kind \in [Paths -> Kinds] /\ Paths \cap {TooLarge, Missing, Failed} = {}
ASSUME NoneAssumption == None \notin Reads \cup Paths \cup {TooLarge, Missing, Failed}
ASSUME BudgetAssumption == Budget \in Nat

VARIABLES
    pc,         \* where each read is
    wants,      \* its path
    entries,    \* BaseFileReader.entries: the read that made the entry of a path
    joined,     \* the entry a read waits for
    result,     \* what a read has found; of one that made an entry, what the entry holds
    settled,    \* the entries whose done channel is closed
    cachedBytes,
    proc,       \* the process: "none", "failed" to start, "live", "dead"
    lock,       \* the read that holds catFileBatch.mu
    broken,     \* catFileBatch.broken
    owed,       \* what the process has still to write
    pipe,       \* what it wrote and nobody has read
    closing,    \* where Close is
    cancelled,  \* the scan's context is cancelled
    unshown     \* paths for which a git show failed

memoVars == <<wants, entries, joined, settled, cachedBytes>>
procVars == <<proc, lock, broken, owed, pipe>>
scanVars == <<closing, cancelled, unshown>>
vars     == <<pc, result, memoVars, procVars, scanVars>>

Places == {"new", "joined", "fetching", "locking", "asked", "payload", "draining", "showing",
           "settling", "done"}

Init ==
    /\ pc = [r \in Reads |-> "new"]
    /\ wants \in [Reads -> Paths]
    /\ entries = [p \in Paths |-> None]
    /\ joined = [r \in Reads |-> None]
    /\ result = [r \in Reads |-> None]
    /\ settled = {}
    /\ cachedBytes = 0
    /\ proc = "none"
    /\ lock = None
    /\ broken = FALSE
    /\ owed = <<>>
    /\ pipe = <<>>
    /\ closing = "no"
    /\ cancelled = FALSE
    /\ unshown = {}

Goto(r, place) == pc' = [pc EXCEPT ![r] = place]
Finds(r, what) == Goto(r, "settling") /\ result' = [result EXCEPT ![r] = what]
Shows(r)       == Goto(r, "showing") /\ UNCHANGED result

----------------------------------------------------------------------------
\* Read: join the entry of the path, or make it.

Join(r) ==
    /\ pc[r] = "new"
    /\ entries[wants[r]] # None
    /\ joined' = [joined EXCEPT ![r] = entries[wants[r]]]
    /\ Goto(r, "joined")
    /\ UNCHANGED <<result, wants, entries, settled, cachedBytes, procVars, scanVars>>

Enter(r) ==
    /\ pc[r] = "new"
    /\ entries[wants[r]] = None
    /\ entries' = [entries EXCEPT ![wants[r]] = r]
    /\ Goto(r, "fetching")
    /\ UNCHANGED <<result, wants, joined, settled, cachedBytes, procVars, scanVars>>

\* The bytes an answer keeps in memory: a content's, counted in contents.
SizeOf(what) == IF what \in Paths THEN 1 ELSE 0

\* Mutant of Settle: the bytes are charged before the budget is looked at.
SettleCharging(r) ==
    /\ pc[r] = "settling"
    /\ cachedBytes' = cachedBytes + SizeOf(result[r])
    /\ entries' = IF cachedBytes + SizeOf(result[r]) > Budget
                  THEN [entries EXCEPT ![wants[r]] = None] ELSE entries
    /\ settled' = settled \cup {r}
    /\ Goto(r, "done")
    /\ UNCHANGED <<result, wants, joined, procVars, scanVars>>

(* The entry stays within the budget, and its waiters are answered anyhow. *)
Settle(r) ==
    /\ pc[r] = "settling"
    /\ IF cachedBytes + SizeOf(result[r]) > Budget
       THEN entries' = [entries EXCEPT ![wants[r]] = None] /\ UNCHANGED cachedBytes
       ELSE cachedBytes' = cachedBytes + SizeOf(result[r]) /\ UNCHANGED entries
    /\ settled' = settled \cup {r}
    /\ Goto(r, "done")
    /\ UNCHANGED <<result, wants, joined, procVars, scanVars>>

Follow(r) ==
    /\ pc[r] = "joined"
    /\ joined[r] \in settled
    /\ result' = [result EXCEPT ![r] = result[joined[r]]]
    /\ Goto(r, "done")
    /\ UNCHANGED <<memoVars, procVars, scanVars>>

----------------------------------------------------------------------------
\* catFileBatches.fetch.

Abandon(r) ==
    /\ pc[r] = "fetching"
    /\ cancelled
    /\ Finds(r, Failed)
    /\ UNCHANGED <<memoVars, procVars, scanVars>>

\* A path that does not fit on a line, no process, or none any more.
FallBack(r) ==
    /\ pc[r] = "fetching"
    /\ ~cancelled
    /\ Kind[wants[r]] = "multiline" \/ closing # "no" \/ proc = "failed"
    /\ Shows(r)
    /\ UNCHANGED <<memoVars, procVars, scanVars>>

UseProc(r) ==
    /\ pc[r] = "fetching"
    /\ ~cancelled
    /\ Kind[wants[r]] # "multiline"
    /\ closing = "no"
    /\ proc \in {"live", "dead"}
    /\ Goto(r, "locking")
    /\ UNCHANGED <<result, memoVars, procVars, scanVars>>

\* Mutant of StartProc: a process is started for a read that comes after Close.
StartProcLate(r) ==
    /\ pc[r] = "fetching"
    /\ ~cancelled
    /\ Kind[wants[r]] # "multiline"
    /\ proc = "none"
    /\ proc' = "live"
    /\ Goto(r, "locking")
    /\ UNCHANGED <<result, memoVars, lock, broken, owed, pipe, scanVars>>

(* procFor, on first use; a start that fails is not tried again.           *)
StartProc(r) ==
    /\ pc[r] = "fetching"
    /\ ~cancelled
    /\ Kind[wants[r]] # "multiline"
    /\ closing = "no"
    /\ proc = "none"
    /\ \/ proc' = "live" /\ Goto(r, "locking")
       \/ proc' = "failed" /\ Goto(r, "showing")
    /\ UNCHANGED <<result, memoVars, lock, broken, owed, pipe, scanVars>>

----------------------------------------------------------------------------
\* catFileBatch.read, under the lock of the process.

Header(p)  == [part |-> "header", path |-> p]
Payload(p) == [part |-> "payload", path |-> p]

\* An answer is one line for what is missing or ambiguous, else a line and the data.
AnswerTo(p) == IF Kind[p] \in {"missing", "ambiguous"} THEN <<Header(p)>>
               ELSE <<Header(p), Payload(p)>>

\* Mutant of Fail: the lock is kept on the error path.
FailLocked(r) ==
    /\ broken' = TRUE
    /\ proc' = "dead"
    /\ owed' = <<>>
    /\ Shows(r)
    /\ UNCHANGED <<memoVars, lock, pipe, scanVars>>

(* The stream is given up for good, its process killed, the lock released. *)
Fail(r) ==
    /\ broken' = TRUE
    /\ proc' = "dead"
    /\ owed' = <<>>
    /\ lock' = None
    /\ Shows(r)
    /\ UNCHANGED <<memoVars, pipe, scanVars>>

AvoidBroken(r) ==
    /\ pc[r] = "locking"
    /\ lock = None
    /\ broken
    /\ Shows(r)
    /\ UNCHANGED <<memoVars, procVars, scanVars>>

Ask(r) ==
    /\ pc[r] = "locking"
    /\ lock = None
    /\ ~broken
    /\ IF proc = "live"
       THEN /\ lock' = r
            /\ owed' = owed \o AnswerTo(wants[r])
            /\ Goto(r, "asked")
            /\ UNCHANGED <<result, memoVars, proc, broken, pipe, scanVars>>
       ELSE Fail(r)

\* What a status line or a header without payload to read leads to.
Status(r, kind) == IF kind = "missing" THEN Finds(r, Missing) ELSE Shows(r)

(* A status line repeats the request; the header of an object does not.    *)
ReadHeader(r) ==
    /\ pc[r] = "asked"
    /\ pipe # <<>>
    /\ LET head == Head(pipe)
           kind == Kind[head.path]
       IN  IF head.part # "header" \/ (kind \in {"missing", "ambiguous"} /\ head.path # wants[r])
           THEN Fail(r)
           ELSE /\ pipe' = Tail(pipe)
                /\ IF kind \in {"missing", "ambiguous"}
                   THEN lock' = None /\ Status(r, kind)
                   ELSE /\ Goto(r, IF kind = "blob" THEN "payload" ELSE "draining")
                        /\ UNCHANGED <<result, lock>>
                /\ UNCHANGED <<memoVars, proc, broken, owed, scanVars>>

ReadPayload(r) ==
    /\ pc[r] = "payload"
    /\ pipe # <<>>
    /\ pipe' = Tail(pipe)
    /\ lock' = None
    /\ Finds(r, Head(pipe).path)
    /\ UNCHANGED <<memoVars, proc, broken, owed, scanVars>>

\* What is no blob, or too large, is read past, so that the stream stays in step.
DrainPayload(r) ==
    /\ pc[r] = "draining"
    /\ pipe # <<>>
    /\ pipe' = Tail(pipe)
    /\ lock' = None
    /\ IF Kind[Head(pipe).path] = "large" THEN Finds(r, TooLarge) ELSE Shows(r)
    /\ UNCHANGED <<memoVars, proc, broken, owed, scanVars>>

\* The process is gone and so is what it wrote.
ReadEnd(r) ==
    /\ pc[r] \in {"asked", "payload", "draining"}
    /\ pipe = <<>>
    /\ proc = "dead"
    /\ Fail(r)

\* Mutant of Watchdog: the read is given up, and the process left as it is.
WatchdogAbandons(r) ==
    /\ pc[r] \in {"asked", "payload", "draining"}
    /\ proc = "live"
    /\ lock' = None
    /\ Shows(r)
    /\ UNCHANGED <<memoVars, proc, broken, owed, pipe, scanVars>>

Dies ==
    /\ proc = "live"
    /\ proc' = "dead"
    /\ owed' = <<>>
    /\ UNCHANGED <<pc, result, memoVars, lock, broken, pipe, scanVars>>

(* gitCommandTimeout passes during a round trip, and the process is killed;*)
(* an answer may be on its way.                                            *)
Watchdog(r) ==
    /\ pc[r] \in {"asked", "payload", "draining"}
    /\ Dies

----------------------------------------------------------------------------
\* git show says of a path what it is, an error, or fails for its own reasons.
ShowOf(p) ==
    CASE Kind[p] \in {"blob", "tree", "multiline"} -> p
      [] Kind[p] = "large"                         -> TooLarge
      [] Kind[p] \in {"missing", "ambiguous"}      -> Missing

Show(r) ==
    /\ pc[r] = "showing"
    /\ \/ Finds(r, ShowOf(wants[r])) /\ UNCHANGED unshown
       \/ Finds(r, Failed) /\ unshown' = unshown \cup {wants[r]}
    /\ UNCHANGED <<memoVars, procVars, closing, cancelled>>

(* The process writes the next part of what it owes.                       *)
GitWrites ==
    /\ proc = "live"
    /\ owed # <<>>
    /\ pipe' = Append(pipe, Head(owed))
    /\ owed' = Tail(owed)
    /\ UNCHANGED <<pc, result, memoVars, proc, lock, broken, scanVars>>

Cancel ==
    /\ ~cancelled
    /\ cancelled' = TRUE
    /\ UNCHANGED <<pc, result, memoVars, procVars, closing, unshown>>

----------------------------------------------------------------------------
\* Close.

CloseReader ==
    /\ closing = "no"
    /\ closing' = IF proc \in {"live", "dead"} THEN "stopping" ELSE "closed"
    /\ UNCHANGED <<pc, result, memoVars, procVars, cancelled, unshown>>

(* stop: after the read in flight; the process exits at the end of its     *)
(* input or is killed, and is reaped.                                      *)
Stop ==
    /\ closing = "stopping"
    /\ lock = None
    /\ broken' = TRUE
    /\ proc' = "dead"
    /\ owed' = <<>>
    /\ closing' = "closed"
    /\ UNCHANGED <<pc, result, memoVars, lock, pipe, cancelled, unshown>>

----------------------------------------------------------------------------
Step(r) ==
    \/ Join(r) \/ Enter(r) \/ Settle(r) \/ Follow(r)
    \/ Abandon(r) \/ FallBack(r) \/ UseProc(r) \/ StartProc(r)
    \/ AvoidBroken(r) \/ Ask(r) \/ ReadHeader(r) \/ ReadPayload(r) \/ DrainPayload(r)
    \/ ReadEnd(r) \/ Watchdog(r) \/ Show(r)

Terminated == closing = "closed" /\ (\A r \in Reads : pc[r] = "done") /\ UNCHANGED vars

Next ==
    \/ \E r \in Reads : Step(r)
    \/ CloseReader \/ Stop
    \/ GitWrites \/ Dies \/ Cancel
    \/ Terminated

(* Some goroutine that can move does, deadlines included, and the scan     *)
(* closes its reader; the process need not answer.                         *)
Fairness == WF_vars(CloseReader \/ Stop \/ \E r \in Reads : Step(r))

Spec == Init /\ [][Next]_vars /\ Fairness

----------------------------------------------------------------------------
Found == Paths \cup {TooLarge, Missing, Failed}
Parts == [part : {"header", "payload"}, path : Paths]

\* The reads whose content the reader keeps.
Retained == {r \in Reads : r \in settled /\ entries[wants[r]] = r /\ result[r] \in Paths}

Reckoned == cachedBytes = Cardinality(Retained) /\ cachedBytes <= Budget

\* The variables stay in their shapes, the lock is held exactly by the read in
\* its round trip, and the reckoned bytes are those retained, within the budget.
TypeOK ==
    /\ pc \in [Reads -> Places]
    /\ wants \in [Reads -> Paths]
    /\ entries \in [Paths -> Reads \cup {None}]
    /\ joined \in [Reads -> Reads \cup {None}]
    /\ result \in [Reads -> Found \cup {None}]
    /\ settled \subseteq Reads
    /\ proc \in {"none", "failed", "live", "dead"}
    /\ lock \in Reads \cup {None}
    /\ \A r \in Reads : pc[r] \in {"asked", "payload", "draining"} <=> lock = r
    /\ broken \in BOOLEAN
    /\ owed \in Seq(Parts)
    /\ pipe \in Seq(Parts)
    /\ closing \in {"no", "stopping", "closed"}
    /\ cancelled \in BOOLEAN
    /\ unshown \subseteq Paths
    /\ Reckoned

\* Every read is answered as git show answers for its path, and with a failure
\* only if a git show failed for it or the scan was cancelled: what a slow, dead or
\* killed process leaves in the pipe never becomes the answer for another path, and
\* nothing is lost when it is given up (base_reader_catfile.go:20).
AnswersAsShow ==
    \A r \in Reads : pc[r] = "done" =>
        \/ result[r] = ShowOf(wants[r])
        \/ result[r] = Failed /\ (wants[r] \in unshown \/ cancelled)

\* After Close no process is left, also not by reads that began before it or that
\* come later (base_reader.go:111).
NoProcessLeft == closing = "closed" => proc # "live"

\* Every read and Close return, although the process may never answer.
Termination == <>(closing = "closed" /\ \A r \in Reads : pc[r] = "done")
=============================================================================
