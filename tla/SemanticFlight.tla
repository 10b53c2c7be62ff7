--------------------------- MODULE SemanticFlight ---------------------------
(***************************************************************************)
(* How identical semantic analyses of concurrent sections share one run.   *)
(* Two kinds do it, each with its own order of steps: requests to the AI   *)
(* command, whose verdicts go to a cache file (ai/semantic/inflight.go,    *)
(* analyze.go), and TypeScript programs, whose results stay in memory      *)
(* (checks/support/typescript_semantic_flight.go).  A call first looks in  *)
(* the cache, then joins the run in flight for its key or leads a new one. *)
(***************************************************************************)
EXTENDS FiniteSets

CONSTANTS
    Calls,      \* calls of Analyze or analyzeTypeScriptTarget
    Requests,   \* keys of requests to the command
    Programs,   \* keys of TypeScript programs
    KeyOf,      \* the key of each call
    Before,     \* the requests whose verdict an earlier scan left in the file
    Earlier,    \* the runs of earlier scans
    None,       \* no call, nothing stored
    GaveUp      \* the answer of a call whose own context was cancelled

Keys == Requests \cup Programs

ASSUME KeysAssumption == KeyOf \in [Calls -> Keys] /\ Requests \cap Programs = {}
ASSUME NoneAssumption ==
    None \notin Calls /\ Earlier \notin Calls \cup {None}
                      /\ GaveUp \notin Calls \cup {None, Earlier}
ASSUME BeforeAssumption == Before \subseteq Requests

VARIABLES
    pc,         \* where each call is
    flights,    \* the call that leads the run in flight for a key
    joined,     \* the leader whose run a call waits for
    outcome,    \* how the run of a leader ended
    closed,     \* the leaders whose done channel is closed
    stored,     \* the verdict a reader finds for a key, known by the call that ran for it
    writer,     \* the call that holds cacheMu over a load and a save
    loaded,     \* what each call that is about to save has loaded
    answer      \* the run a call was answered from

vars == <<pc, flights, joined, outcome, closed, stored, writer, loaded, answer>>

Places ==
    {"new", "missed", "waiting", "running", "ended", "landing", "storing", "saving", "saved", "done"}

\* A cache with nothing in it.
Empty == [k \in Keys |-> None]

Init ==
    /\ pc = [c \in Calls |-> "new"]
    /\ flights = [k \in Keys |-> None]
    /\ joined = [c \in Calls |-> None]
    /\ outcome = [c \in Calls |-> "none"]
    /\ closed = {}
    /\ stored = [k \in Keys |-> IF k \in Before THEN Earlier ELSE None]
    /\ writer = None
    /\ loaded = [c \in Calls |-> Empty]
    /\ answer = [c \in Calls |-> None]

Key(c)       == KeyOf[c]
IsRequest(c) == Key(c) \in Requests
Goto(c, place) == pc' = [pc EXCEPT ![c] = place]
Answers(c, from) == answer' = [answer EXCEPT ![c] = from]

----------------------------------------------------------------------------
\* Requests wait for cacheMu, which a writer holds from its load to its save.
CacheFree(c) == IsRequest(c) => writer = None

(* cachedResponse, cachedTypeScriptSemanticResults.  A file that cannot be *)
(* read is a miss, whatever is in it.                                      *)
FindCached(c) ==
    /\ pc[c] = "new"
    /\ CacheFree(c)
    /\ \/ /\ stored[Key(c)] # None
          /\ Goto(c, "done")
          /\ Answers(c, stored[Key(c)])
       \/ /\ stored[Key(c)] = None \/ IsRequest(c)
          /\ Goto(c, "missed")
          /\ UNCHANGED answer
    /\ UNCHANGED <<flights, joined, outcome, closed, stored, writer, loaded>>

Join(c) ==
    /\ pc[c] = "missed"
    /\ flights[Key(c)] # None
    /\ joined' = [joined EXCEPT ![c] = flights[Key(c)]]
    /\ Goto(c, "waiting")
    /\ UNCHANGED <<flights, outcome, closed, stored, writer, loaded, answer>>

\* Mutant of Lead: the flight is looked up and registered in two steps, and the
\* second registration replaces the first.
LeadUnlocked(c) ==
    /\ pc[c] = "missed"
    /\ flights' = [flights EXCEPT ![Key(c)] = c]
    /\ joined' = [joined EXCEPT ![c] = c]
    /\ Goto(c, "running")
    /\ UNCHANGED <<outcome, closed, stored, writer, loaded, answer>>

Lead(c) ==
    /\ pc[c] = "missed"
    /\ flights[Key(c)] = None
    /\ flights' = [flights EXCEPT ![Key(c)] = c]
    /\ joined' = [joined EXCEPT ![c] = c]
    /\ Goto(c, "running")
    /\ UNCHANGED <<outcome, closed, stored, writer, loaded, answer>>

(* runCommand, or node: under the context of the leader, whose             *)
(* cancellation fails the run for all that joined it.                      *)
RunEnds(c) ==
    /\ pc[c] = "running"
    /\ \E o \in {"ok", "failed"} : outcome' = [outcome EXCEPT ![c] = o]
    /\ Goto(c, "ended")
    /\ UNCHANGED <<flights, joined, closed, stored, writer, loaded, answer>>

\* What a call of a request does once it has the outcome of a run: a verdict is
\* stored, an error returned.
Returns(c) ==
    IF outcome[joined[c]] = "ok"
    THEN Goto(c, "storing") /\ UNCHANGED answer
    ELSE Goto(c, "done") /\ Answers(c, joined[c])

(* The leader of a request closes done first ...                           *)
Close(c) ==
    /\ pc[c] = "ended"
    /\ IsRequest(c)
    /\ closed' = closed \cup {c}
    /\ Goto(c, "landing")
    /\ UNCHANGED <<flights, joined, outcome, stored, writer, loaded, answer>>

(* ... and removes the call then.                                          *)
Land(c) ==
    /\ pc[c] = "landing"
    /\ IsRequest(c)
    /\ flights' = [flights EXCEPT ![Key(c)] = None]
    /\ Returns(c)
    /\ UNCHANGED <<joined, outcome, closed, stored, writer, loaded>>

(* The leader of a program stores what went well ...                       *)
Store(c) ==
    /\ pc[c] = "ended"
    /\ ~IsRequest(c)
    /\ stored' = IF outcome[c] = "ok" THEN [stored EXCEPT ![Key(c)] = c] ELSE stored
    /\ Goto(c, "landing")
    /\ UNCHANGED <<flights, joined, outcome, closed, writer, loaded, answer>>

\* Mutant of Finish: the followers of a failed run are not woken.
FinishSuccess(c) ==
    /\ pc[c] = "landing"
    /\ ~IsRequest(c)
    /\ flights' = [flights EXCEPT ![Key(c)] = None]
    /\ closed' = IF outcome[c] = "ok" THEN closed \cup {c} ELSE closed
    /\ Goto(c, "done")
    /\ Answers(c, c)
    /\ UNCHANGED <<joined, outcome, stored, writer, loaded>>

(* ... and removes the flight and closes done under one lock.              *)
Finish(c) ==
    /\ pc[c] = "landing"
    /\ ~IsRequest(c)
    /\ flights' = [flights EXCEPT ![Key(c)] = None]
    /\ closed' = closed \cup {c}
    /\ Goto(c, "done")
    /\ Answers(c, c)
    /\ UNCHANGED <<joined, outcome, stored, writer, loaded>>

Follow(c) ==
    /\ pc[c] = "waiting"
    /\ joined[c] \in closed
    /\ IF IsRequest(c) THEN Returns(c) ELSE Goto(c, "done") /\ Answers(c, joined[c])
    /\ UNCHANGED <<flights, joined, outcome, closed, stored, writer, loaded>>

\* The context of a follower is cancelled.
GiveUp(c) ==
    /\ pc[c] = "waiting"
    /\ Goto(c, "done")
    /\ Answers(c, GaveUp)
    /\ UNCHANGED <<flights, joined, outcome, closed, stored, writer, loaded>>

----------------------------------------------------------------------------
\* storeCachedResponse, by the leader and by every follower.

\* Mutant of LoadCache: without cacheMu, writers load beside each other.
LoadCacheUnlocked(c) ==
    /\ pc[c] = "storing"
    /\ loaded' = [loaded EXCEPT ![c] = stored]
    /\ Goto(c, "saving")
    /\ UNCHANGED <<flights, joined, outcome, closed, stored, writer, answer>>

\* The cache without the file.
Unfiled == [k \in Keys |-> IF k \in Requests THEN None ELSE stored[k]]

\* What cannot be read loads as nothing.
LoadCache(c) ==
    /\ pc[c] = "storing"
    /\ writer = None
    /\ writer' = c
    /\ \E read \in {stored, Unfiled} : loaded' = [loaded EXCEPT ![c] = read]
    /\ Goto(c, "saving")
    /\ UNCHANGED <<flights, joined, outcome, closed, stored, answer>>

\* Only requests are in the file.  A save that fails leaves it as it was, or, once
\* it was truncated, with nothing to read; so does one that makes it longer than
\* what Load reads.
SaveCache(c) ==
    /\ pc[c] = "saving"
    /\ \/ stored' = [k \in Keys |-> IF k = Key(c) THEN joined[c]
                                    ELSE IF k \in Requests THEN loaded[c][k] ELSE stored[k]]
       \/ UNCHANGED stored
       \/ stored' = Unfiled
    /\ writer' = None
    /\ loaded' = [loaded EXCEPT ![c] = Empty]
    /\ Goto(c, "saved")
    /\ UNCHANGED <<flights, joined, outcome, closed, answer>>

Return(c) ==
    /\ pc[c] = "saved"
    /\ Goto(c, "done")
    /\ Answers(c, joined[c])
    /\ UNCHANGED <<flights, joined, outcome, closed, stored, writer, loaded>>

----------------------------------------------------------------------------
Step(c) ==
    \/ FindCached(c) \/ Join(c) \/ Lead(c) \/ RunEnds(c)
    \/ Close(c) \/ Land(c) \/ Store(c) \/ Finish(c)
    \/ Follow(c) \/ LoadCache(c) \/ SaveCache(c) \/ Return(c)

Terminated == (\A c \in Calls : pc[c] = "done") /\ UNCHANGED vars

Next == (\E c \in Calls : Step(c) \/ GiveUp(c)) \/ Terminated

(* Some goroutine that can move does, and the external commands end.  As   *)
(* nothing goes round in a circle, no more is needed.  Nobody need cancel  *)
(* a follower.                                                             *)
Fairness == WF_vars(\E c \in Calls : Step(c))

Spec == Init /\ [][Next]_vars /\ Fairness

----------------------------------------------------------------------------
\* The variables stay in their shapes; there is a flight for a key exactly while
\* a call leads one, and cacheMu is held exactly by the call that saves.
TypeOK ==
    /\ pc \in [Calls -> Places]
    /\ flights \in [Keys -> Calls \cup {None}]
    /\ joined \in [Calls -> Calls \cup {None}]
    /\ outcome \in [Calls -> {"none", "ok", "failed"}]
    /\ closed \subseteq Calls
    /\ stored \in [Keys -> Calls \cup {None, Earlier}]
    /\ writer \in Calls \cup {None}
    /\ loaded \in [Calls -> [Keys -> Calls \cup {None, Earlier}]]
    /\ answer \in [Calls -> Calls \cup {None, Earlier, GaveUp}]
    /\ \A c \in Calls : pc[c] \in {"running", "ended", "landing"} <=> flights[Key(c)] = c
    /\ \A c \in Calls : pc[c] = "saving" <=> writer = c

RunOf(c) == IF pc[c] = "running" THEN "running" ELSE outcome[c]

Shared == INSTANCE SharedRun WITH
    Nothing <- None,
    Filed   <- Requests,
    run     <- [c \in Calls |-> RunOf(c)],
    kept    <- {k \in Keys : stored[k] # None}

\* Sections that ask the same at once share one run at a time and are answered
\* from a whole run for their own key; two writers of the cache file do not drop
\* each other's verdicts, though a file that cannot be read or written is lost as a
\* whole (inflight.go:8 and :18).
SharedPromise == Shared!Spec

\* Every call is answered, although the call it waits for failed or was cancelled.
Termination == <>(\A c \in Calls : pc[c] = "done")
=============================================================================
