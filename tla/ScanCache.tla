----------------------------- MODULE ScanCache -----------------------------
(***************************************************************************)
(* The per-file findings cache across scans: a scan loads the cache file,  *)
(* replays the entries whose hashes match what it sees, evaluates the      *)
(* other files, and writes the whole cache back.  The working tree is      *)
(* edited meanwhile, scans of the same repository overlap (a hook, an      *)
(* editor and a terminal), and any of them may be killed.                  *)
(*                                                                         *)
(* What is modelled is one section with an evaluator that reads more than  *)
(* the scanned file (ScanTargetFilesWithDependencies): the sibling sources *)
(* its package index was built from, and manifests it opens itself.  An    *)
(* evaluation is the record of everything it read, which is the most an    *)
(* evaluator can depend on; a hash is the content it digests.  Reads go    *)
(* through the file corpus, which serves the bytes it retained.  A file    *)
(* may stop being readable and become so again: the pass that meets it     *)
(* then skips it, and the next one tries anew.  The AI verdicts kept in    *)
(* the same file are not modelled.                                         *)
(***************************************************************************)
EXTENDS Naturals, FiniteSets

CONSTANTS
    Scans,      \* scans that can be running at the same time
    Configs,    \* section config hashes a scan can run under
    Sources,    \* source files of the target; all are scanned
    Package,    \* per source: the sources its evaluation depends on
    Manifests,  \* manifests every evaluation opens on disk
    Hidden,     \* the manifests no listing of the target contains
    Versions,   \* contents a file can have
    Retains,    \* the corpus stays below its read budget and keeps every read
    QuietTree,  \* the working tree is edited only while no scan runs
    MaxScans,   \* bound: scans started
    MaxEdits    \* bound: edits of the working tree

ASSUME PackageAssumption == Package \in [Sources -> SUBSET Sources]
ASSUME ManifestsAssumption == Hidden \subseteq Manifests /\ Manifests \cap Sources = {}
ASSUME SwitchesAssumption == Retains \in BOOLEAN /\ QuietTree \in BOOLEAN
ASSUME BoundsAssumption == MaxScans \in Nat /\ MaxEdits \in Nat

Files  == Sources \cup Manifests
Listed == Files \ Hidden        \* what a walk that does not fail returns

Has(v)     == <<"content", v>>
Content    == {Has(v) : v \in Versions}
Unreadable == <<"unreadable">>               \* what reading it fails with
OnDisk     == Content \cup {Unreadable}
Unread     == <<"unread">>                   \* not read yet, or not to be read
Contents   == OnDisk \cup {Unread}

VARIABLES
    disk,       \* the working tree
    edits,      \* how often it was edited
    starts,     \* how many scans were started
    stored,     \* the cache file, as the set of entries a scan would load
    pc,         \* per scan: where it is
    config,     \* per scan: its section config hash
    listing,    \* per scan: the files the walk returned
    walkFailed, \* per scan: whether the walk ended with an error
    retained,   \* per scan: the contents its corpus serves
    index,      \* per scan: the contents its package index was built from
    digest,     \* per scan: the contents its dependency digests were made from
    mem,        \* per scan: its cache entries
    dirty,      \* per scan: whether it has something to save
    report,     \* per scan: per source: what it reported
    replayed    \* per scan: the sources it served from the cache

progressVars == <<config, listing, walkFailed>>
scanVars == <<pc, config, listing, walkFailed, retained, index, digest, mem, dirty,
              report, replayed>>
vars == <<disk, edits, starts, stored, scanVars>>

Places == {"idle", "loaded", "indexing", "digesting", "scanning", "saving", "writing"}

\* An entry is keyed by its file; it holds three hashes and what was reported.
Entry(f, h, c, d, r) ==
    [file |-> f, fileHash |-> h, configHash |-> c, depsHash |-> d, result |-> r]

\* The digest of a file's dependencies, in a scan whose walk failed "unlisted".
Unlisted == <<"unlisted">>
Deps(f)  == Package[f] \cup (Manifests \ Hidden)
DepsHash(s, f) ==
    IF walkFailed[s] THEN Unlisted
    ELSE <<"deps", [x \in Files |-> IF x \in Deps(f) THEN digest[s][x] ELSE Unread]>>

NoReport    == <<"none">>
Skipped     == <<"skipped">>       \* a file that could not be read is not evaluated
Reported(r) == <<"reported", r>>

Results == [config : Configs, data : Content, seen : [Files -> Contents]]
Entries == [file : Sources, fileHash : Content, configHash : Configs,
            depsHash : {Unlisted} \cup ({"deps"} \X [Files -> Contents]),
            result : Results]
Reports == {NoReport, Skipped} \cup ({"reported"} \X Results)

Init ==
    /\ disk \in [Files -> OnDisk]
    /\ edits = 0
    /\ starts = 0
    /\ stored = {}
    /\ pc = [s \in Scans |-> "idle"]
    /\ config \in [Scans -> Configs]
    /\ listing = [s \in Scans |-> {}]
    /\ walkFailed = [s \in Scans |-> FALSE]
    /\ retained = [s \in Scans |-> [x \in Files |-> Unread]]
    /\ index = [s \in Scans |-> [x \in Files |-> Unread]]
    /\ digest = [s \in Scans |-> [x \in Files |-> Unread]]
    /\ mem = [s \in Scans |-> {}]
    /\ dirty = [s \in Scans |-> FALSE]
    /\ report = [s \in Scans |-> [f \in Sources |-> NoReport]]
    /\ replayed = [s \in Scans |-> {}]

----------------------------------------------------------------------------
(* Somebody edits a file, or makes it unreadable or readable again.        *)
Edit(x, v) ==
    /\ edits < MaxEdits
    /\ QuietTree => \A s \in Scans : pc[s] = "idle"
    /\ disk[x] # v
    /\ disk' = [disk EXCEPT ![x] = v]
    /\ edits' = edits + 1
    /\ UNCHANGED <<starts, stored, scanVars>>

(* NewContext: the cache is loaded (a file that is missing, truncated or   *)
(* malformed loads as empty) and the corpus starts out empty.              *)
Load(s, c) ==
    /\ pc[s] = "idle"
    /\ starts < MaxScans
    /\ starts' = starts + 1
    /\ config' = [config EXCEPT ![s] = c]
    /\ mem' = [mem EXCEPT ![s] = stored]
    /\ dirty' = [dirty EXCEPT ![s] = FALSE]
    /\ retained' = [retained EXCEPT ![s] = [x \in Files |-> Unread]]
    /\ index' = [index EXCEPT ![s] = [x \in Files |-> Unread]]
    /\ digest' = [digest EXCEPT ![s] = [x \in Files |-> Unread]]
    /\ report' = [report EXCEPT ![s] = [f \in Sources |-> NoReport]]
    /\ replayed' = [replayed EXCEPT ![s] = {}]
    /\ pc' = [pc EXCEPT ![s] = "loaded"]
    /\ UNCHANGED <<disk, edits, stored, listing, walkFailed>>

(* The target is walked once per scan; a failed walk lists a part of it.   *)
Walk(s, failed, files) ==
    /\ pc[s] = "loaded"
    /\ failed \/ files = Listed
    /\ listing' = [listing EXCEPT ![s] = files]
    /\ walkFailed' = [walkFailed EXCEPT ![s] = failed]
    /\ pc' = [pc EXCEPT ![s] = "indexing"]
    /\ UNCHANGED <<disk, edits, starts, stored, config, retained, index, digest, mem,
                   dirty, report, replayed>>

(* corpus.read: what was retained, or the file as it is now, which is      *)
(* retained unless the budget declines it.  A failed read is not retained, *)
(* so the next caller reads the file again.                                *)
Seen(s, x) == IF retained[s][x] # Unread THEN retained[s][x] ELSE disk[x]
Read(s, x) ==
    \/ Seen(s, x) # Unreadable /\ retained' = [retained EXCEPT ![s][x] = Seen(s, x)]
    \/ (Seen(s, x) = Unreadable \/ ~Retains) /\ UNCHANGED retained

\* Mutant of IndexFile: the index is built from the disk, past the corpus.
IndexFileDirect(s, x) ==
    /\ pc[s] = "indexing"
    /\ x \in listing[s] \cap Sources
    /\ index[s][x] = Unread
    /\ index' = [index EXCEPT ![s][x] = disk[x]]
    /\ UNCHANGED <<disk, edits, starts, stored, pc, progressVars, retained, digest, mem,
                   dirty, report, replayed>>

(* buildGoPackageIndex reads the listed sources and leaves out those that  *)
(* cannot be read ...                                                      *)
IndexFile(s, x) ==
    /\ pc[s] = "indexing"
    /\ x \in listing[s] \cap Sources
    /\ index[s][x] = Unread
    /\ Read(s, x)
    /\ index' = [index EXCEPT ![s][x] = Seen(s, x)]
    /\ UNCHANGED <<disk, edits, starts, stored, pc, progressVars, digest, mem, dirty,
                   report, replayed>>

IndexBuilt(s) ==
    /\ pc[s] = "indexing"
    /\ \A x \in listing[s] \cap Sources : index[s][x] # Unread
    /\ pc' = [pc EXCEPT ![s] = IF walkFailed[s] THEN "scanning" ELSE "digesting"]
    /\ UNCHANGED <<disk, edits, starts, stored, progressVars, retained, index, digest,
                   mem, dirty, report, replayed>>

(* ... and then dependencyDigests reads every listed dependency again; one *)
(* that cannot be read is hashed as "unreadable".                          *)
DigestFile(s, x) ==
    /\ pc[s] = "digesting"
    /\ x \in listing[s]
    /\ digest[s][x] = Unread
    /\ Read(s, x)
    /\ digest' = [digest EXCEPT ![s][x] = Seen(s, x)]
    /\ UNCHANGED <<disk, edits, starts, stored, pc, progressVars, index, mem, dirty,
                   report, replayed>>

Digested(s) ==
    /\ pc[s] = "digesting"
    /\ \A x \in listing[s] : digest[s][x] # Unread
    /\ pc' = [pc EXCEPT ![s] = "scanning"]
    /\ UNCHANGED <<disk, edits, starts, stored, progressVars, retained, index, digest,
                   mem, dirty, report, replayed>>

\* What the evaluator makes of source f with content h: everything it read.
Evaluation(s, f, h) ==
    [config |-> config[s],
     data   |-> h,
     seen   |-> [x \in Files |-> IF x \in Package[f] THEN index[s][x]
                                 ELSE IF x \in Manifests THEN disk[x] ELSE Unread]]

\* What scan s reports for f when it has no cache.
Cold(s, f) == Evaluation(s, f, Seen(s, f))

\* Mutant of Matching: an entry is replayed whatever its dependencies were.
MatchingFileOnly(s, f, h) ==
    {e \in mem[s] : e.file = f /\ e.fileHash = h /\ e.configHash = config[s]}

\* The entries that cachedFileResult may replay for f.
Matching(s, f, h) ==
    {e \in mem[s] : /\ e.file = f
                    /\ e.fileHash = h
                    /\ e.configHash = config[s]
                    /\ e.depsHash = DepsHash(s, f)}

(* scanOne on a file that cannot be read ...                               *)
Skip(s, f) ==
    /\ pc[s] = "scanning"
    /\ f \in listing[s] \cap Sources
    /\ report[s][f] = NoReport
    /\ Seen(s, f) = Unreadable
    /\ report' = [report EXCEPT ![s][f] = Skipped]
    /\ UNCHANGED <<disk, edits, starts, stored, pc, progressVars, retained, index, digest,
                   mem, dirty, replayed>>

(* ... on one that is served from the cache ...                            *)
Replay(s, f) ==
    /\ pc[s] = "scanning"
    /\ f \in listing[s] \cap Sources
    /\ report[s][f] = NoReport
    /\ \E e \in Matching(s, f, Seen(s, f)) :
          report' = [report EXCEPT ![s][f] = Reported(e.result)]
    /\ replayed' = [replayed EXCEPT ![s] = @ \cup {f}]
    /\ Read(s, f)
    /\ UNCHANGED <<disk, edits, starts, stored, pc, progressVars, index, digest, mem, dirty>>

\* Mutant of Compute: the new entry is added beside the stale one.
ComputeAppending(s, f) ==
    /\ pc[s] = "scanning"
    /\ f \in listing[s] \cap Sources
    /\ report[s][f] = NoReport
    /\ Seen(s, f) # Unreadable
    /\ Matching(s, f, Seen(s, f)) = {}
    /\ LET h == Seen(s, f)
           r == Evaluation(s, f, h)
       IN  /\ report' = [report EXCEPT ![s][f] = Reported(r)]
           /\ mem' = [mem EXCEPT ![s] = @ \cup {Entry(f, h, config[s], DepsHash(s, f), r)}]
    /\ dirty' = [dirty EXCEPT ![s] = TRUE]
    /\ Read(s, f)
    /\ UNCHANGED <<disk, edits, starts, stored, pc, progressVars, index, digest, replayed>>

(* ... and on one that is evaluated and stored.                            *)
Compute(s, f) ==
    /\ pc[s] = "scanning"
    /\ f \in listing[s] \cap Sources
    /\ report[s][f] = NoReport
    /\ Seen(s, f) # Unreadable
    /\ Matching(s, f, Seen(s, f)) = {}
    /\ LET h == Seen(s, f)
           r == Evaluation(s, f, h)
       IN  /\ report' = [report EXCEPT ![s][f] = Reported(r)]
           /\ mem' = [mem EXCEPT ![s] = {e \in @ : e.file # f}
                          \cup {Entry(f, h, config[s], DepsHash(s, f), r)}]
    /\ dirty' = [dirty EXCEPT ![s] = TRUE]
    /\ Read(s, f)
    /\ UNCHANGED <<disk, edits, starts, stored, pc, progressVars, index, digest, replayed>>

(* The sections are through; Save writes only a cache that changed.        *)
Scanned(s) ==
    /\ pc[s] = "scanning"
    /\ \A f \in listing[s] \cap Sources : report[s][f] # NoReport
    /\ pc' = [pc EXCEPT ![s] = IF dirty[s] THEN "saving" ELSE "idle"]
    /\ UNCHANGED <<disk, edits, starts, stored, progressVars, retained, index, digest,
                   mem, dirty, report, replayed>>

(* os.WriteFile truncates the file ...                                     *)
Truncate(s) ==
    /\ pc[s] = "saving"
    /\ stored' = {}
    /\ pc' = [pc EXCEPT ![s] = "writing"]
    /\ UNCHANGED <<disk, edits, starts, progressVars, retained, index, digest, mem,
                   dirty, report, replayed>>

(* ... and writes it, unless that fails half-way.  What is then on disk is  *)
(* no cache if only a part was written, if it is longer than Load reads, or *)
(* if it starts over a longer file another scan wrote since.                *)
Write(s) ==
    /\ pc[s] = "writing"
    /\ stored' \in {mem[s], {}}
    /\ dirty' = [dirty EXCEPT ![s] = FALSE]
    /\ pc' = [pc EXCEPT ![s] = "idle"]
    /\ UNCHANGED <<disk, edits, starts, progressVars, retained, index, digest, mem,
                   report, replayed>>

(* A scan is killed, or ends with an error before it saves.                *)
Crash(s) ==
    /\ pc[s] # "idle"
    /\ pc' = [pc EXCEPT ![s] = "idle"]
    /\ UNCHANGED <<disk, edits, starts, stored, progressVars, retained, index, digest,
                   mem, dirty, report, replayed>>

ScanStep(s) ==
    \/ \E c \in Configs : Load(s, c)
    \/ \E failed \in BOOLEAN, files \in SUBSET Listed : Walk(s, failed, files)
    \/ \E x \in Files : IndexFile(s, x) \/ DigestFile(s, x)
    \/ IndexBuilt(s) \/ Digested(s)
    \/ \E f \in Sources : Skip(s, f) \/ Replay(s, f) \/ Compute(s, f)
    \/ Scanned(s) \/ Truncate(s) \/ Write(s) \/ Crash(s)

Next == \/ \E s \in Scans : ScanStep(s)
        \/ \E x \in Files, v \in OnDisk : Edit(x, v)

Spec == Init /\ [][Next]_vars

----------------------------------------------------------------------------
OneEntryPerFile(cache) == \A e, o \in cache : e.file = o.file => e = o

\* The variables keep their shapes, and a cache has one entry per file.
TypeOK ==
    /\ disk \in [Files -> OnDisk]
    /\ edits \in 0 .. MaxEdits
    /\ starts \in 0 .. MaxScans
    /\ pc \in [Scans -> Places]
    /\ config \in [Scans -> Configs]
    /\ listing \in [Scans -> SUBSET Listed]
    /\ walkFailed \in [Scans -> BOOLEAN]
    /\ retained \in [Scans -> [Files -> Content \cup {Unread}]]
    /\ index \in [Scans -> [Files -> Contents]]
    /\ digest \in [Scans -> [Files -> Contents]]
    /\ dirty \in [Scans -> BOOLEAN]
    /\ replayed \in [Scans -> SUBSET Sources]
    /\ mem \in [Scans -> SUBSET Entries]
    /\ stored \subseteq Entries
    /\ report \in [Scans -> [Sources -> Reports]]
    /\ OneEntryPerFile(stored) /\ \A s \in Scans : OneEntryPerFile(mem[s])

Caches == {stored} \cup {mem[s] : s \in Scans}

\* Two reads of a file agree, as far as both could read it.
Agree(v, w) == v = w \/ Unreadable \in {v, w}

\* An entry made under a complete listing tells in its hashes the configuration,
\* the content and the sibling sources its findings were made from, in the cache
\* file as well, whatever was edited while it was made and whichever scan's cache
\* was written last.  Only whether a sibling could be read may differ: the index
\* and the digest try it one after the other.
EntriesSound ==
    \A cache \in Caches : \A e \in cache : e.depsHash # Unlisted =>
        /\ e.result.config = e.configHash
        /\ e.result.data = e.fileHash
        /\ \A x \in Package[e.file] : Agree(e.result.seen[x], e.depsHash[2][x])

\* A scan whose walk succeeded reports for a file it replays what it would report
\* without a cache, whatever was edited, saved, torn or killed: the same findings
\* under the same configuration and content, with the siblings as it read them
\* itself, but for one that could not be read on the way.
WarmAsCold ==
    \A s \in Scans : \A f \in replayed[s] : ~walkFailed[s] =>
        LET served == report[s][f][2]
            cold   == Cold(s, f)
        IN  /\ report[s][f] = Reported(served)
            /\ served.config = cold.config
            /\ served.data = cold.data
            /\ \A x \in Package[f] :
                   digest[s][x] # Unreadable => Agree(served.seen[x], cold.seen[x])

----------------------------------------------------------------------------
(* Two claims of findings_scan_deps.go that the code does not keep.        *)

\* dependencyDigests, on a scan whose walk failed: "no cached entry may be
\* trusted. A non-hash value never equals a stored digest."
UnlistedNeverTrusted ==
    \A s \in Scans : walkFailed[s] => replayed[s] = {}

\* ScanTargetFilesWithDependencies, on the inputs beyond the scanned file
\* ("sibling sources, manifests"): "an edit to any of them invalidates the
\* findings of the unchanged files that read it".
EditsInvalidate ==
    \A s \in Scans : \A f \in replayed[s] :
        pc[s] = "scanning" /\ ~walkFailed[s]
            => report[s][f] = Reported(Cold(s, f))
=============================================================================
