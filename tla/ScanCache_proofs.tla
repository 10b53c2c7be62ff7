-------------------------- MODULE ScanCache_proofs --------------------------
(***************************************************************************)
(* Machine-checked proofs about ScanCache, for any number of scans, files, *)
(* contents and configs, of any length.                                    *)
(***************************************************************************)
EXTENDS ScanCache, TLAPS

\* A content, a file that cannot be read and a file not read are three things.
LEMMA ContentIsRead == Unread \notin OnDisk /\ Unreadable \notin Content
  <1>1. \A v : Has(v) # Unread /\ Has(v) # Unreadable
    BY DEF Has, Unread, Unreadable
  <1>2. Unreadable # Unread
    BY DEF Unread, Unreadable
  <1> QED
    BY <1>1, <1>2 DEF Content, OnDisk

\* A walk that does not fail lists the sources and all the digests tell of.
LEMMA DepsListed ==
    /\ Sources \subseteq Listed
    /\ Listed \subseteq Files
    /\ \A f \in Sources : Deps(f) \subseteq Listed /\ Package[f] \subseteq Deps(f) \cap Sources
  <1>1. Sources \subseteq Listed /\ Manifests \ Hidden \subseteq Listed
    BY ManifestsAssumption DEF Files, Listed
  <1> QED
    BY <1>1, PackageAssumption DEF Files, Listed, Deps

----------------------------------------------------------------------------
(* The types.                                                              *)

\* A read is answered with a content or fails.
LEMMA SeenType ==
    ASSUME TypeOK, NEW s \in Scans, NEW x \in Files
    PROVE  Seen(s, x) \in OnDisk
  BY DEF Seen, TypeOK, OnDisk

\* A read retains contents.
LEMMA ReadType ==
    ASSUME TypeOK, NEW s \in Scans, NEW x \in Files, Read(s, x)
    PROVE  retained' \in [Scans -> [Files -> Content \cup {Unread}]]
  <1>1. Seen(s, x) # Unreadable => Seen(s, x) \in Content
    BY SeenType DEF OnDisk
  <1>2. retained \in [Scans -> [Files -> Content \cup {Unread}]]
    BY DEF TypeOK
  <1> QED
    BY <1>1, <1>2 DEF Read

\* What an evaluator reports is a result.
LEMMA EvaluationType ==
    ASSUME TypeOK, NEW s \in Scans, NEW f \in Sources, NEW h \in Content
    PROVE  Evaluation(s, f, h) \in Results
  <1>1. [x \in Files |-> IF x \in Package[f] THEN index[s][x]
                        ELSE IF x \in Manifests THEN disk[x] ELSE Unread]
            \in [Files -> Contents]
    BY DEF TypeOK, Contents
  <1>2. config[s] \in Configs
    BY DEF TypeOK
  <1> QED
    BY <1>1, <1>2 DEF Evaluation, Results

\* A dependency digest is "unlisted" or tells what every file was read as.
LEMMA DepsHashType ==
    ASSUME TypeOK, NEW s \in Scans, NEW f \in Sources
    PROVE  DepsHash(s, f) \in {Unlisted} \cup ({"deps"} \X [Files -> Contents])
  <1>1. [x \in Files |-> IF x \in Deps(f) THEN digest[s][x] ELSE Unread]
            \in [Files -> Contents]
    BY DEF TypeOK, Contents
  <1> QED
    BY <1>1 DEF DepsHash

\* The entry made for an evaluation is an entry of the cache.
LEMMA EntryType ==
    ASSUME TypeOK, NEW s \in Scans, NEW f \in Sources, NEW h \in Content
    PROVE  Entry(f, h, config[s], DepsHash(s, f), Evaluation(s, f, h)) \in Entries
  <1>1. config[s] \in Configs
    BY DEF TypeOK
  <1> QED
    BY <1>1, EvaluationType, DepsHashType DEF Entry, Entries

\* Every step keeps the shapes, and one entry per file in every cache.
LEMMA TypeStep == TypeOK /\ [Next]_vars => TypeOK'
  <1> SUFFICES ASSUME TypeOK, [Next]_vars PROVE TypeOK'
    OBVIOUS
  <1>1. ASSUME NEW s \in Scans, NEW c \in Configs, Load(s, c) PROVE TypeOK'
    BY <1>1, BoundsAssumption DEF TypeOK, Load, Places, Contents, Reports, OneEntryPerFile
  <1>2. ASSUME NEW s \in Scans, NEW failed \in BOOLEAN, NEW files \in SUBSET Listed,
               Walk(s, failed, files)
        PROVE  TypeOK'
    BY <1>2 DEF TypeOK, Walk, Places, OneEntryPerFile
  <1>3. ASSUME NEW s \in Scans, NEW x \in Files, IndexFile(s, x) PROVE TypeOK'
    <2>1. /\ retained' \in [Scans -> [Files -> Content \cup {Unread}]]
          /\ Seen(s, x) \in Contents
      BY <1>3, ReadType, SeenType DEF IndexFile, Contents
    <2> QED
      BY <1>3, <2>1 DEF TypeOK, IndexFile, progressVars, OneEntryPerFile
  <1>4. ASSUME NEW s \in Scans, NEW x \in Files, DigestFile(s, x) PROVE TypeOK'
    <2>1. /\ retained' \in [Scans -> [Files -> Content \cup {Unread}]]
          /\ Seen(s, x) \in Contents
      BY <1>4, ReadType, SeenType DEF DigestFile, Contents
    <2> QED
      BY <1>4, <2>1 DEF TypeOK, DigestFile, progressVars, OneEntryPerFile
  <1>5. ASSUME NEW s \in Scans, IndexBuilt(s) \/ Digested(s) \/ Scanned(s) \/ Crash(s)
        PROVE  TypeOK'
    BY <1>5 DEF TypeOK, IndexBuilt, Digested, Scanned, Crash, Places, progressVars,
                OneEntryPerFile
  <1>6. ASSUME NEW s \in Scans, NEW f \in Sources, Replay(s, f) PROVE TypeOK'
    <2>1. retained' \in [Scans -> [Files -> Content \cup {Unread}]]
      BY <1>6, ReadType DEF Replay, Files
    <2>2. PICK e \in Matching(s, f, Seen(s, f)) :
              report' = [report EXCEPT ![s][f] = Reported(e.result)]
      BY <1>6 DEF Replay
    <2>3. e.result \in Results
      BY DEF TypeOK, Matching, Entries
    <2> QED
      BY <1>6, <2>1, <2>2, <2>3
         DEF TypeOK, Replay, Reported, Reports, progressVars, OneEntryPerFile
  <1>7. ASSUME NEW s \in Scans, NEW f \in Sources, Compute(s, f) PROVE TypeOK'
    <2> DEFINE h   == Seen(s, f)
               r   == Evaluation(s, f, h)
               new == Entry(f, h, config[s], DepsHash(s, f), r)
    <2>1. retained' \in [Scans -> [Files -> Content \cup {Unread}]]
      BY <1>7, ReadType DEF Compute, Files
    <2>2. h \in Content
      BY <1>7, SeenType DEF Compute, OnDisk, Files
    <2>3. r \in Results /\ new \in Entries /\ new.file = f
      BY <2>2, EvaluationType, EntryType DEF Entry
    <2>4. /\ mem' = [mem EXCEPT ![s] = {e \in @ : e.file # f} \cup {new}]
          /\ report' = [report EXCEPT ![s][f] = Reported(r)]
      BY <1>7 DEF Compute
    <2> HIDE DEF h, r, new
    <2>5. mem' \in [Scans -> SUBSET Entries]
      BY <2>3, <2>4 DEF TypeOK
    <2>6. \A t \in Scans : OneEntryPerFile(mem'[t])
      BY <2>3, <2>4 DEF TypeOK, OneEntryPerFile
    <2>7. report' \in [Scans -> [Sources -> Reports]]
      BY <2>3, <2>4 DEF TypeOK, Reported, Reports
    <2> QED
      BY <1>7, <2>1, <2>5, <2>6, <2>7 DEF TypeOK, Compute, progressVars, OneEntryPerFile
  <1>8. ASSUME NEW s \in Scans, Truncate(s) \/ Write(s) PROVE TypeOK'
    <2>1. stored' \subseteq Entries /\ OneEntryPerFile(stored')
      BY <1>8 DEF TypeOK, Truncate, Write, OneEntryPerFile
    <2> QED
      BY <1>8, <2>1 DEF TypeOK, Truncate, Write, Places, progressVars, OneEntryPerFile
  <1>9. ASSUME NEW x \in Files, NEW v \in OnDisk, Edit(x, v) PROVE TypeOK'
    <2>1. disk' \in [Files -> OnDisk]
      BY <1>9 DEF TypeOK, Edit
    <2>2. edits' \in 0 .. MaxEdits
      BY <1>9, BoundsAssumption DEF TypeOK, Edit
    <2> QED
      BY <1>9, <2>1, <2>2 DEF TypeOK, Edit, scanVars, OneEntryPerFile
  <1>10. ASSUME NEW s \in Scans, NEW f \in Sources, Skip(s, f) PROVE TypeOK'
    BY <1>10 DEF TypeOK, Skip, Reports, progressVars, OneEntryPerFile
  <1>11. CASE UNCHANGED vars
    BY <1>11 DEF TypeOK, vars, scanVars, OneEntryPerFile
  <1> QED
    BY <1>1, <1>2, <1>3, <1>4, <1>5, <1>6, <1>7, <1>8, <1>9, <1>10, <1>11 DEF Next, ScanStep

\* Every variable keeps its shape and no cache holds two entries for a file.
THEOREM TypeCorrect == Spec => []TypeOK
  <1>1. Init => TypeOK
    BY BoundsAssumption DEF Init, TypeOK, Places, Contents, Reports, OneEntryPerFile
  <1>2. TypeOK /\ [Next]_vars => TypeOK'
    BY TypeStep
  <1> QED
    BY <1>1, <1>2, PTL DEF Spec

----------------------------------------------------------------------------
(* What holds of every scan, whatever is read when.                        *)

\* After a walk that succeeded, all is indexed and digested before any scanning,
\* and what was replayed is in the report.
PhaseInv ==
    \A s \in Scans :
        /\ pc[s] \in {"loaded", "indexing", "digesting"} => replayed[s] = {}
        /\ pc[s] \in {"indexing", "digesting", "scanning"} /\ ~walkFailed[s]
               => listing[s] = Listed
        /\ pc[s] \in {"digesting", "scanning"} /\ ~walkFailed[s]
               => \A x \in Sources : index[s][x] # Unread
        /\ pc[s] = "scanning" /\ ~walkFailed[s]
               => \A x \in Listed : digest[s][x] # Unread
        /\ \A f \in replayed[s] : report[s][f] # NoReport

\* No report is mistaken for another.
LEMMA ReportsDiffer == \A r : Reported(r) # NoReport /\ Reported(r)[2] = r
  <1>1. \A r : Reported(r)[1] = "reported" /\ NoReport[1] = "none"
    BY DEF Reported, NoReport
  <1>2. \A r : Reported(r)[2] = r
    BY DEF Reported
  <1> QED
    BY <1>1, <1>2

\* Every step keeps the phases apart.
LEMMA PhaseStep ==
    ASSUME TypeOK, PhaseInv, [Next]_vars
    PROVE  PhaseInv'
  <1>1. ASSUME NEW s \in Scans, NEW c \in Configs, Load(s, c) PROVE PhaseInv'
    BY <1>1 DEF Load, TypeOK, PhaseInv
  <1>2. ASSUME NEW s \in Scans, NEW failed \in BOOLEAN, NEW files \in SUBSET Listed,
               Walk(s, failed, files)
        PROVE  PhaseInv'
    BY <1>2 DEF Walk, TypeOK, PhaseInv
  <1>3. ASSUME NEW s \in Scans, NEW x \in Files, IndexFile(s, x) PROVE PhaseInv'
    BY <1>3 DEF IndexFile, progressVars, TypeOK, PhaseInv
  <1>4. ASSUME NEW s \in Scans, NEW x \in Files, DigestFile(s, x) PROVE PhaseInv'
    BY <1>4 DEF DigestFile, progressVars, TypeOK, PhaseInv
  <1>5. ASSUME NEW s \in Scans, IndexBuilt(s) PROVE PhaseInv'
    BY <1>5, DepsListed DEF IndexBuilt, progressVars, TypeOK, PhaseInv
  <1>6. ASSUME NEW s \in Scans, Digested(s) PROVE PhaseInv'
    BY <1>6 DEF Digested, progressVars, TypeOK, PhaseInv
  <1>7. ASSUME NEW s \in Scans, Scanned(s) \/ Crash(s) \/ Truncate(s) \/ Write(s)
        PROVE  PhaseInv'
    BY <1>7 DEF Scanned, Crash, Truncate, Write, progressVars, TypeOK, PhaseInv
  <1>8. ASSUME NEW s \in Scans, NEW f \in Sources, Skip(s, f) \/ Replay(s, f) \/ Compute(s, f)
        PROVE  PhaseInv'
    <2>1. \E r : r # NoReport /\ report' = [report EXCEPT ![s][f] = r]
      <3>1. CASE Skip(s, f)
        <4>1. Skipped # NoReport
          BY DEF Skipped, NoReport
        <4> QED
          BY <3>1, <4>1 DEF Skip
      <3>2. CASE Replay(s, f)
        BY <3>2, ReportsDiffer DEF Replay
      <3>3. CASE Compute(s, f)
        BY <3>3, ReportsDiffer DEF Compute
      <3> QED
        BY <1>8, <3>1, <3>2, <3>3
    <2>2. /\ pc[s] = "scanning" /\ pc' = pc /\ walkFailed' = walkFailed
          /\ listing' = listing /\ index' = index /\ digest' = digest
          /\ replayed' \in {replayed, [replayed EXCEPT ![s] = @ \cup {f}]}
      BY <1>8 DEF Skip, Replay, Compute, progressVars
    <2> QED
      BY <2>1, <2>2 DEF TypeOK, PhaseInv
  <1>9. ASSUME NEW x \in Files, NEW v \in OnDisk, Edit(x, v) PROVE PhaseInv'
    BY <1>9 DEF Edit, scanVars, PhaseInv
  <1>10. CASE UNCHANGED vars
    BY <1>10 DEF vars, scanVars, PhaseInv
  <1> QED
    BY <1>1, <1>2, <1>3, <1>4, <1>5, <1>6, <1>7, <1>8, <1>9, <1>10 DEF Next, ScanStep

\* Only Compute makes an entry that was in no cache before.
LEMMA EntryOrigin ==
    ASSUME TypeOK, [Next]_vars, NEW cache \in Caches', NEW e \in cache
    PROVE  \/ \E old \in Caches : e \in old
           \/ \E s \in Scans : \E f \in Sources :
                  /\ Compute(s, f)
                  /\ e = Entry(f, Seen(s, f), config[s], DepsHash(s, f), Cold(s, f))
  <1> DEFINE Old == \E old \in Caches : e \in old
  <1>1. CASE UNCHANGED <<stored, mem>>
    BY <1>1 DEF Caches
  <1>2. ASSUME NEW s \in Scans, NEW c \in Configs, Load(s, c) PROVE Old
    BY <1>2 DEF Load, TypeOK, Caches
  <1>3. ASSUME NEW s \in Scans, Truncate(s) \/ Write(s) PROVE Old
    BY <1>3 DEF Truncate, Write, Caches
  <1>4. ASSUME NEW s \in Scans, NEW f \in Sources, Compute(s, f)
        PROVE  Old \/ e = Entry(f, Seen(s, f), config[s], DepsHash(s, f), Cold(s, f))
    <2> DEFINE new == Entry(f, Seen(s, f), config[s], DepsHash(s, f), Cold(s, f))
    <2>1. stored' = stored /\ mem' = [mem EXCEPT ![s] = {o \in @ : o.file # f} \cup {new}]
      BY <1>4 DEF Compute, Cold
    <2> HIDE DEF new
    <2>2. ASSUME cache = stored' PROVE Old \/ e = new
      BY <2>1, <2>2 DEF Caches
    <2>3. ASSUME NEW t \in Scans, cache = mem'[t] PROVE Old \/ e = new
      <3>1. e = new \/ e \in mem[t]
        BY <2>1, <2>3 DEF TypeOK
      <3> QED
        BY <3>1 DEF Caches
    <2>4. cache = stored' \/ \E t \in Scans : cache = mem'[t]
      BY DEF Caches
    <2>5. Old \/ e = new
      BY <2>2, <2>3, <2>4
    <2> QED
      BY <2>5 DEF new
  <1>5. CASE \E s \in Scans : \E x \in Files : IndexFile(s, x) \/ DigestFile(s, x)
    BY <1>1, <1>5 DEF IndexFile, DigestFile
  <1>6. CASE \E s \in Scans : \/ IndexBuilt(s) \/ Digested(s) \/ Scanned(s) \/ Crash(s)
                             \/ \E f \in Sources : Skip(s, f) \/ Replay(s, f)
    BY <1>1, <1>6 DEF IndexBuilt, Digested, Scanned, Crash, Skip, Replay
  <1>7. CASE \E s \in Scans, failed \in BOOLEAN, files \in SUBSET Listed : Walk(s, failed, files)
    BY <1>1, <1>7 DEF Walk
  <1>8. CASE UNCHANGED vars \/ \E x \in Files, v \in OnDisk : Edit(x, v)
    BY <1>1, <1>8 DEF vars, Edit, scanVars
  <1> QED
    BY <1>2, <1>3, <1>4, <1>5, <1>6, <1>7, <1>8 DEF Next, ScanStep

\* What a scan has replayed after a step it had replayed before, and reports it
\* with the same reads behind it; or the step has just served it from its cache.
LEMMA ReplayOrigin ==
    ASSUME TypeOK, PhaseInv, [Next]_vars, NEW t \in Scans, NEW f \in replayed'[t]
    PROVE  /\ f \in Sources
           /\ config'[t] = config[t] /\ walkFailed'[t] = walkFailed[t]
           /\ index'[t] = index[t] /\ digest'[t] = digest[t]
           /\ pc'[t] = "scanning" => pc[t] = "scanning"
           /\ \/ f \in replayed[t] /\ report'[t][f] = report[t][f]
              \/ /\ pc[t] = "scanning" /\ Read(t, f) /\ disk' = disk
                 /\ Seen(t, f) \in Content
                 /\ \E e \in Matching(t, f, Seen(t, f)) :
                        report'[t][f] = Reported(e.result)
  <1> DEFINE Same == /\ config'[t] = config[t] /\ walkFailed'[t] = walkFailed[t]
                     /\ index'[t] = index[t] /\ digest'[t] = digest[t]
                     /\ pc'[t] = "scanning" => pc[t] = "scanning"
             Kept == f \in replayed[t] /\ report'[t][f] = report[t][f]
             Served == /\ pc[t] = "scanning" /\ Read(t, f) /\ disk' = disk
                       /\ Seen(t, f) \in Content
                       /\ \E e \in Matching(t, f, Seen(t, f)) :
                              report'[t][f] = Reported(e.result)
  <1> SUFFICES f \in Sources /\ Same /\ (Kept \/ Served)
    OBVIOUS
  <1>0. f \in Sources
    BY TypeStep DEF TypeOK
  <1>1. ASSUME NEW s \in Scans, NEW c \in Configs, Load(s, c) PROVE Same /\ Kept
    <2>1. t # s
      BY <1>1 DEF Load, TypeOK
    <2> QED
      BY <1>1, <2>1 DEF Load, TypeOK
  <1>2. ASSUME NEW s \in Scans, NEW failed \in BOOLEAN, NEW files \in SUBSET Listed,
               Walk(s, failed, files)
        PROVE  Same /\ Kept
    <2>1. t # s
      BY <1>2 DEF Walk, PhaseInv
    <2> QED
      BY <1>2, <2>1 DEF Walk, TypeOK
  <1>3. ASSUME NEW s \in Scans, NEW x \in Files, IndexFile(s, x) \/ DigestFile(s, x)
        PROVE  Same /\ Kept
    <2>1. t # s
      BY <1>3 DEF IndexFile, DigestFile, PhaseInv
    <2> QED
      BY <1>3, <2>1 DEF IndexFile, DigestFile, progressVars, TypeOK
  <1>4. ASSUME NEW s \in Scans, IndexBuilt(s) \/ Digested(s) PROVE Same /\ Kept
    <2>1. t # s
      BY <1>4 DEF IndexBuilt, Digested, PhaseInv
    <2> QED
      BY <1>4, <2>1 DEF IndexBuilt, Digested, progressVars, TypeOK
  <1>5. ASSUME NEW s \in Scans, Scanned(s) \/ Crash(s) \/ Truncate(s) \/ Write(s)
        PROVE  Same /\ Kept
    BY <1>5 DEF Scanned, Crash, Truncate, Write, progressVars, TypeOK
  <1>6. ASSUME NEW s \in Scans, NEW g \in Sources, Skip(s, g) \/ Compute(s, g)
        PROVE  Same /\ Kept
    <2>1. /\ config' = config /\ walkFailed' = walkFailed /\ index' = index
          /\ digest' = digest /\ pc' = pc /\ replayed' = replayed
          /\ report[s][g] = NoReport
          /\ \E r : report' = [report EXCEPT ![s][g] = r]
      BY <1>6 DEF Skip, Compute, progressVars
    <2>2. ~(t = s /\ f = g)
      BY <2>1 DEF PhaseInv
    <2> QED
      BY <2>1, <2>2 DEF TypeOK
  <1>7. ASSUME NEW s \in Scans, NEW g \in Sources, Replay(s, g)
        PROVE  Same /\ (Kept \/ Served)
    <2>1. PICK e \in Matching(s, g, Seen(s, g)) :
              report' = [report EXCEPT ![s][g] = Reported(e.result)]
      BY <1>7 DEF Replay
    <2>2. /\ config' = config /\ walkFailed' = walkFailed /\ index' = index
          /\ digest' = digest /\ pc' = pc /\ disk' = disk
          /\ replayed' = [replayed EXCEPT ![s] = @ \cup {g}]
          /\ pc[s] = "scanning" /\ Read(s, g)
      BY <1>7 DEF Replay, progressVars
    <2>3. CASE t = s /\ f = g
      <3>1. Seen(s, g) \in Content
        BY DEF Matching, TypeOK, Entries
      <3>2. report'[s][g] = Reported(e.result)
        BY <2>1 DEF TypeOK
      <3> QED
        BY <2>2, <2>3, <3>1, <3>2
    <2>4. CASE ~(t = s /\ f = g)
      BY <2>1, <2>2, <2>4 DEF TypeOK
    <2> QED
      BY <2>3, <2>4
  <1>8. CASE UNCHANGED vars \/ \E x \in Files, v \in OnDisk : Edit(x, v)
    <2>1. UNCHANGED scanVars
      BY <1>8 DEF vars, Edit
    <2> QED
      BY <1>0, <2>1 DEF scanVars
  <1> QED
    BY <1>0, <1>1, <1>2, <1>3, <1>4, <1>5, <1>6, <1>7, <1>8 DEF Next, ScanStep

----------------------------------------------------------------------------
(* The cache is sound as far as the corpus serves what it reads: as long as *)
(* its read budget lasts, every content that is indexed, digested or        *)
(* scanned is the one it retained.                                          *)

\* What could be read for the index and for the digests is what is retained.
ReadInv ==
    \A s \in Scans : \A x \in Files :
        /\ index[s][x] \in {Unread, Unreadable, retained[s][x]}
        /\ digest[s][x] \in {Unread, Unreadable, retained[s][x]}

\* What a scan replayed, it had read, so the corpus keeps serving it.
ReplayedInv == \A s \in Scans : \A f \in replayed[s] : retained[s][f] # Unread

\* EntriesSound and WarmAsCold are inductive only with how they came about.
IInv == TypeOK /\ PhaseInv /\ ReadInv /\ ReplayedInv /\ EntriesSound /\ WarmAsCold

\* A digest of dependencies is never mistaken for a missing listing.
LEMMA DepsAreListed == \A S : <<"deps", S>> # Unlisted /\ <<"deps", S>>[2] = S
  <1>1. \A S : <<"deps", S>>[1] = "deps" /\ Unlisted[1] = "unlisted"
    BY DEF Unlisted
  <1> QED
    BY <1>1

\* After a complete listing the digest tells what every dependency was read as.
LEMMA DigestTells ==
    ASSUME NEW s \in Scans, NEW f \in Sources, ~walkFailed[s]
    PROVE  /\ DepsHash(s, f) # Unlisted
           /\ DepsHash(s, f)[2] =
                  [x \in Files |-> IF x \in Deps(f) THEN digest[s][x] ELSE Unread]
  BY DepsAreListed DEF DepsHash

\* Below the read budget a read retains what it saw, and nothing is forgotten.
LEMMA ReadRetains ==
    ASSUME TypeOK, Retains = TRUE, NEW s \in Scans, NEW x \in Files, Read(s, x)
    PROVE  /\ \A t \in Scans : \A y \in Files :
                  retained'[t][y] = retained[t][y] \/ retained[t][y] = Unread
           /\ Seen(s, x) \in {Unreadable, retained'[s][x]}
  <1>1. CASE retained' = [retained EXCEPT ![s][x] = Seen(s, x)]
    BY <1>1 DEF TypeOK, Seen
  <1>2. CASE Seen(s, x) = Unreadable /\ UNCHANGED retained
    BY <1>2
  <1> QED
    BY <1>1, <1>2 DEF Read

\* Only a scan that starts over forgets what its corpus retained.
LEMMA RetainedKept ==
    ASSUME TypeOK, Retains = TRUE, [Next]_vars, NEW t \in Scans, NEW x \in Files
    PROVE  \/ retained'[t][x] = retained[t][x] \/ retained[t][x] = Unread
           \/ /\ \A y \in Files : index'[t][y] = Unread /\ digest'[t][y] = Unread
              /\ replayed'[t] = {}
  <1>1. ASSUME NEW s \in Scans, NEW c \in Configs, Load(s, c)
        PROVE  \/ retained'[t][x] = retained[t][x]
               \/ /\ \A y \in Files : index'[t][y] = Unread /\ digest'[t][y] = Unread
                  /\ replayed'[t] = {}
    BY <1>1 DEF Load, TypeOK
  <1>2. ASSUME NEW s \in Scans, NEW y \in Files, Read(s, y)
        PROVE  retained'[t][x] = retained[t][x] \/ retained[t][x] = Unread
    BY <1>2, ReadRetains
  <1>3. CASE UNCHANGED retained
    BY <1>3
  <1>4. \/ UNCHANGED retained
        \/ \E s \in Scans, c \in Configs : Load(s, c)
        \/ \E s \in Scans, y \in Files : Read(s, y)
    <2>1. CASE \E z \in Files, v \in OnDisk : Edit(z, v)
      BY <2>1 DEF Edit, scanVars
    <2>2. ASSUME NEW s \in Scans, NEW y \in Files, IndexFile(s, y) \/ DigestFile(s, y)
          PROVE  Read(s, y)
      BY <2>2 DEF IndexFile, DigestFile
    <2>3. ASSUME NEW s \in Scans, NEW f \in Sources, Replay(s, f) \/ Compute(s, f)
          PROVE  Read(s, f) /\ f \in Files
      BY <2>3 DEF Replay, Compute, Files
    <2>4. ASSUME NEW s \in Scans, NEW f \in Sources, Skip(s, f) PROVE UNCHANGED retained
      BY <2>4 DEF Skip
    <2>5. ASSUME NEW s \in Scans, \/ IndexBuilt(s) \/ Digested(s) \/ Scanned(s)
                                 \/ Truncate(s) \/ Write(s) \/ Crash(s)
                                 \/ \E failed \in BOOLEAN, files \in SUBSET Listed :
                                        Walk(s, failed, files)
          PROVE  UNCHANGED retained
      BY <2>5 DEF IndexBuilt, Digested, Scanned, Truncate, Write, Crash, Walk
    <2>6. CASE UNCHANGED vars
      BY <2>6 DEF vars, scanVars
    <2> QED
      BY <2>1, <2>2, <2>3, <2>4, <2>5, <2>6 DEF Next, ScanStep
  <1> QED
    BY <1>1, <1>2, <1>3, <1>4

\* Every step keeps index and digests in line with what is retained.
LEMMA ReadStep ==
    ASSUME TypeOK, Retains = TRUE, ReadInv, [Next]_vars
    PROVE  ReadInv'
  <1> DEFINE Line(s, x) == /\ index[s][x] \in {Unread, Unreadable, retained[s][x]}
                           /\ digest[s][x] \in {Unread, Unreadable, retained[s][x]}
  <1> SUFFICES ASSUME NEW t \in Scans, NEW y \in Files PROVE Line(t, y)'
    BY DEF ReadInv
  <1>1. /\ index[t][y] \in {Unread, Unreadable, retained[t][y]}
        /\ digest[t][y] \in {Unread, Unreadable, retained[t][y]}
    BY DEF ReadInv
  <1>2. ASSUME NEW s \in Scans, NEW x \in Files, IndexFile(s, x) PROVE Line(t, y)'
    <2>1. Read(s, x) /\ index' = [index EXCEPT ![s][x] = Seen(s, x)] /\ digest' = digest
      BY <1>2 DEF IndexFile
    <2>2. /\ retained'[t][y] = retained[t][y] \/ retained[t][y] = Unread
          /\ Seen(s, x) \in {Unreadable, retained'[s][x]}
      BY <2>1, ReadRetains
    <2> QED
      BY <1>1, <2>1, <2>2 DEF TypeOK
  <1>3. ASSUME NEW s \in Scans, NEW x \in Files, DigestFile(s, x) PROVE Line(t, y)'
    <2>1. Read(s, x) /\ digest' = [digest EXCEPT ![s][x] = Seen(s, x)] /\ index' = index
      BY <1>3 DEF DigestFile
    <2>2. /\ retained'[t][y] = retained[t][y] \/ retained[t][y] = Unread
          /\ Seen(s, x) \in {Unreadable, retained'[s][x]}
      BY <2>1, ReadRetains
    <2> QED
      BY <1>1, <2>1, <2>2 DEF TypeOK
  <1>4. CASE UNCHANGED <<index, digest>>
    BY <1>1, <1>4, RetainedKept
  <1>5. ASSUME NEW s \in Scans, NEW c \in Configs, Load(s, c) PROVE Line(t, y)'
    BY <1>1, <1>5 DEF Load, TypeOK
  <1>6. CASE UNCHANGED vars \/ \E x \in Files, v \in OnDisk : Edit(x, v)
    BY <1>4, <1>6 DEF vars, Edit, scanVars
  <1>7. ASSUME NEW s \in Scans, \/ IndexBuilt(s) \/ Digested(s) \/ Scanned(s)
                               \/ Truncate(s) \/ Write(s) \/ Crash(s)
                               \/ \E failed \in BOOLEAN, files \in SUBSET Listed :
                                      Walk(s, failed, files)
                               \/ \E f \in Sources : Skip(s, f) \/ Replay(s, f) \/ Compute(s, f)
        PROVE  UNCHANGED <<index, digest>>
    BY <1>7 DEF IndexBuilt, Digested, Scanned, Truncate, Write, Crash, Walk, Skip, Replay,
                Compute
  <1> QED
    BY <1>2, <1>3, <1>4, <1>5, <1>6, <1>7 DEF Next, ScanStep

\* What could be read of a sibling for the index and for a digest is the same.
LEMMA SiblingsAgree ==
    ASSUME IInv, NEW s \in Scans, NEW f \in Sources, pc[s] = "scanning", ~walkFailed[s],
           NEW x \in Package[f]
    PROVE  /\ x \in Files
           /\ DepsHash(s, f)[2][x] = digest[s][x]
           /\ Agree(index[s][x], digest[s][x])
  <1>1. x \in Files /\ x \in Sources /\ x \in Deps(f) /\ x \in Listed
    BY DepsListed
  <1>2. DepsHash(s, f)[2][x] = digest[s][x]
    BY <1>1, DigestTells
  <1>3. index[s][x] # Unread /\ digest[s][x] # Unread
    BY <1>1 DEF IInv, PhaseInv
  <1> QED
    BY <1>1, <1>2, <1>3 DEF IInv, ReadInv, Agree

\* Every step leaves only entries that tell what they were made from.
LEMMA EntriesStep ==
    ASSUME IInv, [Next]_vars
    PROVE  EntriesSound'
  <1> DEFINE Sound(e) == /\ e.result.config = e.configHash
                         /\ e.result.data = e.fileHash
                         /\ \A x \in Package[e.file] :
                                Agree(e.result.seen[x], e.depsHash[2][x])
  <1>1. ASSUME NEW cache \in Caches', NEW e \in cache, e.depsHash # Unlisted
        PROVE  Sound(e)
    <2>1. CASE \E old \in Caches : e \in old
      BY <1>1, <2>1 DEF IInv, EntriesSound
    <2>2. ASSUME NEW s \in Scans, NEW f \in Sources, Compute(s, f),
                 e = Entry(f, Seen(s, f), config[s], DepsHash(s, f), Cold(s, f))
          PROVE  Sound(e)
      <3>1. pc[s] = "scanning" /\ ~walkFailed[s]
        BY <1>1, <2>2 DEF Compute, Entry, DepsHash
      <3>2. /\ e.file = f /\ e.result = Cold(s, f) /\ e.configHash = config[s]
            /\ e.fileHash = Seen(s, f) /\ e.depsHash = DepsHash(s, f)
        BY <2>2 DEF Entry
      <3>3. ASSUME NEW x \in Package[f] PROVE Agree(e.result.seen[x], e.depsHash[2][x])
        <4>1. e.result.seen[x] = index[s][x]
          BY <3>1, <3>2, SiblingsAgree DEF Cold, Evaluation
        <4> QED
          BY <3>1, <3>2, <4>1, SiblingsAgree
      <3> QED
        BY <3>2, <3>3 DEF Cold, Evaluation
    <2> QED
      BY <2>1, <2>2, EntryOrigin DEF IInv
  <1> QED
    BY <1>1 DEF EntriesSound, Agree

\* What a scan has replayed stays retained.
LEMMA ReplayedStep ==
    ASSUME IInv, Retains = TRUE, [Next]_vars
    PROVE  ReplayedInv'
  <1> SUFFICES ASSUME NEW t \in Scans, NEW f \in replayed'[t] PROVE retained'[t][f] # Unread
    BY DEF ReplayedInv
  <1>1. TypeOK /\ PhaseInv
    BY DEF IInv
  <1>2. f \in Files
    BY <1>1, ReplayOrigin DEF Files
  <1>3. CASE f \in replayed[t]
    BY <1>1, <1>2, <1>3, RetainedKept DEF IInv, ReplayedInv
  <1>4. CASE Read(t, f) /\ Seen(t, f) \in Content
    BY <1>1, <1>2, <1>4, ReadRetains, ContentIsRead DEF OnDisk
  <1> QED
    BY <1>1, <1>3, <1>4, ReplayOrigin

\* Every step leaves only replays that a cold scan would report.
LEMMA WarmStep ==
    ASSUME IInv, Retains = TRUE, [Next]_vars
    PROVE  WarmAsCold'
  <1> DEFINE AsCold(r, t, f, cold) ==
                 /\ r.config = cold.config
                 /\ r.data = cold.data
                 /\ \A x \in Package[f] :
                        digest[t][x] # Unreadable => Agree(r.seen[x], cold.seen[x])
  <1>1. TypeOK /\ PhaseInv /\ ReplayedInv'
    BY ReplayedStep DEF IInv
  <1>2. ASSUME NEW t \in Scans, NEW f \in replayed'[t], ~walkFailed'[t]
        PROVE  \E r : report'[t][f] = Reported(r) /\ AsCold(r, t, f, Cold(t, f)')
    <2>1. f \in Files /\ f \in Sources
      BY <1>1, <1>2, ReplayOrigin DEF Files
    <2>2. /\ config'[t] = config[t] /\ index'[t] = index[t] /\ ~walkFailed[t]
      BY <1>1, <1>2, ReplayOrigin
    <2>3. retained'[t][f] # Unread
      BY <1>1, <1>2 DEF ReplayedInv
    <2>4. Package[f] \subseteq Files
      BY <2>1, DepsListed
    <2>5. /\ Cold(t, f)'.config = config[t]
          /\ Cold(t, f)'.data = retained'[t][f]
          /\ \A x \in Package[f] : Cold(t, f)'.seen[x] = index[t][x]
      BY <2>2, <2>3, <2>4 DEF Cold, Evaluation, Seen
    <2>6. CASE f \in replayed[t] /\ report'[t][f] = report[t][f]
      <3>1. retained'[t][f] = retained[t][f] /\ retained[t][f] # Unread
        BY <1>1, <1>2, <2>1, <2>6, RetainedKept DEF IInv, ReplayedInv
      <3>2. /\ Cold(t, f).config = config[t]
            /\ Cold(t, f).data = retained[t][f]
            /\ \A x \in Package[f] : Cold(t, f).seen[x] = index[t][x]
        BY <2>4, <3>1 DEF Cold, Evaluation, Seen
      <3>3. /\ report[t][f] = Reported(report[t][f][2])
            /\ AsCold(report[t][f][2], t, f, Cold(t, f))
        BY <2>2, <2>6 DEF IInv, WarmAsCold
      <3> QED
        BY <2>5, <2>6, <3>1, <3>2, <3>3
    <2>7. ASSUME pc[t] = "scanning", Read(t, f), Seen(t, f) \in Content,
                 NEW e \in Matching(t, f, Seen(t, f)),
                 report'[t][f] = Reported(e.result)
          PROVE  AsCold(e.result, t, f, Cold(t, f)')
      <3>1. Seen(t, f) = retained'[t][f]
        BY <1>1, <2>1, <2>7, ReadRetains, ContentIsRead
      <3>2. /\ e \in mem[t] /\ e.file = f /\ e.fileHash = Seen(t, f)
            /\ e.configHash = config[t] /\ e.depsHash = DepsHash(t, f)
        BY DEF Matching
      <3>3. /\ e.result.config = e.configHash
            /\ e.result.data = e.fileHash
            /\ \A x \in Package[e.file] : Agree(e.result.seen[x], e.depsHash[2][x])
        <4>1. mem[t] \in Caches
          BY DEF Caches
        <4>2. e.depsHash # Unlisted
          BY <2>1, <2>2, <3>2, DigestTells
        <4> QED
          BY <3>2, <4>1, <4>2 DEF IInv, EntriesSound
      <3>4. ASSUME NEW x \in Package[f], digest[t][x] # Unreadable
            PROVE  Agree(e.result.seen[x], index[t][x])
        <4>1. DepsHash(t, f)[2][x] = digest[t][x] /\ Agree(index[t][x], digest[t][x])
          BY <2>1, <2>2, <2>7, SiblingsAgree
        <4>2. Agree(e.result.seen[x], digest[t][x])
          BY <3>2, <3>3, <4>1
        <4> QED
          BY <3>4, <4>1, <4>2 DEF Agree
      <3> QED
        BY <2>5, <3>1, <3>2, <3>3, <3>4
    <2> QED
      BY <1>1, <1>2, <2>6, <2>7, ReplayOrigin
  <1>3. ASSUME NEW t \in Scans, NEW f \in replayed'[t], ~walkFailed'[t]
        PROVE  /\ report'[t][f] = Reported(report'[t][f][2])
               /\ AsCold(report'[t][f][2], t, f, Cold(t, f)')
               /\ digest'[t] = digest[t]
    <2>1. PICK r : report'[t][f] = Reported(r) /\ AsCold(r, t, f, Cold(t, f)')
      BY <1>2, <1>3
    <2>2. report'[t][f][2] = r
      BY <2>1, ReportsDiffer
    <2>3. digest'[t] = digest[t]
      BY <1>1, <1>3, ReplayOrigin
    <2> QED
      BY <2>1, <2>2, <2>3
  <1> QED
    BY <1>3 DEF WarmAsCold, Reported, Agree

\* The invariant holds before the first scan, with an empty cache file.
LEMMA InitInv == Init => IInv
  <1>1. Init => TypeOK
    BY BoundsAssumption DEF Init, TypeOK, Places, Contents, Reports, OneEntryPerFile
  <1> QED
    BY <1>1 DEF Init, IInv, ReadInv, PhaseInv, ReplayedInv, EntriesSound, WarmAsCold, Caches

\* The conjunction of what the cache keeps is an invariant below the read budget.
THEOREM InvariantHolds ==
    ASSUME Retains = TRUE
    PROVE  Spec => []IInv
  <1>1. IInv /\ [Next]_vars => IInv'
    BY TypeStep, PhaseStep, ReadStep, ReplayedStep, EntriesStep, WarmStep DEF IInv
  <1> QED
    BY <1>1, InitInv, PTL DEF Spec

\* Below the read budget every entry tells in its hashes the configuration, the
\* content and the siblings its findings were made from, as far as both could be
\* read, whatever manifests the evaluator opens and whatever is edited when.
THEOREM EntriesAreSound ==
    ASSUME Retains = TRUE
    PROVE  Spec => []EntriesSound
  <1>1. IInv => EntriesSound
    BY DEF IInv
  <1> QED
    BY <1>1, InvariantHolds, PTL

\* Below the read budget a scan with a complete listing replays what it would
\* report without a cache, but for siblings it could not always read.
THEOREM ReplaysAreEvaluations ==
    ASSUME Retains = TRUE
    PROVE  Spec => []WarmAsCold
  <1>1. IInv => WarmAsCold
    BY DEF IInv
  <1> QED
    BY <1>1, InvariantHolds, PTL

----------------------------------------------------------------------------
(* While nobody edits under a running scan, and no manifest is hidden from  *)
(* the listing, the digests tell everything, whether or not the budget      *)
(* lasts and whatever cannot be read.                                       *)

\* What a running scan has read is what is on disk.
QuietInv ==
    \A s \in Scans : pc[s] # "idle" => \A x \in Files :
        /\ retained[s][x] \in {Unread, disk[x]}
        /\ index[s][x] \in {Unread, disk[x]}
        /\ digest[s][x] \in {Unread, disk[x]}

\* Every entry made under a complete listing tells all that it was made from.
EntriesExact ==
    \A cache \in Caches : \A e \in cache : e.depsHash # Unlisted =>
        e.result = [config |-> e.configHash, data |-> e.fileHash, seen |-> e.depsHash[2]]

QInv == TypeOK /\ PhaseInv /\ QuietInv /\ EntriesExact /\ EditsInvalidate

\* A running scan sees every file as it is on disk.
LEMMA SeenOnDisk ==
    ASSUME TypeOK, QuietInv, NEW s \in Scans, NEW x \in Files, pc[s] # "idle"
    PROVE  Seen(s, x) = disk[x]
  BY DEF QuietInv, Seen

\* Every step of a quiet tree keeps what was read in line with the disk.
LEMMA QuietStep ==
    ASSUME TypeOK, QuietTree = TRUE, QuietInv, [Next]_vars
    PROVE  QuietInv'
  <1>1. ASSUME NEW s \in Scans, NEW c \in Configs, Load(s, c) PROVE QuietInv'
    BY <1>1 DEF Load, TypeOK, QuietInv
  <1>2. ASSUME NEW s \in Scans, NEW x \in Files, IndexFile(s, x) PROVE QuietInv'
    <2>1. Seen(s, x) = disk[x]
      BY <1>2, SeenOnDisk DEF IndexFile
    <2> QED
      BY <1>2, <2>1 DEF IndexFile, Read, progressVars, TypeOK, QuietInv
  <1>3. ASSUME NEW s \in Scans, NEW x \in Files, DigestFile(s, x) PROVE QuietInv'
    <2>1. Seen(s, x) = disk[x]
      BY <1>3, SeenOnDisk DEF DigestFile
    <2> QED
      BY <1>3, <2>1 DEF DigestFile, Read, progressVars, TypeOK, QuietInv
  <1>4. ASSUME NEW s \in Scans, NEW f \in Sources, Replay(s, f) \/ Compute(s, f)
        PROVE  QuietInv'
    <2>1. /\ pc[s] = "scanning" /\ pc' = pc /\ Read(s, f)
          /\ index' = index /\ digest' = digest /\ disk' = disk
      BY <1>4 DEF Replay, Compute, progressVars
    <2>2. Seen(s, f) = disk[f]
      BY <2>1, SeenOnDisk DEF Files
    <2> QED
      BY <2>1, <2>2 DEF Read, TypeOK, QuietInv
  <1>5. ASSUME NEW s \in Scans, \/ IndexBuilt(s) \/ Digested(s) \/ Scanned(s)
                               \/ Truncate(s) \/ Write(s) \/ Crash(s)
                               \/ \E failed \in BOOLEAN, files \in SUBSET Listed :
                                      Walk(s, failed, files)
                               \/ \E f \in Sources : Skip(s, f)
        PROVE  QuietInv'
    <2>1. /\ UNCHANGED <<retained, index, digest, disk>>
          /\ \A t \in Scans : pc'[t] # "idle" => pc[t] # "idle"
      BY <1>5 DEF IndexBuilt, Digested, Scanned, Truncate, Write, Crash, Walk, Skip, TypeOK
    <2> QED
      BY <2>1 DEF QuietInv
  <1>6. ASSUME NEW x \in Files, NEW v \in OnDisk, Edit(x, v) PROVE QuietInv'
    BY <1>6 DEF Edit, scanVars, QuietInv
  <1>7. CASE UNCHANGED vars
    BY <1>7 DEF vars, scanVars, QuietInv
  <1> QED
    BY <1>1, <1>2, <1>3, <1>4, <1>5, <1>6, <1>7 DEF Next, ScanStep

\* A scan with a complete listing digests exactly what its evaluator reads.
LEMMA DigestIsSeen ==
    ASSUME TypeOK, PhaseInv, QuietInv, Hidden = {}, NEW s \in Scans, NEW f \in Sources,
           pc[s] = "scanning", ~walkFailed[s]
    PROVE  /\ DepsHash(s, f) # Unlisted
           /\ Cold(s, f) = [config |-> config[s], data |-> Seen(s, f),
                            seen |-> DepsHash(s, f)[2]]
  <1>1. /\ Deps(f) = Package[f] \cup Manifests /\ Deps(f) \subseteq Listed
        /\ Package[f] \subseteq Sources
    BY DepsListed DEF Deps
  <1>2. \A x \in Package[f] : index[s][x] = disk[x]
    BY <1>1 DEF PhaseInv, QuietInv, Files
  <1>3. \A x \in Deps(f) : digest[s][x] = disk[x]
    BY <1>1, DepsListed DEF PhaseInv, QuietInv
  <1>4. [x \in Files |-> IF x \in Package[f] THEN index[s][x]
                        ELSE IF x \in Manifests THEN disk[x] ELSE Unread]
            = [x \in Files |-> IF x \in Deps(f) THEN digest[s][x] ELSE Unread]
    BY <1>1, <1>2, <1>3
  <1> QED
    BY <1>4, DigestTells DEF Cold, Evaluation

\* Every step of a quiet tree leaves only entries that tell all they were made from.
LEMMA ExactStep ==
    ASSUME QInv, Hidden = {}, [Next]_vars
    PROVE  EntriesExact'
  <1>1. ASSUME NEW cache \in Caches', NEW e \in cache, e.depsHash # Unlisted
        PROVE  e.result = [config |-> e.configHash, data |-> e.fileHash,
                           seen |-> e.depsHash[2]]
    <2>1. CASE \E old \in Caches : e \in old
      BY <1>1, <2>1 DEF QInv, EntriesExact
    <2>2. ASSUME NEW s \in Scans, NEW f \in Sources, Compute(s, f),
                 e = Entry(f, Seen(s, f), config[s], DepsHash(s, f), Cold(s, f))
          PROVE  e.result = [config |-> e.configHash, data |-> e.fileHash,
                             seen |-> e.depsHash[2]]
      <3>1. pc[s] = "scanning" /\ ~walkFailed[s]
        BY <1>1, <2>2 DEF Compute, Entry, DepsHash
      <3>2. /\ e.result = Cold(s, f) /\ e.configHash = config[s]
            /\ e.fileHash = Seen(s, f) /\ e.depsHash = DepsHash(s, f)
        BY <2>2 DEF Entry
      <3> QED
        BY <3>1, <3>2, DigestIsSeen DEF QInv
    <2> QED
      BY <2>1, <2>2, EntryOrigin DEF QInv
  <1> QED
    BY <1>1 DEF EntriesExact

\* Every step of a quiet tree leaves only replays that a cold scan would report.
LEMMA InvalidateStep ==
    ASSUME QInv, QuietTree = TRUE, Hidden = {}, [Next]_vars
    PROVE  EditsInvalidate'
  <1> SUFFICES ASSUME NEW t \in Scans, NEW f \in replayed'[t], pc'[t] = "scanning",
                      ~walkFailed'[t]
               PROVE  report'[t][f] = Reported(Cold(t, f)')
    BY DEF EditsInvalidate, Reported
  <1>1. TypeOK /\ TypeOK' /\ PhaseInv /\ QuietInv /\ QuietInv'
    BY TypeStep, QuietStep DEF QInv
  <1>2. /\ f \in Sources /\ f \in Files /\ pc[t] = "scanning" /\ ~walkFailed[t]
        /\ config'[t] = config[t] /\ index'[t] = index[t]
    BY <1>1, ReplayOrigin DEF Files
  <1>3. disk' = disk
    <2>1. CASE \E x \in Files, v \in OnDisk : Edit(x, v)
      BY <1>2, <2>1 DEF Edit
    <2>2. CASE \E s \in Scans : ScanStep(s)
      BY <2>2 DEF ScanStep, Load, Walk, IndexFile, DigestFile, IndexBuilt, Digested, Skip,
                  Replay, Compute, Scanned, Truncate, Write, Crash
    <2>3. CASE UNCHANGED vars
      BY <2>3 DEF vars
    <2> QED
      BY <2>1, <2>2, <2>3 DEF Next
  <1>4. Cold(t, f)' = Cold(t, f)
    <2>1. Seen(t, f) = disk[f] /\ Seen(t, f)' = disk'[f]
      BY <1>1, <1>2, SeenOnDisk DEF QuietInv, Seen
    <2> QED
      BY <1>2, <1>3, <2>1 DEF Cold, Evaluation
  <1>5. CASE f \in replayed[t] /\ report'[t][f] = report[t][f]
    BY <1>2, <1>4, <1>5 DEF QInv, EditsInvalidate
  <1>6. ASSUME NEW e \in Matching(t, f, Seen(t, f)), report'[t][f] = Reported(e.result)
        PROVE  report'[t][f] = Reported(Cold(t, f))
    <2>1. /\ e \in mem[t] /\ mem[t] \in Caches /\ e.fileHash = Seen(t, f)
          /\ e.configHash = config[t] /\ e.depsHash = DepsHash(t, f)
      BY DEF Matching, Caches
    <2>2. /\ DepsHash(t, f) # Unlisted
          /\ Cold(t, f) = [config |-> config[t], data |-> Seen(t, f),
                           seen |-> DepsHash(t, f)[2]]
      BY <1>1, <1>2, DigestIsSeen
    <2>3. e.result = Cold(t, f)
      BY <2>1, <2>2 DEF QInv, EntriesExact
    <2> QED
      BY <1>6, <2>3
  <1> QED
    BY <1>1, <1>4, <1>5, <1>6, ReplayOrigin

\* With every manifest listed and a tree that is edited between scans only, an
\* edit invalidates the findings of the files that read it: what a scan with a
\* complete listing replays is, to the last manifest, what a cold scan reports.
THEOREM ListedEditsInvalidate ==
    ASSUME QuietTree = TRUE, Hidden = {}
    PROVE  Spec => []EditsInvalidate
  <1>1. Init => QInv
    <2>1. Init => TypeOK
      BY BoundsAssumption DEF Init, TypeOK, Places, Contents, Reports, OneEntryPerFile
    <2> QED
      BY <2>1 DEF Init, QInv, PhaseInv, QuietInv, EntriesExact, EditsInvalidate, Caches
  <1>2. QInv /\ [Next]_vars => QInv'
    BY TypeStep, PhaseStep, QuietStep, ExactStep, InvalidateStep DEF QInv
  <1>3. QInv => EditsInvalidate
    BY DEF QInv
  <1> QED
    BY <1>1, <1>2, <1>3, PTL DEF Spec
=============================================================================
