----------------------------- MODULE FileCorpus -----------------------------
(***************************************************************************)
(* The reads and parses that all sections of a scan share (corpus.go).     *)
(*                                                                         *)
(* A call asks the corpus for a file and may then ask for the parse of     *)
(* what it was given.  Both are memoized in slots with a sync.Once each,   *)
(* under budgets that bound what is retained: a read that does not fit is  *)
(* handed to whoever waits for its slot and the slot is dropped; a Go or   *)
(* C-like parse that does not fit is made for its caller alone; a script   *)
(* parse that does not fit is refused, and its rules fall back to regexes. *)
(*                                                                         *)
(* A slot of a read is named after the call that put it in the map; a      *)
(* parse slot is its key, the file and the content.  Files are edited      *)
(* while the scan runs.  A disk read is one step: a file that is rewritten *)
(* while it is read counts as one of its contents.                         *)
(***************************************************************************)
EXTENDS Integers, FiniteSets

CONSTANTS
    Calls,              \* calls to read, by any section and file worker
    Files,
    Wanted,             \* the ways the calls may be spread over the files
    KindOf,             \* per file: which parser its rules use
    Versions,           \* contents a file can have
    Size,               \* per content: its length
    MaxReadBytes, MaxReadEntries,       \* the read budget
    MaxParseBytes, MaxParseEntries,     \* per kind: its parse budget
    ReadWorkers,        \* capacity of readWork
    ParseWorkers,       \* per kind: capacity of its parse gate
    MaxEdits            \* bound: edits of the working tree

Kinds == {"go", "clike", "script"}

ASSUME WantedAssumption == Wanted \subseteq [Calls -> Files]
ASSUME FilesAssumption == KindOf \in [Files -> Kinds] /\ Size \in [Versions -> Nat]
ASSUME ReadBudgetAssumption == MaxReadBytes \in Nat /\ MaxReadEntries \in Nat
ASSUME ParseBudgetAssumption ==
    MaxParseBytes \in [Kinds -> Nat] /\ MaxParseEntries \in [Kinds -> Nat]
ASSUME WorkersAssumption == ReadWorkers \in Nat \ {0} /\ ParseWorkers \in [Kinds -> Nat \ {0}]
ASSUME EditsAssumption == MaxEdits \in Nat

None    == "none"       \* no slot, no answer
Failed  == "failed"     \* the file could not be opened or read, or is too large
Refused == "refused"    \* no tree: the script budget is used up

Fresh == "fresh"
Done  == "done"

ASSUME SentinelsAssumption ==
    {None, Failed, Refused, Fresh, Done} \cap (Calls \cup Versions) = {}

Keys == Files \X Versions

goASTBytesPerSourceByte == 9
clikeBytesPerSourceByte == 5

\* What the parse of a content is reckoned to retain.
Cost(kind, v) == Size[v] * CASE kind = "go"     -> goASTBytesPerSourceByte
                             [] kind = "clike"  -> clikeBytesPerSourceByte
                             [] kind = "script" -> 1

VARIABLES
    disk, edits,    \* the working tree, and how often it was edited
    wants,          \* per call: the file it asks for
    pc,             \* per call: where it is
    reads,          \* c.reads: per file, the call that made its slot
    joined,         \* per call: the slot it works on, or None when uncached
    once,           \* per slot: its sync.Once
    data,           \* per slot: what was read into it
    retained,       \* the slots admitted to the cache
    readBytes,      \* c.readBytes
    answer,         \* per call: what it was given
    parses,         \* c.asts, c.clike, c.scripts: per key, its slot, or who fills it
    parseBytes,     \* per kind: goASTBytes, clikeBytes, scriptBytes
    parseCount,     \* per kind: len(asts), len(clike), scriptCount
    tree,           \* per call: the content whose tree it was given, or Refused
    noted,          \* budget kinds in diagnosticSeen
    opened,         \* per file: how often it was read from disk
    broken          \* files some disk read of which failed

diskVars  == <<disk, edits>>
readVars  == <<reads, joined, once, data, retained, readBytes>>
parseVars == <<parses, parseBytes, parseCount, tree>>
vars == <<diskVars, wants, pc, readVars, answer, parseVars, noted, opened, broken>>

Places == {"new", "joined", "gated", "reading", "settling", "answered",
           "parsejoined", "parsegated", "parsing", "done"}

Init ==
    /\ disk \in [Files -> Versions]
    /\ edits = 0
    /\ wants \in Wanted
    /\ pc = [c \in Calls |-> "new"]
    /\ reads = [f \in Files |-> None]
    /\ joined = [c \in Calls |-> None]
    /\ once = [c \in Calls |-> Fresh]
    /\ data = [c \in Calls |-> None]
    /\ retained = {}
    /\ readBytes = 0
    /\ answer = [c \in Calls |-> None]
    /\ parses = [k \in Keys |-> None]
    /\ parseBytes = [k \in Kinds |-> 0]
    /\ parseCount = [k \in Kinds |-> 0]
    /\ tree = [c \in Calls |-> None]
    /\ noted = {}
    /\ opened = [f \in Files |-> 0]
    /\ broken = {}

Goes(c, from, to) == pc[c] = from /\ pc' = [pc EXCEPT ![c] = to]

----------------------------------------------------------------------------
(* Somebody edits a file.                                                  *)
Edit(f, v) ==
    /\ edits < MaxEdits
    /\ disk[f] # v
    /\ disk' = [disk EXCEPT ![f] = v]
    /\ edits' = edits + 1
    /\ UNCHANGED <<wants, pc, readVars, answer, parseVars, noted, opened, broken>>

(* read, under the lock: the slot that is there, a new one, or none when   *)
(* the map is full.                                                        *)
Slots == {f \in Files : reads[f] # None}

FindSlot(c) ==
    /\ reads[wants[c]] # None
    /\ Goes(c, "new", "joined")
    /\ joined' = [joined EXCEPT ![c] = reads[wants[c]]]
    /\ UNCHANGED <<diskVars, wants, reads, once, data, retained, readBytes, answer,
                   parseVars, noted, opened, broken>>

MakeSlot(c) ==
    /\ reads[wants[c]] = None
    /\ Cardinality(Slots) < MaxReadEntries
    /\ Goes(c, "new", "joined")
    /\ reads' = [reads EXCEPT ![wants[c]] = c]
    /\ joined' = [joined EXCEPT ![c] = c]
    /\ UNCHANGED <<diskVars, wants, once, data, retained, readBytes, answer, parseVars,
                   noted, opened, broken>>

SlotsFull(c) ==
    /\ reads[wants[c]] = None
    /\ Cardinality(Slots) >= MaxReadEntries
    /\ Goes(c, "new", "gated")
    /\ noted' = noted \cup {"read_entries"}
    /\ UNCHANGED <<diskVars, wants, readVars, answer, parseVars, opened, broken>>

\* Mutant of Lead: whoever finds no content yet reads the file itself.
LeadAgain(c) ==
    /\ Goes(c, "joined", "gated")
    /\ once[joined[c]] # Done
    /\ once' = [once EXCEPT ![joined[c]] = "running"]
    /\ UNCHANGED <<diskVars, wants, reads, joined, data, retained, readBytes, answer,
                   parseVars, noted, opened, broken>>

(* entry.once.Do: one call reads, not always the one that made the slot ... *)
Lead(c) ==
    /\ Goes(c, "joined", "gated")
    /\ once[joined[c]] = Fresh
    /\ once' = [once EXCEPT ![joined[c]] = "running"]
    /\ UNCHANGED <<diskVars, wants, reads, joined, data, retained, readBytes, answer,
                   parseVars, noted, opened, broken>>

\* Mutant of Share: a slot that is in the map is taken for one that was read.
SharePremature(c) ==
    /\ Goes(c, "joined", "answered")
    /\ once[joined[c]] # Fresh
    /\ answer' = [answer EXCEPT ![c] = data[joined[c]]]
    /\ UNCHANGED <<diskVars, wants, readVars, parseVars, noted, opened, broken>>

(* ... and the others wait for it and share what it read.                  *)
Share(c) ==
    /\ Goes(c, "joined", "answered")
    /\ once[joined[c]] = Done
    /\ answer' = [answer EXCEPT ![c] = data[joined[c]]]
    /\ UNCHANGED <<diskVars, wants, readVars, parseVars, noted, opened, broken>>

(* readUncached: a place in readWork, then the file as it is now.          *)
EnterGate(c) ==
    /\ Goes(c, "gated", "reading")
    /\ Cardinality({d \in Calls : pc[d] = "reading"}) < ReadWorkers
    /\ UNCHANGED <<diskVars, wants, readVars, answer, parseVars, noted, opened, broken>>

ReadDisk(c, content) ==
    /\ Goes(c, "reading", IF joined[c] = None THEN "answered" ELSE "settling")
    /\ content \in {disk[wants[c]], Failed}
    /\ IF joined[c] = None
       THEN answer' = [answer EXCEPT ![c] = content] /\ UNCHANGED data
       ELSE data' = [data EXCEPT ![joined[c]] = content] /\ UNCHANGED answer
    /\ opened' = [opened EXCEPT ![wants[c]] = @ + 1]
    /\ broken' = IF content = Failed THEN broken \cup {wants[c]} ELSE broken
    /\ UNCHANGED <<diskVars, wants, reads, joined, once, retained, readBytes, parseVars,
                   noted>>

\* Mutant of Fits: only what is retained already is held against the budget.
FitsBefore(v) == v # Failed /\ readBytes <= MaxReadBytes

(* Under the lock again: the content is admitted, or the slot is dropped   *)
(* and only those who hold it already are given its content.               *)
Fits(v) == v # Failed /\ readBytes + Size[v] <= MaxReadBytes

\* Mutant of Settle: a dropped slot loses its content with its place.
SettleDropping(c) ==
    LET slot == joined[c]
        v    == data[slot]
    IN  /\ Goes(c, "settling", "answered")
        /\ once' = [once EXCEPT ![slot] = Done]
        /\ answer' = [answer EXCEPT ![c] = v]
        /\ IF Fits(v)
           THEN /\ retained' = retained \cup {slot}
                /\ readBytes' = readBytes + Size[v]
                /\ UNCHANGED <<reads, data, noted>>
           ELSE /\ reads' = [reads EXCEPT ![wants[c]] = IF @ = slot THEN None ELSE @]
                /\ data' = [data EXCEPT ![slot] = None]
                /\ noted' = IF v = Failed THEN noted ELSE noted \cup {"read_bytes"}
                /\ UNCHANGED <<retained, readBytes>>
        /\ UNCHANGED <<diskVars, wants, joined, parseVars, opened, broken>>

\* Mutant of Settle: a dropped slot gives back bytes it was never charged.
SettleRefunding(c) ==
    LET slot == joined[c]
        v    == data[slot]
    IN  /\ Goes(c, "settling", "answered")
        /\ once' = [once EXCEPT ![slot] = Done]
        /\ answer' = [answer EXCEPT ![c] = v]
        /\ IF Fits(v)
           THEN /\ retained' = retained \cup {slot}
                /\ readBytes' = readBytes + Size[v]
                /\ UNCHANGED <<reads, noted>>
           ELSE /\ reads' = [reads EXCEPT ![wants[c]] = IF @ = slot THEN None ELSE @]
                /\ readBytes' = IF v = Failed THEN readBytes ELSE readBytes - Size[v]
                /\ noted' = IF v = Failed THEN noted ELSE noted \cup {"read_bytes"}
                /\ UNCHANGED retained
        /\ UNCHANGED <<diskVars, wants, joined, data, parseVars, opened, broken>>

\* Mutant of Settle: the waiting calls are let in only when the content is kept.
SettleWaking(c) ==
    LET slot == joined[c]
        v    == data[slot]
    IN  /\ Goes(c, "settling", "answered")
        /\ answer' = [answer EXCEPT ![c] = v]
        /\ IF Fits(v)
           THEN /\ retained' = retained \cup {slot}
                /\ readBytes' = readBytes + Size[v]
                /\ once' = [once EXCEPT ![slot] = Done]
                /\ UNCHANGED <<reads, noted>>
           ELSE /\ reads' = [reads EXCEPT ![wants[c]] = IF @ = slot THEN None ELSE @]
                /\ noted' = IF v = Failed THEN noted ELSE noted \cup {"read_bytes"}
                /\ UNCHANGED <<once, retained, readBytes>>
        /\ UNCHANGED <<diskVars, wants, joined, data, parseVars, opened, broken>>

Settle(c) ==
    LET slot == joined[c]
        v    == data[slot]
    IN  /\ Goes(c, "settling", "answered")
        /\ once' = [once EXCEPT ![slot] = Done]
        /\ answer' = [answer EXCEPT ![c] = v]
        /\ IF Fits(v)
           THEN /\ retained' = retained \cup {slot}
                /\ readBytes' = readBytes + Size[v]
                /\ UNCHANGED <<reads, noted>>
           ELSE /\ reads' = [reads EXCEPT ![wants[c]] = IF @ = slot THEN None ELSE @]
                /\ noted' = IF v = Failed THEN noted ELSE noted \cup {"read_bytes"}
                /\ UNCHANGED <<retained, readBytes>>
        /\ UNCHANGED <<diskVars, wants, joined, data, parseVars, opened, broken>>

----------------------------------------------------------------------------
(* The call is made for the content alone, or the read failed.             *)
Leave(c) ==
    /\ Goes(c, "answered", "done")
    /\ UNCHANGED <<diskVars, wants, readVars, answer, parseVars, noted, opened, broken>>

\* The parse a call is after, once it has an answer.
Key(c)  == <<wants[c], answer[c]>>
Kind(c) == KindOf[wants[c]]

ParseFits(c) ==
    /\ parseCount[Kind(c)] < MaxParseEntries[Kind(c)]
    /\ parseBytes[Kind(c)] + Cost(Kind(c), answer[c]) <= MaxParseBytes[Kind(c)]

(* parseGo, parseCLike and parseScript, under the lock: the slot of this   *)
(* content, or a new one, whose cost is charged before it is parsed.       *)
FindParse(c) ==
    /\ answer[c] \in Versions
    /\ parses[Key(c)] # None
    /\ Goes(c, "answered", "parsejoined")
    /\ UNCHANGED <<diskVars, wants, readVars, answer, parseVars, noted, opened, broken>>

MakeParse(c) ==
    /\ answer[c] \in Versions
    /\ parses[Key(c)] = None
    /\ ParseFits(c)
    /\ Goes(c, "answered", "parsejoined")
    /\ parses' = [parses EXCEPT ![Key(c)] = Fresh]
    /\ parseBytes' = [parseBytes EXCEPT ![Kind(c)] = @ + Cost(Kind(c), answer[c])]
    /\ parseCount' = [parseCount EXCEPT ![Kind(c)] = @ + 1]
    /\ UNCHANGED <<diskVars, wants, readVars, answer, tree, noted, opened, broken>>

(* Past the budget a Go or C-like file is parsed for this caller only ...  *)
ParseUncached(c) ==
    /\ answer[c] \in Versions
    /\ Kind(c) # "script"
    /\ parses[Key(c)] = None
    /\ ~ParseFits(c)
    /\ Goes(c, "answered", "parsegated")
    /\ noted' = IF Kind(c) = "go" THEN noted \cup {"go_ast"} ELSE noted
    /\ UNCHANGED <<diskVars, wants, readVars, answer, parseVars, opened, broken>>

(* ... and a script is not parsed.                                         *)
RefuseParse(c) ==
    /\ answer[c] \in Versions
    /\ Kind(c) = "script"
    /\ parses[Key(c)] = None
    /\ ~ParseFits(c)
    /\ Goes(c, "answered", "done")
    /\ tree' = [tree EXCEPT ![c] = Refused]
    /\ UNCHANGED <<diskVars, wants, readVars, answer, parses, parseBytes, parseCount,
                   noted, opened, broken>>

(* The slot's sync.Once: one call parses and the others share its tree.    *)
LeadParse(c) ==
    /\ Goes(c, "parsejoined", "parsegated")
    /\ parses[Key(c)] = Fresh
    /\ parses' = [parses EXCEPT ![Key(c)] = c]
    /\ UNCHANGED <<diskVars, wants, readVars, answer, parseBytes, parseCount, tree, noted,
                   opened, broken>>

ShareParse(c) ==
    /\ Goes(c, "parsejoined", "done")
    /\ parses[Key(c)] = Done
    /\ tree' = [tree EXCEPT ![c] = answer[c]]
    /\ UNCHANGED <<diskVars, wants, readVars, answer, parses, parseBytes, parseCount,
                   noted, opened, broken>>

(* goParseWork and scriptParse; parseCLike has no gate.                    *)
EnterParseGate(c) ==
    /\ Goes(c, "parsegated", "parsing")
    /\ Kind(c) # "clike" =>
          Cardinality({d \in Calls : pc[d] = "parsing" /\ Kind(d) = Kind(c)})
              < ParseWorkers[Kind(c)]
    /\ UNCHANGED <<diskVars, wants, readVars, answer, parseVars, noted, opened, broken>>

\* The call whose parse fills the slot, and not one of those past the budget.
Fills(c) == parses[Key(c)] = c

\* Mutant of Parsed: a script gives its bytes back when its tree is made.
ParsedReleasing(c) ==
    /\ Goes(c, "parsing", "done")
    /\ tree' = [tree EXCEPT ![c] = answer[c]]
    /\ parses' = IF Fills(c) THEN [parses EXCEPT ![Key(c)] = Done] ELSE parses
    /\ parseBytes' = [parseBytes EXCEPT ![Kind(c)] = @ - Cost(Kind(c), answer[c])]
    /\ UNCHANGED <<diskVars, wants, readVars, answer, parseCount, noted, opened, broken>>

Parsed(c) ==
    /\ Goes(c, "parsing", "done")
    /\ tree' = [tree EXCEPT ![c] = answer[c]]
    /\ parses' = IF Fills(c) THEN [parses EXCEPT ![Key(c)] = Done] ELSE parses
    /\ UNCHANGED <<diskVars, wants, readVars, answer, parseBytes, parseCount, noted, opened,
                   broken>>

----------------------------------------------------------------------------
CallStep(c) ==
    \/ FindSlot(c) \/ MakeSlot(c) \/ SlotsFull(c) \/ Lead(c) \/ Share(c) \/ EnterGate(c)
    \/ \E content \in Versions \cup {Failed} : ReadDisk(c, content)
    \/ Settle(c)
    \/ Leave(c) \/ FindParse(c) \/ MakeParse(c) \/ ParseUncached(c) \/ RefuseParse(c)
    \/ LeadParse(c) \/ ShareParse(c) \/ EnterParseGate(c) \/ Parsed(c)

Terminated == (\A c \in Calls : pc[c] = "done") /\ UNCHANGED vars

Next == \/ \E c \in Calls : CallStep(c)
        \/ \E f \in Files, v \in Versions : Edit(f, v)
        \/ Terminated

(* Goroutines are scheduled fairly, and disk reads and parses return.      *)
Fairness == \A c \in Calls : WF_vars(CallStep(c))

Spec == Init /\ [][Next]_vars /\ Fairness

----------------------------------------------------------------------------
Contents == Versions \cup {Failed}
Answered == {c \in Calls : pc[c] \in {"answered", "parsejoined", "parsegated", "parsing", "done"}}

\* The variables stay in the shapes the code gives them.
TypeOK ==
    /\ disk \in [Files -> Versions]
    /\ edits \in 0 .. MaxEdits
    /\ wants \in [Calls -> Files]
    /\ pc \in [Calls -> Places]
    /\ reads \in [Files -> Calls \cup {None}]
    /\ joined \in [Calls -> Calls \cup {None}]
    /\ once \in [Calls -> {Fresh, "running", Done}]
    /\ data \in [Calls -> Contents \cup {None}]
    /\ retained \subseteq Calls
    /\ readBytes \in Nat
    /\ answer \in [Calls -> Contents \cup {None}]
    /\ parses \in [Keys -> {None, Fresh, Done} \cup Calls]
    /\ parseBytes \in [Kinds -> Nat]
    /\ parseCount \in [Kinds -> Nat]
    /\ tree \in [Calls -> {None, Refused} \cup Versions]
    /\ noted \subseteq {"read_entries", "read_bytes", "go_ast"}
    /\ opened \in [Files -> Nat]
    /\ broken \subseteq Files

\* What the maps hold, byte by byte: the sizes of these sets are the sums of the
\* lengths of the retained contents and of the costs of the kept parses.
RetainedBytes ==
    UNION {{k} \X (1 .. Size[data[k]]) : k \in {c \in retained : reads[wants[c]] = c}}
KeptParses(kind) == {k \in Keys : KindOf[k[1]] = kind /\ parses[k] # None}
KeptBytes(kind)  == UNION {{k} \X (1 .. Cost(kind, k[2])) : k \in KeptParses(kind)}

\* "The corpus budgets bound what a scan RETAINS": the counters are what is in
\* the maps, and neither they nor the entries pass their limits.
Accounted ==
    /\ readBytes = Cardinality(RetainedBytes)
    /\ readBytes <= MaxReadBytes
    /\ Cardinality(Slots) <= MaxReadEntries
    /\ \A kind \in Kinds :
          /\ parseBytes[kind] = Cardinality(KeptBytes(kind))
          /\ parseBytes[kind] <= MaxParseBytes[kind]
          /\ parseCount[kind] = Cardinality(KeptParses(kind))
          /\ parseCount[kind] <= MaxParseEntries[kind]

\* "No caller ever loses content because the cache ran out of room": a call is
\* answered with a content unless a disk read of its file did fail.
ContentNotLost ==
    \A c \in Answered : answer[c] \in Versions \/ (answer[c] = Failed /\ wants[c] \in broken)

WithinReadBudget == noted \cap {"read_entries", "read_bytes"} = {}

\* "A file is read at most once per scan": by any number of racing calls, as
\* long as nothing went past the read budget and the file could be read.
ReadOnce ==
    WithinReadBudget => \A f \in Files \ broken : opened[f] <= 1

\* Within the budget all calls for a file see the same content, whatever edits
\* and races there are; what sections compare and hash relies on it.
Agreement ==
    WithinReadBudget => \A c, d \in Answered :
        wants[c] = wants[d] /\ wants[c] \notin broken => answer[c] = answer[d]

\* What the corpus serves for f without reading it again.
Kept(f) == IF reads[f] \in retained THEN data[reads[f]] ELSE None

\* Once the content of a file is retained it is served to the end of the scan:
\* no other slot's settling, refusal or failure displaces it.
RetainedForGood == [][\A f \in Files : Kept(f) # None => Kept(f)' = Kept(f)]_vars

\* The script budget depends on who asks first, but what it decides of a file is
\* the same for every section: a content refused once is never parsed after.
ScriptsAllOrNone ==
    \A c, d \in Calls :
        tree[c] = Refused /\ wants[c] = wants[d] => tree[d] # answer[c]

\* Every call is answered, through both gates and every slot.
Termination == <>(\A c \in Calls : pc[c] = "done")
=============================================================================
