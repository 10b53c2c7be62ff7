------------------------- MODULE FileCorpus_proofs -------------------------
(***************************************************************************)
(* Machine-checked proofs about FileCorpus, for any number of calls, files *)
(* and contents and for any budgets, that of zero included.                *)
(***************************************************************************)
EXTENDS FileCorpus, FiniteSetTheorems, TLAPS

Working == {"gated", "reading", "settling"}     \* inside a slot's sync.Once

\* A slot in the map was made by a call for its file; it is there at least until
\* its sync.Once is through, and afterwards exactly if it was retained.
SlotInv ==
    /\ \A f \in Files : reads[f] # None => wants[reads[f]] = f /\ pc[reads[f]] # "new"
    /\ \A c \in Calls : joined[c] # None =>
          /\ pc[c] # "new"
          /\ pc[joined[c]] # "new"
          /\ wants[joined[c]] = wants[c]
          /\ once[joined[c]] # Done => reads[wants[c]] = joined[c]
    /\ \A f \in Files : reads[f] # None /\ once[reads[f]] = Done => reads[f] \in retained
    /\ \A k \in retained : once[k] = Done /\ data[k] \in Versions /\ reads[wants[k]] = k
    /\ \A c \in Calls : pc[c] = "new" => once[c] = Fresh

\* One call at a time is inside a sync.Once, and it leaves a content behind.
OnceInv ==
    /\ \A c \in Calls : pc[c] \in {"joined", "settling"} => joined[c] # None
    /\ \A c \in Calls : pc[c] \in Working /\ joined[c] # None => once[joined[c]] = "running"
    /\ \A c, d \in Calls :
          pc[c] \in Working /\ pc[d] \in Working /\ joined[c] = joined[d] /\ joined[c] # None
              => c = d
    /\ \A c \in Calls : pc[c] = "settling" =>
          data[joined[c]] \in Versions \/ (data[joined[c]] = Failed /\ wants[c] \in broken)
    /\ \A k \in Calls : once[k] = Done =>
          data[k] \in Versions \/ (data[k] = Failed /\ wants[k] \in broken)

\* While nothing went past the read budget, all calls for a file that could be
\* read share its one slot, and only the call inside it opens the file.
SharedInv ==
    WithinReadBudget => \A f \in Files \ broken :
        /\ reads[f] = None => opened[f] = 0
        /\ reads[f] # None =>
              /\ opened[f] <= 1
              /\ once[reads[f]] = Fresh => opened[f] = 0
        /\ \A c \in Calls : wants[c] = f =>
              /\ pc[c] # "new" => reads[f] # None /\ joined[c] = reads[f]
              /\ pc[c] \in {"gated", "reading"} => opened[f] = 0
              /\ c \in Answered => once[reads[f]] = Done /\ answer[c] = data[reads[f]]

\* A call parses the content it was given; a script that is parsed has a slot,
\* and one that was refused has none and never will.
ScriptOf(c) ==
    /\ pc[c] \in {"parsejoined", "parsegated", "parsing"} => answer[c] \in Versions
    /\ pc[c] \in {"parsejoined", "parsegated", "parsing"} /\ Kind(c) = "script" =>
          parses[Key(c)] # None
    /\ tree[c] # None => pc[c] = "done" /\ answer[c] \in Versions
    /\ tree[c] \in Versions => tree[c] = answer[c]
    /\ tree[c] \in Versions /\ Kind(c) = "script" => parses[Key(c)] # None
    /\ tree[c] = Refused =>
          Kind(c) = "script" /\ parses[Key(c)] = None /\ ~ParseFits(c)

ScriptInv == \A c \in Calls : ScriptOf(c)

\* The read budget: what is charged for is there, and within the limits.
ReadBudgetInv ==
    /\ IsFiniteSet(Slots) /\ Cardinality(Slots) <= MaxReadEntries
    /\ IsFiniteSet(RetainedBytes) /\ readBytes = Cardinality(RetainedBytes)
    /\ readBytes <= MaxReadBytes

\* The budget of the parses of a kind.
ParseBudgetOf(kind) ==
    /\ IsFiniteSet(KeptParses(kind))
    /\ parseCount[kind] = Cardinality(KeptParses(kind))
    /\ parseCount[kind] <= MaxParseEntries[kind]
    /\ IsFiniteSet(KeptBytes(kind))
    /\ parseBytes[kind] = Cardinality(KeptBytes(kind))
    /\ parseBytes[kind] <= MaxParseBytes[kind]

ParseBudgetInv == \A kind \in Kinds : ParseBudgetOf(kind)

\* Who keeps others waiting is at work: a call is inside each sync.Once that runs,
\* and the one that fills a parse slot is at its parse.
WaitInv ==
    /\ \A k \in Calls : once[k] = "running" =>
          \E c \in Calls : pc[c] \in Working /\ joined[c] = k
    /\ \A k \in Keys : parses[k] \in Calls =>
          pc[parses[k]] \in {"parsegated", "parsing"} /\ Key(parses[k]) = k
    /\ \A c \in Calls : pc[c] = "parsejoined" =>
          answer[c] \in Versions /\ parses[Key(c)] # None

\* The inductive invariant: whose slot is where, who is inside it, what the calls
\* of one file share, what the script budget decided, and what was charged for.
IInv == TypeOK /\ SlotInv /\ OnceInv /\ ContentNotLost /\ SharedInv /\ ScriptInv
        /\ ReadBudgetInv /\ ParseBudgetInv /\ WaitInv

----------------------------------------------------------------------------
(* A call is at its read first and at its parse afterwards, and neither    *)
(* half touches the variables of the other.                                *)

BeforeAnswer == {"new", "joined", "gated", "reading", "settling"}
AfterAnswer  == {"answered", "parsejoined", "parsegated", "parsing", "done"}

ReadStep(c) ==
    \/ FindSlot(c) \/ MakeSlot(c) \/ SlotsFull(c) \/ Lead(c) \/ Share(c) \/ EnterGate(c)
    \/ \E content \in Versions \cup {Failed} : ReadDisk(c, content)
    \/ Settle(c)

ParseStep(c) ==
    \/ Leave(c) \/ FindParse(c) \/ MakeParse(c) \/ ParseUncached(c) \/ RefuseParse(c)
    \/ LeadParse(c) \/ ShareParse(c) \/ EnterParseGate(c) \/ Parsed(c)

\* The sentinels name no call and no content.
LEMMA Sentinels ==
    /\ None \notin Calls /\ Fresh \notin Calls /\ Done \notin Calls
    /\ None \notin Versions /\ Failed \notin Versions /\ Refused \notin Versions
    /\ None # Refused
  BY SentinelsAssumption DEF None, Failed, Refused, Fresh, Done

\* A parse is never reckoned at less than nothing.
LEMMA CostIsNat == ASSUME NEW k \in Kinds, NEW v \in Versions PROVE Cost(k, v) \in Nat
  <1>1. Size[v] \in Nat
    BY FilesAssumption
  <1> QED
    BY <1>1 DEF Cost, Kinds, goASTBytesPerSourceByte, clikeBytesPerSourceByte

\* A step of a read leaves the parses, and the answers of other calls, alone.
LEMMA ReadFrame ==
    ASSUME TypeOK, NEW c \in Calls, ReadStep(c)
    PROVE  /\ pc[c] \in BeforeAnswer
           /\ pc'[c] \in BeforeAnswer \cup {"answered"}
           /\ \A d \in Calls \ {c} : pc'[d] = pc[d] /\ answer'[d] = answer[d]
           /\ UNCHANGED <<wants, parseVars>>
  BY DEF ReadStep, TypeOK, BeforeAnswer, Goes, FindSlot, MakeSlot, SlotsFull, Lead, Share,
         EnterGate, ReadDisk, Settle, parseVars

\* A step of a parse leaves the slots, the answers and the read budget alone.
LEMMA ParseFrame ==
    ASSUME TypeOK, NEW c \in Calls, ParseStep(c)
    PROVE  /\ pc[c] \in AfterAnswer
           /\ \E to \in AfterAnswer : pc' = [pc EXCEPT ![c] = to]
           /\ UNCHANGED <<wants, readVars, answer, opened, broken>>
           /\ noted' \in {noted, noted \cup {"go_ast"}}
  BY DEF ParseStep, TypeOK, AfterAnswer, Goes, Leave, FindParse, MakeParse, ParseUncached,
         RefuseParse, LeadParse, ShareParse, EnterParseGate, Parsed

----------------------------------------------------------------------------
\* Every step of a call keeps the shapes of the variables.
LEMMA TypeStep ==
    ASSUME TypeOK, OnceInv, ScriptInv, [Next]_vars
    PROVE  TypeOK'
  <1> USE DEF TypeOK, Places, diskVars, readVars, parseVars, Goes
  <1>1. ASSUME NEW f \in Files, NEW v \in Versions, Edit(f, v) PROVE TypeOK'
    BY <1>1, EditsAssumption DEF Edit
  <1>2. ASSUME NEW c \in Calls, FindSlot(c) PROVE TypeOK'
    BY <1>2 DEF FindSlot
  <1>3. ASSUME NEW c \in Calls, MakeSlot(c) PROVE TypeOK'
    BY <1>3 DEF MakeSlot
  <1>4. ASSUME NEW c \in Calls, SlotsFull(c) PROVE TypeOK'
    BY <1>4 DEF SlotsFull
  <1>5. ASSUME NEW c \in Calls, Lead(c) PROVE TypeOK'
    BY <1>5 DEF Lead
  <1>6. ASSUME NEW c \in Calls, Share(c) PROVE TypeOK'
    BY <1>6 DEF Share, OnceInv
  <1>7. ASSUME NEW c \in Calls, EnterGate(c) PROVE TypeOK'
    BY <1>7 DEF EnterGate
  <1>8. ASSUME NEW c \in Calls, NEW v \in Versions \cup {Failed}, ReadDisk(c, v) PROVE TypeOK'
    BY <1>8 DEF ReadDisk, Contents
  <1>9. ASSUME NEW c \in Calls, Settle(c) PROVE TypeOK'
    <2>1. joined[c] \in Calls /\ data[joined[c]] \in Versions \cup {Failed}
      BY <1>9 DEF Settle, OnceInv
    <2>2. Fits(data[joined[c]]) => readBytes + Size[data[joined[c]]] \in Nat
      BY <2>1, FilesAssumption DEF Fits
    <2>3. CASE Fits(data[joined[c]])
      <3>1. /\ readBytes' = readBytes + Size[data[joined[c]]]
            /\ retained' = retained \cup {joined[c]}
            /\ UNCHANGED <<reads, noted>>
        BY <1>9, <2>3 DEF Settle
      <3> QED
        BY <1>9, <2>1, <2>2, <2>3, <3>1 DEF Settle, Contents
    <2>4. CASE ~Fits(data[joined[c]])
      BY <1>9, <2>1, <2>4 DEF Settle, Contents
    <2> QED
      BY <2>3, <2>4
  <1>10. ASSUME NEW c \in Calls, Leave(c) PROVE TypeOK'
    BY <1>10 DEF Leave
  <1>11. ASSUME NEW c \in Calls, FindParse(c) PROVE TypeOK'
    BY <1>11 DEF FindParse
  <1>12. ASSUME NEW c \in Calls, MakeParse(c) PROVE TypeOK'
    BY <1>12, CostIsNat, FilesAssumption DEF MakeParse, Kind, Key, Keys
  <1>13. ASSUME NEW c \in Calls, ParseUncached(c) PROVE TypeOK'
    BY <1>13 DEF ParseUncached
  <1>14. ASSUME NEW c \in Calls, RefuseParse(c) PROVE TypeOK'
    BY <1>14 DEF RefuseParse
  <1>15. ASSUME NEW c \in Calls, LeadParse(c) PROVE TypeOK'
    BY <1>15 DEF LeadParse, Key, Keys
  <1>16. ASSUME NEW c \in Calls, ShareParse(c) PROVE TypeOK'
    BY <1>16 DEF ShareParse, ScriptInv, ScriptOf
  <1>17. ASSUME NEW c \in Calls, EnterParseGate(c) PROVE TypeOK'
    BY <1>17 DEF EnterParseGate
  <1>18. ASSUME NEW c \in Calls, Parsed(c) PROVE TypeOK'
    BY <1>18 DEF Parsed, ScriptInv, ScriptOf
  <1> QED
    BY <1>1, <1>2, <1>3, <1>4, <1>5, <1>6, <1>7, <1>8, <1>9, <1>10, <1>11, <1>12, <1>13,
       <1>14, <1>15, <1>16, <1>17, <1>18
       DEF Next, CallStep, Terminated, vars
----------------------------------------------------------------------------
\* A step is one of a call's read, of a call's parse, or leaves both alone.
LEMMA Steps ==
    ASSUME [Next]_vars
    PROVE  \/ \E c \in Calls : ReadStep(c)
           \/ \E c \in Calls : ParseStep(c)
           \/ UNCHANGED <<wants, pc, readVars, answer, parseVars, noted, opened, broken>>
  BY DEF Next, CallStep, ReadStep, ParseStep, Terminated, Edit, vars

\* A slot stays where the map has it until its sync.Once is through, and for good
\* once it is retained.
LEMMA SlotStep ==
    ASSUME TypeOK, SlotInv, OnceInv, [Next]_vars
    PROVE  SlotInv'
  <1> USE Sentinels DEF TypeOK
  <1>1. CASE UNCHANGED <<wants, pc, readVars, answer, parseVars, noted, opened, broken>>
    BY <1>1 DEF SlotInv, readVars
  <1>2. ASSUME NEW c \in Calls, ParseStep(c) PROVE SlotInv'
    <2>1. pc[c] \in AfterAnswer /\ \E to \in AfterAnswer : pc' = [pc EXCEPT ![c] = to]
      BY <1>2, ParseFrame
    <2>2. \A d \in Calls : pc'[d] = "new" <=> pc[d] = "new"
      BY <2>1 DEF AfterAnswer
    <2> QED
      BY <1>2, <2>2, ParseFrame DEF SlotInv, readVars
  <1>3. ASSUME NEW c \in Calls, ReadStep(c) PROVE SlotInv'
    <2> USE DEF Goes, parseVars, diskVars, readVars
    <2>1. CASE FindSlot(c)
      BY <2>1 DEF FindSlot, SlotInv
    <2>2. CASE MakeSlot(c)
      BY <2>2 DEF MakeSlot, SlotInv, Fresh, Done
    <2>3. CASE SlotsFull(c)
      BY <2>3 DEF SlotsFull, SlotInv
    <2>4. CASE Lead(c)
      BY <2>4 DEF Lead, SlotInv, OnceInv, Fresh, Done
    <2>5. CASE Share(c)
      BY <2>5 DEF Share, SlotInv
    <2>6. CASE EnterGate(c)
      BY <2>6 DEF EnterGate, SlotInv
    <2>7. ASSUME NEW v \in Versions \cup {Failed}, ReadDisk(c, v) PROVE SlotInv'
      BY <2>7 DEF ReadDisk, SlotInv, OnceInv, Working, Done
    <2>8. CASE Settle(c)
      <3>1. /\ joined[c] \in Calls
            /\ once[joined[c]] = "running"
            /\ wants[joined[c]] = wants[c]
            /\ reads[wants[c]] = joined[c]
            /\ data[joined[c]] \in Versions \cup {Failed}
        BY <2>8 DEF Settle, OnceInv, SlotInv, Working, Done
      <3>2. /\ once' = [once EXCEPT ![joined[c]] = Done]
            /\ \A d \in Calls : pc'[d] = "new" <=> pc[d] = "new"
            /\ UNCHANGED <<joined, data, wants>>
        BY <2>8 DEF Settle
      <3>3. CASE Fits(data[joined[c]])
        <4>1. reads' = reads /\ retained' = retained \cup {joined[c]}
          BY <2>8, <3>3 DEF Settle
        <4>2. data[joined[c]] \in Versions
          BY <3>1, <3>3 DEF Fits
        <4> QED
          BY <3>1, <3>2, <4>1, <4>2 DEF SlotInv
      <3>4. CASE ~Fits(data[joined[c]])
        <4>1. reads' = [reads EXCEPT ![wants[c]] = None] /\ retained' = retained
          BY <2>8, <3>1, <3>4 DEF Settle
        <4>2. \A k \in retained : wants[k] # wants[c]
          BY <3>1 DEF SlotInv, Done
        <4>3. \A k \in retained : once'[k] = Done /\ data'[k] \in Versions /\ reads'[wants'[k]] = k
          BY <3>1, <3>2, <4>1, <4>2 DEF SlotInv
        <4> QED
          BY <3>1, <3>2, <4>1, <4>3 DEF SlotInv
      <3> QED
        BY <3>3, <3>4
    <2> QED
      BY <1>3, <2>1, <2>2, <2>3, <2>4, <2>5, <2>6, <2>7, <2>8 DEF ReadStep
  <1> QED
    BY <1>1, <1>2, <1>3, Steps

\* Only one call gets inside a sync.Once, and it does not leave it empty.
LEMMA OnceStep ==
    ASSUME TypeOK, SlotInv, OnceInv, [Next]_vars
    PROVE  OnceInv'
  <1> USE Sentinels DEF TypeOK
  <1>1. CASE UNCHANGED <<wants, pc, readVars, answer, parseVars, noted, opened, broken>>
    BY <1>1 DEF OnceInv, readVars
  <1>2. ASSUME NEW c \in Calls, ParseStep(c) PROVE OnceInv'
    <2>1. pc[c] \in AfterAnswer /\ \E to \in AfterAnswer : pc' = [pc EXCEPT ![c] = to]
      BY <1>2, ParseFrame
    <2>2. \A d \in Calls : pc'[d] = pc[d] \/ (pc[d] \in AfterAnswer /\ pc'[d] \in AfterAnswer)
      BY <2>1
    <2> QED
      BY <1>2, <2>2, ParseFrame DEF OnceInv, readVars, Working, AfterAnswer
  <1>3. ASSUME NEW c \in Calls, ReadStep(c) PROVE OnceInv'
    <2> USE DEF Goes, parseVars, diskVars, readVars, Working
    <2>1. CASE FindSlot(c)
      BY <2>1 DEF FindSlot, OnceInv
    <2>2. CASE MakeSlot(c)
      BY <2>2 DEF MakeSlot, OnceInv
    <2>3. CASE SlotsFull(c)
      BY <2>3 DEF SlotsFull, SlotInv, OnceInv
    <2>4. CASE Lead(c)
      BY <2>4 DEF Lead, OnceInv, Fresh, Done
    <2>5. CASE Share(c)
      BY <2>5 DEF Share, OnceInv
    <2>6. CASE EnterGate(c)
      BY <2>6 DEF EnterGate, OnceInv
    <2>7. ASSUME NEW v \in Versions \cup {Failed}, ReadDisk(c, v) PROVE OnceInv'
      BY <2>7 DEF ReadDisk, OnceInv, Done
    <2>8. CASE Settle(c)
      BY <2>8 DEF Settle, OnceInv, SlotInv, Done
    <2> QED
      BY <1>3, <2>1, <2>2, <2>3, <2>4, <2>5, <2>6, <2>7, <2>8 DEF ReadStep
  <1> QED
    BY <1>1, <1>2, <1>3, Steps

\* A call is answered from a slot that was read, or from the disk itself.
LEMMA AnswerStep ==
    ASSUME TypeOK, SlotInv, OnceInv, ContentNotLost, [Next]_vars
    PROVE  ContentNotLost'
  <1> USE Sentinels DEF TypeOK
  <1>1. CASE UNCHANGED <<wants, pc, readVars, answer, parseVars, noted, opened, broken>>
    BY <1>1 DEF ContentNotLost, Answered
  <1>2. ASSUME NEW c \in Calls, ParseStep(c) PROVE ContentNotLost'
    <2>1. pc[c] \in AfterAnswer /\ \E to \in AfterAnswer : pc' = [pc EXCEPT ![c] = to]
      BY <1>2, ParseFrame
    <2>2. Answered' = Answered
      BY <2>1 DEF Answered, AfterAnswer
    <2> QED
      BY <1>2, <2>2, ParseFrame DEF ContentNotLost
  <1>3. ASSUME NEW c \in Calls, ReadStep(c) PROVE ContentNotLost'
    <2> USE DEF Goes, parseVars, diskVars, readVars, Answered
    <2>1. CASE FindSlot(c) \/ MakeSlot(c) \/ SlotsFull(c) \/ Lead(c) \/ EnterGate(c)
      <3>1. Answered' = Answered /\ UNCHANGED <<answer, wants, broken>>
        BY <2>1 DEF FindSlot, MakeSlot, SlotsFull, Lead, EnterGate
      <3> QED
        BY <3>1 DEF ContentNotLost
    <2>2. CASE Share(c)
      BY <2>2 DEF Share, ContentNotLost, OnceInv, SlotInv
    <2>3. ASSUME NEW v \in Versions \cup {Failed}, ReadDisk(c, v) PROVE ContentNotLost'
      BY <2>3 DEF ReadDisk, ContentNotLost
    <2>4. CASE Settle(c)
      BY <2>4 DEF Settle, ContentNotLost, OnceInv
    <2> QED
      BY <1>3, <2>1, <2>2, <2>3, <2>4 DEF ReadStep
  <1> QED
    BY <1>1, <1>2, <1>3, Steps
\* Going past the budget and failing to be read only ever lift the promise.
LEMMA SharedStep ==
    ASSUME TypeOK, SlotInv, OnceInv, SharedInv, [Next]_vars
    PROVE  SharedInv'
  <1> USE Sentinels DEF TypeOK
  <1>1. CASE UNCHANGED <<wants, pc, readVars, answer, parseVars, noted, opened, broken>>
    BY <1>1 DEF SharedInv, readVars, WithinReadBudget, Answered
  <1>2. ASSUME NEW c \in Calls, ParseStep(c) PROVE SharedInv'
    <2>1. pc[c] \in AfterAnswer /\ \E to \in AfterAnswer : pc' = [pc EXCEPT ![c] = to]
      BY <1>2, ParseFrame
    <2>2. \A d \in Calls : pc'[d] = pc[d] \/ (pc[d] \in AfterAnswer /\ pc'[d] \in AfterAnswer)
      BY <2>1
    <2>3. WithinReadBudget' => WithinReadBudget
      BY <1>2, ParseFrame DEF WithinReadBudget
    <2> QED
      BY <1>2, <2>2, <2>3, ParseFrame DEF SharedInv, readVars, Answered, AfterAnswer
  <1>3. ASSUME NEW c \in Calls, ReadStep(c) PROVE SharedInv'
    <2> USE DEF Goes, parseVars, diskVars, readVars, Answered
    <2>1. (WithinReadBudget' => WithinReadBudget) /\ broken \subseteq broken'
      BY <1>3 DEF ReadStep, FindSlot, MakeSlot, SlotsFull, Lead, Share, EnterGate, ReadDisk,
                  Settle, WithinReadBudget
    <2>2. CASE FindSlot(c)
      BY <2>1, <2>2 DEF FindSlot, SharedInv
    <2>3. CASE MakeSlot(c)
      BY <2>1, <2>3 DEF MakeSlot, SharedInv, SlotInv
    <2>4. CASE SlotsFull(c)
      BY <2>4 DEF SlotsFull, SharedInv, WithinReadBudget
    <2>5. CASE Lead(c)
      BY <2>1, <2>5 DEF Lead, SharedInv, SlotInv, OnceInv, Fresh, Done
    <2>6. CASE Share(c)
      BY <2>1, <2>6 DEF Share, SharedInv, OnceInv
    <2>7. CASE EnterGate(c)
      BY <2>1, <2>7 DEF EnterGate, SharedInv
    <2>8. ASSUME NEW v \in Versions \cup {Failed}, ReadDisk(c, v) PROVE SharedInv'
      BY <2>1, <2>8 DEF ReadDisk, SharedInv, SlotInv, OnceInv, Working, Fresh, Done
    <2>9. CASE Settle(c)
      BY <2>1, <2>9 DEF Settle, Fits, SharedInv, SlotInv, OnceInv, WithinReadBudget, Working,
                        Fresh, Done
    <2> QED
      BY <1>3, <2>2, <2>3, <2>4, <2>5, <2>6, <2>7, <2>8, <2>9 DEF ReadStep
  <1> QED
    BY <1>1, <1>2, <1>3, Steps

\* The counters of a parse budget only grow, so what it refused it refuses again.
LEMMA ScriptStep ==
    ASSUME TypeOK, ScriptInv, [Next]_vars
    PROVE  ScriptInv'
  <1> USE Sentinels DEF TypeOK
  <1> SUFFICES ASSUME NEW d \in Calls PROVE ScriptOf(d)'
    BY DEF ScriptInv
  <1>0. ScriptOf(d)
    BY DEF ScriptInv
  <1>1. CASE UNCHANGED <<wants, pc, readVars, answer, parseVars, noted, opened, broken>>
    BY <1>0, <1>1 DEF ScriptOf, parseVars, Key, Kind, ParseFits
  <1>2. ASSUME NEW c \in Calls, ReadStep(c) PROVE ScriptOf(d)'
    <2>1. CASE d = c
      <3>1. tree[c] = None /\ tree'[c] = None
        BY <1>0, <1>2, <2>1, ReadFrame DEF ScriptOf, BeforeAnswer, parseVars
      <3>2. pc'[c] \notin {"parsejoined", "parsegated", "parsing"}
        BY <1>2, ReadFrame DEF BeforeAnswer
      <3> QED
        BY <2>1, <3>1, <3>2 DEF ScriptOf
    <2>2. CASE d # c
      <3>1. /\ pc'[d] = pc[d] /\ answer'[d] = answer[d]
            /\ UNCHANGED <<wants, parses, parseBytes, parseCount, tree>>
        BY <1>2, <2>2, ReadFrame DEF parseVars
      <3> QED
        BY <1>0, <3>1 DEF ScriptOf, Key, Kind, ParseFits
    <2> QED
      BY <2>1, <2>2
  <1>3. ASSUME NEW c \in Calls, ParseStep(c) PROVE ScriptOf(d)'
    <2>1. /\ UNCHANGED <<wants, answer>>
          /\ d # c => pc'[d] = pc[d]
      BY <1>3, ParseFrame
    <2> USE DEF Goes, readVars, diskVars, parseVars
    <2>2. CASE Leave(c) \/ FindParse(c) \/ ParseUncached(c) \/ EnterParseGate(c)
      <3>1. UNCHANGED <<wants, answer, parses, parseBytes, parseCount, tree>>
        BY <2>2 DEF Leave, FindParse, ParseUncached, EnterParseGate
      <3>2. CASE d # c
        BY <1>0, <2>1, <3>1, <3>2 DEF ScriptOf, Key, Kind, ParseFits
      <3>3. CASE d = c
        BY <1>0, <2>2, <3>1, <3>3
           DEF Leave, FindParse, ParseUncached, EnterParseGate, ScriptOf, Key, Kind, ParseFits
      <3> QED
        BY <3>2, <3>3
    <2>3. CASE RefuseParse(c)
      BY <1>0, <2>1, <2>3 DEF RefuseParse, ScriptOf, Key, Kind, ParseFits
    <2>4. CASE MakeParse(c)
      <3>1. /\ parses[Key(c)] = None /\ ParseFits(c) /\ answer[c] \in Versions
            /\ pc' = [pc EXCEPT ![c] = "parsejoined"]
            /\ pc[c] = "answered"
            /\ parses' = [parses EXCEPT ![Key(c)] = Fresh]
            /\ UNCHANGED <<wants, answer, tree>>
        BY <2>4 DEF MakeParse
      <3>2. \A k \in Keys : parses[k] # None => parses'[k] # None
        BY <3>1 DEF Fresh, None
      <3>3. \A k \in Kinds : /\ parseCount'[k] \in Nat /\ parseCount'[k] >= parseCount[k]
                             /\ parseBytes'[k] \in Nat /\ parseBytes'[k] >= parseBytes[k]
        BY <2>4, CostIsNat, FilesAssumption DEF MakeParse, Kind
      <3>4. tree[d] = Refused => parses'[Key(d)] = None /\ ~ParseFits(d)'
        <4>1. SUFFICES ASSUME tree[d] = Refused PROVE parses'[Key(d)] = None /\ ~ParseFits(d)'
          OBVIOUS
        <4>2. answer[d] \in Versions /\ parses[Key(d)] = None /\ ~ParseFits(d)
          BY <1>0, <4>1 DEF ScriptOf
        <4>3. Key(d) # Key(c)
          BY <3>1, <4>2 DEF Key, Kind, ParseFits
        <4>4. Kind(d) \in Kinds /\ Cost(Kind(d), answer[d]) \in Nat
          BY <4>2, CostIsNat, FilesAssumption DEF Kind
        <4>5. ~ParseFits(d)'
          <5> DEFINE k    == Kind(d)
                     cost == Cost(k, answer[d])
          <5>1. /\ parseCount[k] \in Nat /\ parseCount'[k] \in Nat
                /\ parseBytes[k] \in Nat /\ parseBytes'[k] \in Nat
                /\ parseCount'[k] >= parseCount[k] /\ parseBytes'[k] >= parseBytes[k]
            BY <3>3, <4>4
          <5>2. MaxParseBytes[k] \in Nat /\ MaxParseEntries[k] \in Nat /\ cost \in Nat
            BY <4>4, ParseBudgetAssumption
          <5>3. ~(parseCount[k] < MaxParseEntries[k] /\ parseBytes[k] + cost <= MaxParseBytes[k])
            BY <4>2 DEF ParseFits
          <5>4. ~(parseCount'[k] < MaxParseEntries[k] /\ parseBytes'[k] + cost <= MaxParseBytes[k])
            <6> HIDE DEF k, cost
            <6> QED
              BY <5>1, <5>2, <5>3
          <5> QED
            BY <3>1, <5>4 DEF ParseFits, Kind
        <4> QED
          BY <3>1, <4>2, <4>3, <4>5 DEF Key
      <3> QED
        BY <1>0, <2>1, <3>1, <3>2, <3>4 DEF ScriptOf, Key, Keys, Kind, Fresh, None
    <2>5. CASE LeadParse(c)
      <3>1. \A k \in Keys : (parses[k] = None) <=> (parses'[k] = None)
        BY <2>5 DEF LeadParse, Fresh, None
      <3> QED
        BY <1>0, <2>1, <2>5, <3>1 DEF LeadParse, ScriptOf, Key, Keys, Kind, ParseFits
    <2>6. CASE ShareParse(c)
      BY <1>0, <2>1, <2>6 DEF ShareParse, ScriptOf, Key, Kind, ParseFits, Done, None
    <2>7. CASE Parsed(c)
      <3>1. \A k \in Keys : (parses[k] = None) <=> (parses'[k] = None)
        BY <2>7 DEF Parsed, Fills, Done, None
      <3> QED
        BY <1>0, <2>1, <2>7, <3>1 DEF Parsed, ScriptOf, Key, Keys, Kind, ParseFits
    <2> QED
      BY <1>3, <2>2, <2>3, <2>4, <2>5, <2>6, <2>7 DEF ParseStep
  <1> QED
    BY <1>1, <1>2, <1>3, Steps
----------------------------------------------------------------------------
\* A content or a tree that is added takes up as many bytes as it is charged.
LEMMA AddBytes ==
    ASSUME NEW S, IsFiniteSet(S), NEW k, NEW n \in Nat, \A b \in S : b[1] # k
    PROVE  /\ IsFiniteSet(S \cup ({k} \X (1 .. n)))
           /\ Cardinality(S \cup ({k} \X (1 .. n))) = Cardinality(S) + n
  <1> DEFINE B == {k} \X (1 .. n)
  <1>1. IsFiniteSet(B) /\ Cardinality(B) = n
    <2>1. IsFiniteSet(1 .. n) /\ Cardinality(1 .. n) = n
      BY FS_Interval
    <2>2. IsFiniteSet({k}) /\ Cardinality({k}) = 1
      BY FS_Singleton
    <2> QED
      BY <2>1, <2>2, FS_Product
  <1>2. S \cap B = {}
    OBVIOUS
  <1> HIDE DEF B
  <1>3. /\ IsFiniteSet(S \cup B)
        /\ Cardinality(S \cup B) = Cardinality(S) + Cardinality(B) - Cardinality(S \cap B)
    BY <1>1, FS_Union
  <1>4. Cardinality(S) \in Nat /\ Cardinality(S \cap B) = 0
    BY <1>2, FS_CardinalityType, FS_EmptySet
  <1> QED
    BY <1>1, <1>3, <1>4 DEF B

\* Retained slots are those of the map, so their bytes are all that is held.
LEMMA BytesRetained ==
    ASSUME SlotInv
    PROVE  RetainedBytes = UNION {{k} \X (1 .. Size[data[k]]) : k \in retained}
  <1>1. {c \in retained : reads[wants[c]] = c} = retained
    BY DEF SlotInv
  <1> QED
    BY <1>1 DEF RetainedBytes

\* Only a content that fits is charged for, and it was not before.
LEMMA ReadBudgetStep ==
    ASSUME TypeOK, SlotInv, OnceInv, ReadBudgetInv, SlotInv', [Next]_vars
    PROVE  ReadBudgetInv'
  <1> USE Sentinels DEF TypeOK
  <1>0. /\ RetainedBytes = UNION {{k} \X (1 .. Size[data[k]]) : k \in retained}
        /\ RetainedBytes' = UNION {{k} \X (1 .. Size[data'[k]]) : k \in retained'}
    <2>1. RetainedBytes = UNION {{k} \X (1 .. Size[data[k]]) : k \in retained}
      BY BytesRetained
    <2>2. {c \in retained' : reads'[wants'[c]] = c} = retained'
      BY DEF SlotInv
    <2> QED
      BY <2>1, <2>2 DEF RetainedBytes
  <1>1. ASSUME UNCHANGED <<retained, readBytes>>, Slots' \subseteq Slots,
               \A k \in retained : data'[k] = data[k]
        PROVE  ReadBudgetInv'
    <2>1. RetainedBytes' = RetainedBytes
      BY <1>0, <1>1
    <2>2. IsFiniteSet(Slots') /\ Cardinality(Slots') <= Cardinality(Slots)
      BY <1>1, FS_Subset DEF ReadBudgetInv
    <2>3. Cardinality(Slots) \in Nat /\ Cardinality(Slots') \in Nat
      BY <2>2, FS_CardinalityType DEF ReadBudgetInv
    <2> QED
      BY <1>1, <2>1, <2>2, <2>3, ReadBudgetAssumption DEF ReadBudgetInv
  <1>2. CASE UNCHANGED readVars
    BY <1>1, <1>2 DEF readVars, Slots
  <1>3. ASSUME NEW c \in Calls, ReadStep(c) PROVE ReadBudgetInv'
    <2> USE DEF Goes, parseVars, diskVars, readVars
    <2>1. CASE FindSlot(c) \/ SlotsFull(c) \/ Lead(c) \/ Share(c) \/ EnterGate(c)
      BY <1>1, <2>1 DEF FindSlot, SlotsFull, Lead, Share, EnterGate, Slots
    <2>2. CASE MakeSlot(c)
      <3>1. UNCHANGED <<retained, readBytes, data>> /\ Slots' = Slots \cup {wants[c]}
            /\ wants[c] \notin Slots
        BY <2>2 DEF MakeSlot, Slots
      <3>2. RetainedBytes' = RetainedBytes
        BY <1>0, <3>1
      <3>3. IsFiniteSet(Slots') /\ Cardinality(Slots') = Cardinality(Slots) + 1
        BY <3>1, FS_AddElement DEF ReadBudgetInv
      <3>4. Cardinality(Slots) \in Nat /\ Cardinality(Slots) < MaxReadEntries
        BY <2>2, FS_CardinalityType DEF ReadBudgetInv, MakeSlot
      <3> QED
        BY <3>1, <3>2, <3>3, <3>4, ReadBudgetAssumption DEF ReadBudgetInv
    <2>3. ASSUME NEW v \in Versions \cup {Failed}, ReadDisk(c, v) PROVE ReadBudgetInv'
      <3>1. \A k \in retained : data'[k] = data[k]
        BY <2>3 DEF ReadDisk, SlotInv, OnceInv, Working, Done
      <3> QED
        BY <1>1, <2>3, <3>1 DEF ReadDisk, Slots
    <2>4. CASE Settle(c)
      <3> DEFINE slot == joined[c]
                 v    == data[slot]
      <3>1. slot \in Calls /\ once[slot] = "running" /\ slot \notin retained
        BY <2>4 DEF Settle, OnceInv, SlotInv, Working, Done
      <3>2. CASE ~Fits(v)
        BY <1>1, <2>4, <3>2 DEF Settle, Slots
      <3>3. CASE Fits(v)
        <4>1. /\ retained' = retained \cup {slot}
              /\ readBytes' = readBytes + Size[v]
              /\ UNCHANGED <<reads, data>>
          BY <2>4, <3>3 DEF Settle
        <4>2. v \in Versions /\ Size[v] \in Nat /\ readBytes + Size[v] <= MaxReadBytes
          BY <2>4, <3>3, FilesAssumption DEF Settle, OnceInv, Fits
        <4> HIDE DEF slot, v
        <4>3. RetainedBytes' = RetainedBytes \cup ({slot} \X (1 .. Size[v]))
          BY <1>0, <4>1 DEF v
        <4>4. \A b \in RetainedBytes : b[1] # slot
          BY <1>0, <3>1
        <4>5. /\ IsFiniteSet(RetainedBytes')
              /\ Cardinality(RetainedBytes') = Cardinality(RetainedBytes) + Size[v]
          BY <4>2, <4>3, <4>4, AddBytes DEF ReadBudgetInv
        <4>6. Slots' = Slots
          BY <4>1 DEF Slots
        <4> QED
          BY <4>1, <4>2, <4>5, <4>6 DEF ReadBudgetInv
      <3> QED
        BY <3>2, <3>3
    <2> QED
      BY <1>3, <2>1, <2>2, <2>3, <2>4 DEF ReadStep
  <1> QED
    BY <1>2, <1>3, Steps, ParseFrame

\* A parse is charged for when it gets its place, and nothing is given back.
LEMMA ParseBudgetStep ==
    ASSUME TypeOK, ScriptInv, ParseBudgetInv, [Next]_vars
    PROVE  ParseBudgetInv'
  <1> USE Sentinels DEF TypeOK
  <1>1. ASSUME UNCHANGED <<parseBytes, parseCount>>,
               \A k \in Keys : (parses'[k] = None) <=> (parses[k] = None)
        PROVE  ParseBudgetInv'
    <2>1. ASSUME NEW kind \in Kinds PROVE ParseBudgetOf(kind)'
      <3>1. KeptParses(kind)' = KeptParses(kind)
        BY <1>1 DEF KeptParses
      <3>2. KeptBytes(kind)' = KeptBytes(kind)
        BY <3>1 DEF KeptBytes
      <3> QED
        BY <1>1, <2>1, <3>1, <3>2 DEF ParseBudgetInv, ParseBudgetOf
    <2> QED
      BY <2>1 DEF ParseBudgetInv
  <1>2. CASE UNCHANGED parseVars
    BY <1>1, <1>2 DEF parseVars
  <1>3. ASSUME NEW c \in Calls, ParseStep(c) PROVE ParseBudgetInv'
    <2> USE DEF Goes, readVars, diskVars, parseVars
    <2>1. CASE Leave(c) \/ FindParse(c) \/ ParseUncached(c) \/ RefuseParse(c) \/ ShareParse(c)
               \/ EnterParseGate(c)
      BY <1>1, <2>1 DEF Leave, FindParse, ParseUncached, RefuseParse, ShareParse, EnterParseGate
    <2>2. CASE LeadParse(c)
      BY <1>1, <2>2 DEF LeadParse, Fresh, None
    <2>3. CASE Parsed(c)
      BY <1>1, <2>3 DEF Parsed, Fills, Done, None
    <2>4. CASE MakeParse(c)
      <3>1. PICK own \in Kinds, key \in Keys :
               /\ own = Kind(c) /\ key = Key(c)
               /\ own = KindOf[key[1]] /\ key[2] = answer[c] /\ answer[c] \in Versions
        BY <2>4, FilesAssumption DEF MakeParse, Kind, Key, Keys
      <3>2. PICK cost \in Nat : cost = Cost(own, key[2])
        BY <3>1, CostIsNat
      <3>3. /\ parses[key] = None
            /\ parseCount[own] < MaxParseEntries[own]
            /\ parseBytes[own] + cost <= MaxParseBytes[own]
            /\ parses' = [parses EXCEPT ![key] = Fresh]
            /\ parseBytes' = [parseBytes EXCEPT ![own] = @ + cost]
            /\ parseCount' = [parseCount EXCEPT ![own] = @ + 1]
        BY <2>4, <3>1, <3>2 DEF MakeParse, ParseFits
      <3>4. ASSUME NEW kind \in Kinds, kind # own PROVE ParseBudgetOf(kind)'
        <4>1. KeptParses(kind)' = KeptParses(kind)
          BY <3>1, <3>3, <3>4 DEF KeptParses
        <4>2. KeptBytes(kind)' = KeptBytes(kind)
          BY <4>1 DEF KeptBytes
        <4> QED
          BY <3>3, <3>4, <4>1, <4>2 DEF ParseBudgetInv, ParseBudgetOf
      <3>5. ParseBudgetOf(own)'
        <4>0. ParseBudgetOf(own)
          BY <3>1 DEF ParseBudgetInv
        <4>1. KeptParses(own)' = KeptParses(own) \cup {key} /\ key \notin KeptParses(own)
          BY <3>1, <3>3 DEF KeptParses, Fresh, None
        <4>2. KeptBytes(own)' = KeptBytes(own) \cup ({key} \X (1 .. cost))
          BY <3>2, <4>1 DEF KeptBytes
        <4>3. \A b \in KeptBytes(own) : b[1] # key
          BY <4>1 DEF KeptBytes
        <4>4. /\ IsFiniteSet(KeptBytes(own)')
              /\ Cardinality(KeptBytes(own)') = Cardinality(KeptBytes(own)) + cost
          <5> DEFINE S == KeptBytes(own)
          <5>1. IsFiniteSet(S) /\ \A b \in S : b[1] # key
            BY <4>0, <4>3 DEF ParseBudgetOf
          <5> HIDE DEF S
          <5>2. /\ IsFiniteSet(S \cup ({key} \X (1 .. cost)))
                /\ Cardinality(S \cup ({key} \X (1 .. cost))) = Cardinality(S) + cost
            BY <5>1, AddBytes
          <5> QED
            BY <4>2, <5>2 DEF S
        <4>5. /\ IsFiniteSet(KeptParses(own)')
              /\ Cardinality(KeptParses(own)') = Cardinality(KeptParses(own)) + 1
          BY <4>0, <4>1, FS_AddElement DEF ParseBudgetOf
        <4>6. /\ parseCount'[own] = parseCount[own] + 1 /\ parseBytes'[own] = parseBytes[own] + cost
              /\ parseCount[own] \in Nat /\ MaxParseEntries[own] \in Nat
          BY <3>3, ParseBudgetAssumption
        <4> QED
          BY <3>3, <4>0, <4>4, <4>5, <4>6 DEF ParseBudgetOf
      <3> QED
        BY <3>4, <3>5 DEF ParseBudgetInv
    <2> QED
      BY <1>3, <2>1, <2>2, <2>3, <2>4 DEF ParseStep
  <1> QED
    BY <1>2, <1>3, Steps, ReadFrame
----------------------------------------------------------------------------
\* A sync.Once and a parse slot are left by whoever entered them.
LEMMA WaitStep ==
    ASSUME TypeOK, SlotInv, OnceInv, ScriptInv, WaitInv, [Next]_vars
    PROVE  WaitInv'
  <1> USE Sentinels DEF TypeOK
  <1>1. CASE UNCHANGED <<wants, pc, readVars, answer, parseVars, noted, opened, broken>>
    BY <1>1 DEF WaitInv, Key, readVars, parseVars
  <1>2. ASSUME NEW c \in Calls, ReadStep(c) PROVE WaitInv'
    <2>1. (/\ \A k \in Keys : parses[k] \in Calls =>
                 pc[parses[k]] \in {"parsegated", "parsing"} /\ Key(parses[k]) = k
           /\ \A d \in Calls : pc[d] = "parsejoined" =>
                 answer[d] \in Versions /\ parses[Key(d)] # None)'
      <3>1. /\ pc[c] \in BeforeAnswer /\ pc'[c] \in BeforeAnswer \cup {"answered"}
            /\ \A d \in Calls \ {c} : pc'[d] = pc[d] /\ answer'[d] = answer[d]
            /\ UNCHANGED <<wants, parses>>
        BY <1>2, ReadFrame DEF parseVars
      <3>2. \A k \in Keys : parses[k] \in Calls => parses[k] # c
        BY <3>1 DEF WaitInv, BeforeAnswer
      <3>3. \A d \in Calls : pc'[d] = "parsejoined" => d # c
        BY <3>1 DEF BeforeAnswer
      <3> QED
        BY <3>1, <3>2, <3>3 DEF WaitInv, Key
    <2>2. \A k \in Calls : once'[k] = "running" =>
             \E d \in Calls : pc'[d] \in Working /\ joined'[d] = k
      <3> USE DEF Goes, parseVars, diskVars, readVars, Working
      <3>1. CASE FindSlot(c) \/ MakeSlot(c) \/ SlotsFull(c) \/ Share(c) \/ EnterGate(c)
        <4>1. /\ once' = once
              /\ \A d \in Calls : pc[d] \in Working =>
                    pc'[d] \in Working /\ joined'[d] = joined[d]
          BY <3>1 DEF FindSlot, MakeSlot, SlotsFull, Share, EnterGate
        <4> QED
          BY <4>1 DEF WaitInv
      <3>2. CASE Lead(c)
        <4>1. /\ once' = [once EXCEPT ![joined[c]] = "running"] /\ joined' = joined
              /\ pc'[c] = "gated" /\ \A d \in Calls : pc[d] \in Working => pc'[d] \in Working
          BY <3>2 DEF Lead
        <4> QED
          BY <4>1 DEF WaitInv
      <3>3. ASSUME NEW v \in Versions \cup {Failed}, ReadDisk(c, v)
            PROVE  \A k \in Calls : once'[k] = "running" =>
                      \E d \in Calls : pc'[d] \in Working /\ joined'[d] = k
        <4>1. /\ once' = once /\ joined' = joined
              /\ \A d \in Calls : pc[d] \in Working /\ joined[d] # None => pc'[d] \in Working
          BY <3>3 DEF ReadDisk
        <4> QED
          BY <4>1 DEF WaitInv
      <3>4. CASE Settle(c)
        <4>1. /\ once' = [once EXCEPT ![joined[c]] = Done] /\ joined' = joined
              /\ \A d \in Calls : d # c => pc'[d] = pc[d]
              /\ joined[c] \in Calls
          BY <3>4 DEF Settle, OnceInv
        <4> QED
          BY <4>1 DEF WaitInv, Done
      <3> QED
        BY <1>2, <3>1, <3>2, <3>3, <3>4 DEF ReadStep
    <2> QED
      BY <2>1, <2>2 DEF WaitInv
  <1>3. ASSUME NEW c \in Calls, ParseStep(c) PROVE WaitInv'
    <2>0. /\ pc[c] \in AfterAnswer /\ \E to \in AfterAnswer : pc' = [pc EXCEPT ![c] = to]
          /\ UNCHANGED <<wants, joined, once, answer>>
      BY <1>3, ParseFrame DEF readVars
    <2>1. \A k \in Calls : once'[k] = "running" =>
             \E d \in Calls : pc'[d] \in Working /\ joined'[d] = k
      <3>1. \A d \in Calls : pc[d] \in Working => pc'[d] = pc[d]
        BY <2>0 DEF Working, AfterAnswer
      <3> QED
        BY <2>0, <3>1 DEF WaitInv
    <2>2. (\A k \in Keys : parses[k] \in Calls =>
              pc[parses[k]] \in {"parsegated", "parsing"} /\ Key(parses[k]) = k)'
      <3> USE <2>0 DEF Goes, readVars, diskVars, parseVars
      <3>1. CASE Leave(c) \/ FindParse(c) \/ ParseUncached(c) \/ RefuseParse(c) \/ ShareParse(c)
                 \/ EnterParseGate(c)
        <4>1. /\ parses' = parses
              /\ \A d \in Calls : pc[d] \in {"parsegated", "parsing"} =>
                    pc'[d] \in {"parsegated", "parsing"}
          BY <3>1 DEF Leave, FindParse, ParseUncached, RefuseParse, ShareParse, EnterParseGate
        <4> QED
          BY <4>1 DEF WaitInv, Key
      <3>2. CASE MakeParse(c)
        BY <3>2 DEF MakeParse, WaitInv, Key
      <3>3. CASE LeadParse(c)
        BY <3>3 DEF LeadParse, WaitInv, Key
      <3>4. CASE Parsed(c)
        <4>1. \A k \in Keys : parses'[k] \in Calls => parses'[k] = parses[k] /\ parses[k] # c
          BY <3>4 DEF Parsed, Fills, WaitInv
        <4> QED
          BY <3>4, <4>1 DEF Parsed, WaitInv, Key
      <3> QED
        BY <1>3, <3>1, <3>2, <3>3, <3>4 DEF ParseStep
    <2>3. ASSUME NEW d \in Calls, pc'[d] = "parsejoined"
          PROVE  answer'[d] \in Versions /\ parses'[Key(d)'] # None
      <3> USE <2>0, <2>3 DEF Goes, readVars, diskVars, parseVars
      <3>0. Key(d)' = Key(d) /\ \A k \in Keys : parses[k] # None => parses'[k] # None
        BY <1>3
           DEF ParseStep, Leave, FindParse, ParseUncached, RefuseParse, ShareParse, EnterParseGate,
               MakeParse, LeadParse, Parsed, Key, Fresh, Done, None
      <3>1. CASE pc[d] = "parsejoined"
        <4>1. answer[d] \in Versions /\ parses[Key(d)] # None /\ Key(d) \in Keys
          BY <3>1 DEF WaitInv, Key, Keys
        <4> QED
          BY <3>0, <4>1
      <3>2. CASE pc[d] # "parsejoined"
        <4>1. d = c /\ (FindParse(c) \/ MakeParse(c))
          BY <1>3, <3>2
             DEF ParseStep, Leave, ParseUncached, RefuseParse, ShareParse, EnterParseGate,
                 LeadParse, Parsed
        <4>2. answer[d] \in Versions /\ Key(d) \in Keys
          BY <4>1 DEF FindParse, MakeParse, Key, Keys
        <4>3. parses'[Key(d)] # None
          BY <3>0, <4>1, <4>2 DEF FindParse, MakeParse, Fresh, None
        <4> QED
          BY <3>0, <4>2, <4>3
      <3> QED
        BY <3>1, <3>2
    <2> QED
      BY <2>1, <2>2, <2>3 DEF WaitInv
  <1> QED
    BY <1>1, <1>2, <1>3, Steps
----------------------------------------------------------------------------
\* The invariant holds when the scan starts with an empty corpus.
LEMMA InitInv == Init => IInv
  <1> SUFFICES ASSUME Init PROVE IInv
    OBVIOUS
  <1> USE Sentinels DEF Init
  <1>1. TypeOK
    BY WantedAssumption, EditsAssumption DEF TypeOK, Places
  <1>2. SlotInv /\ OnceInv
    BY DEF SlotInv, OnceInv, Working, Fresh, Done
  <1>3. ContentNotLost /\ SharedInv
    BY DEF ContentNotLost, SharedInv, Answered
  <1>4. ScriptInv
    BY DEF ScriptInv, ScriptOf
  <1>5. ReadBudgetInv /\ ParseBudgetInv
    <2>1. Slots = {} /\ RetainedBytes = {}
      BY DEF Slots, RetainedBytes
    <2>2. \A kind \in Kinds : KeptParses(kind) = {} /\ KeptBytes(kind) = {}
      BY DEF KeptParses, KeptBytes
    <2>3. ReadBudgetInv
      BY <2>1, FS_EmptySet, ReadBudgetAssumption DEF ReadBudgetInv
    <2>4. ASSUME NEW kind \in Kinds PROVE ParseBudgetOf(kind)
      <3>1. MaxParseBytes[kind] \in Nat /\ MaxParseEntries[kind] \in Nat
        BY ParseBudgetAssumption
      <3> QED
        BY <2>2, <3>1, FS_EmptySet DEF ParseBudgetOf
    <2> QED
      BY <2>3, <2>4 DEF ParseBudgetInv
  <1>6. WaitInv
    BY DEF WaitInv, Fresh, Working
  <1> QED
    BY <1>1, <1>2, <1>3, <1>4, <1>5, <1>6 DEF IInv

\* Every step of the corpus keeps it.
LEMMA StepInv == IInv /\ [Next]_vars => IInv'
  BY TypeStep, SlotStep, OnceStep, AnswerStep, SharedStep, ScriptStep, ReadBudgetStep,
     ParseBudgetStep, WaitStep
     DEF IInv

\* The inductive invariant holds throughout every scan.
THEOREM InvariantHolds == Spec => []IInv
  BY InitInv, StepInv, PTL DEF Spec

\* Every variable of the corpus keeps its shape, for any number of calls and files.
THEOREM TypeCorrect == Spec => []TypeOK
  <1>1. IInv => TypeOK
    BY DEF IInv
  <1> QED
    BY <1>1, InvariantHolds, PTL

\* The counters of every budget are what its maps hold, and no limit is passed,
\* however many slots are made, declined and dropped at the same time.
THEOREM BudgetsHold == Spec => []Accounted
  <1>1. IInv => Accounted
    BY DEF IInv, ReadBudgetInv, ParseBudgetInv, ParseBudgetOf, Accounted
  <1> QED
    BY <1>1, InvariantHolds, PTL

\* No budget and no race costs a caller the content of a file that could be read.
THEOREM ContentIsNotLost == Spec => []ContentNotLost
  <1>1. IInv => ContentNotLost
    BY DEF IInv
  <1> QED
    BY <1>1, InvariantHolds, PTL

\* Within the read budget a file is opened once, however many calls race for it.
THEOREM FilesAreReadOnce == Spec => []ReadOnce
  <1>1. IInv => ReadOnce
    BY DEF IInv, ReadOnce, SharedInv, TypeOK
  <1> QED
    BY <1>1, InvariantHolds, PTL

\* Within the read budget every call for a file is given the same content.
THEOREM CallsAgree == Spec => []Agreement
  <1>1. IInv => Agreement
    <2> SUFFICES ASSUME IInv, WithinReadBudget, NEW c \in Answered, NEW d \in Answered,
                        wants[c] = wants[d], wants[c] \notin broken
                 PROVE  answer[c] = answer[d]
      BY DEF Agreement
    <2> QED
      BY DEF IInv, SharedInv, TypeOK, Answered
  <1> QED
    BY <1>1, InvariantHolds, PTL

\* What the script budget decides of a content it decides for every section.
THEOREM ScriptsAgree == Spec => []ScriptsAllOrNone
  <1>1. IInv => ScriptsAllOrNone
    <2> SUFFICES ASSUME IInv, NEW c \in Calls, NEW d \in Calls,
                        tree[c] = Refused, wants[c] = wants[d], tree[d] = answer[c]
                 PROVE  FALSE
      BY DEF ScriptsAllOrNone
    <2>1. ScriptOf(c) /\ ScriptOf(d)
      BY DEF IInv, ScriptInv
    <2>2. tree[d] \in Versions /\ tree[d] = answer[d]
      BY <2>1, Sentinels DEF ScriptOf
    <2>3. Key(d) = Key(c) /\ Kind(d) = Kind(c)
      BY <2>2 DEF Key, Kind
    <2> QED
      BY <2>1, <2>2, <2>3 DEF ScriptOf
  <1> QED
    BY <1>1, InvariantHolds, PTL

\* A retained content is displaced by no other slot that settles, fails or is refused.
LEMMA KeptStays ==
    ASSUME IInv, [Next]_vars, NEW f \in Files, Kept(f) # None
    PROVE  Kept(f)' = Kept(f)
  <1> USE Sentinels DEF IInv, TypeOK
  <1> DEFINE k == reads[f]
  <1>1. k \in retained /\ k \in Calls /\ once[k] = Done /\ wants[k] = f
    BY DEF Kept, SlotInv
  <1>2. CASE UNCHANGED <<wants, pc, readVars, answer, parseVars, noted, opened, broken>>
    BY <1>2 DEF Kept, readVars
  <1>3. ASSUME NEW c \in Calls, ParseStep(c) PROVE Kept(f)' = Kept(f)
    BY <1>3, ParseFrame DEF Kept, readVars
  <1>4. ASSUME NEW c \in Calls, ReadStep(c) PROVE Kept(f)' = Kept(f)
    <2> SUFFICES reads'[f] = k /\ k \in retained' /\ data'[k] = data[k]
      BY <1>1 DEF Kept
    <2> USE DEF Goes, parseVars, diskVars, readVars
    <2>1. CASE FindSlot(c) \/ MakeSlot(c) \/ SlotsFull(c) \/ Lead(c) \/ Share(c) \/ EnterGate(c)
      BY <1>1, <2>1 DEF FindSlot, MakeSlot, SlotsFull, Lead, Share, EnterGate
    <2>2. ASSUME NEW v \in Versions \cup {Failed}, ReadDisk(c, v)
          PROVE  reads'[f] = k /\ k \in retained' /\ data'[k] = data[k]
      <3>1. joined[c] = k => once[k] = "running"
        BY <1>1, <2>2 DEF ReadDisk, OnceInv, Working
      <3> QED
        BY <1>1, <2>2, <3>1 DEF ReadDisk, Done
    <2>3. CASE Settle(c)
      <3>1. joined[c] # k
        BY <1>1, <2>3 DEF Settle, OnceInv, Working, Done
      <3> QED
        BY <1>1, <2>3, <3>1 DEF Settle
    <2> QED
      BY <1>4, <2>1, <2>2, <2>3 DEF ReadStep
  <1> QED
    BY <1>2, <1>3, <1>4, Steps

\* Once retained, a content is served to the end of the scan.
THEOREM RetentionIsForGood == Spec => RetainedForGood
  <1>1. IInv /\ [Next]_vars => [\A f \in Files : Kept(f) # None => Kept(f)' = Kept(f)]_vars
    BY KeptStays
  <1> QED
    BY <1>1, InvariantHolds, PTL DEF Spec, RetainedForGood

----------------------------------------------------------------------------
\* No slot is turned away while there is an entry for every file, and no content
\* while there are bytes for the longest content of every file.
LEMMA RoomStep ==
    ASSUME IsFiniteSet(Files), Cardinality(Files) <= MaxReadEntries,
           NEW longest \in Nat, \A v \in Versions : Size[v] <= longest,
           Cardinality(Files) * longest <= MaxReadBytes,
           IInv, WithinReadBudget, [Next]_vars
    PROVE  WithinReadBudget'
  <1> USE Sentinels DEF IInv, TypeOK, WithinReadBudget
  <1>0. Cardinality(Files) \in Nat
    BY FS_CardinalityType
  <1>1. ASSUME NEW f \in Files
        PROVE  /\ IsFiniteSet(Files \ {f})
               /\ Cardinality(Files \ {f}) \in Nat
               /\ Cardinality(Files) = Cardinality(Files \ {f}) + 1
    <2>1. IsFiniteSet(Files \ {f}) /\ Cardinality(Files \ {f}) = Cardinality(Files) - 1
      BY FS_RemoveElement
    <2>2. Cardinality(Files \ {f}) \in Nat
      BY <2>1, FS_CardinalityType
    <2> QED
      BY <1>0, <2>1, <2>2
  <1>2. CASE UNCHANGED noted
    BY <1>2
  <1>3. ASSUME NEW c \in Calls, ParseStep(c) PROVE WithinReadBudget'
    BY <1>3, ParseFrame
  <1>4. ASSUME NEW c \in Calls, SlotsFull(c) PROVE FALSE
    <2>1. Slots \subseteq Files \ {wants[c]}
      BY <1>4 DEF SlotsFull, Slots
    <2>2. /\ Cardinality(Slots) <= Cardinality(Files \ {wants[c]})
          /\ Cardinality(Files \ {wants[c]}) \in Nat
          /\ Cardinality(Files) = Cardinality(Files \ {wants[c]}) + 1
      BY <1>1, <2>1, FS_Subset
    <2>3. Cardinality(Slots) >= MaxReadEntries /\ Cardinality(Slots) \in Nat
      BY <1>4, FS_CardinalityType DEF SlotsFull, ReadBudgetInv
    <2> QED
      BY <2>2, <2>3, ReadBudgetAssumption
  <1>5. ASSUME NEW c \in Calls, Settle(c) PROVE WithinReadBudget'
    <2> DEFINE slot == joined[c]
               v    == data[slot]
               rest == Files \ {wants[c]}
               file == [b \in RetainedBytes |-> <<wants[b[1]], b[2]>>]
    <2>1. slot \in Calls /\ slot \notin retained /\ reads[wants[c]] = slot
      BY <1>5 DEF Settle, Goes, OnceInv, SlotInv, Working, Done
    <2>2. CASE v = Failed \/ Fits(v)
      BY <1>5, <2>2 DEF Settle
    <2>3. CASE v # Failed /\ ~Fits(v)
      <3>1. v \in Versions /\ Size[v] \in Nat /\ Size[v] <= longest
        BY <1>5, <2>3, FilesAssumption DEF Settle, Goes, OnceInv
      <3>2. readBytes + Size[v] > MaxReadBytes
        BY <2>3, <3>1, ReadBudgetAssumption DEF Fits
      <3>3. ASSUME NEW b \in RetainedBytes
            PROVE  /\ b = <<b[1], b[2]>>
                   /\ b[1] \in retained
                   /\ b[2] \in 1 .. longest
                   /\ wants[b[1]] \in rest
                   /\ reads[wants[b[1]]] = b[1]
        <4>1. PICK k \in retained : b \in {k} \X (1 .. Size[data[k]])
          BY BytesRetained
        <4>2. data[k] \in Versions /\ reads[wants[k]] = k /\ k \in Calls
          BY DEF SlotInv
        <4>3. Size[data[k]] \in Nat /\ Size[data[k]] <= longest
          BY <4>2, FilesAssumption
        <4> QED
          BY <2>1, <4>1, <4>2, <4>3
      <3>4. file \in Injection(RetainedBytes, rest \X (1 .. longest))
        <4>1. file \in [RetainedBytes -> rest \X (1 .. longest)]
          BY <3>3
        <4>2. ASSUME NEW a \in RetainedBytes, NEW b \in RetainedBytes, file[a] = file[b]
              PROVE  a = b
          <5>1. wants[a[1]] = wants[b[1]] /\ a[2] = b[2]
            BY <4>2
          <5> QED
            BY <3>3, <5>1
        <4> HIDE DEF file
        <4> QED
          BY <4>1, <4>2 DEF Injection, IsInjective
      <3> HIDE DEF rest, file
      <3>5. /\ IsFiniteSet(rest \X (1 .. longest))
            /\ Cardinality(rest \X (1 .. longest)) = Cardinality(rest) * longest
        <4>1. IsFiniteSet(1 .. longest) /\ Cardinality(1 .. longest) = longest
          BY FS_Interval
        <4> QED
          BY <1>1, <4>1, FS_Product DEF rest
      <3>6. Cardinality(RetainedBytes) <= Cardinality(rest) * longest
        BY <3>4, <3>5, FS_Injection
      <3>7. Cardinality(rest) \in Nat /\ Cardinality(Files) = Cardinality(rest) + 1
        BY <1>1 DEF rest
      <3>8. Cardinality(Files) * longest = Cardinality(rest) * longest + longest
        BY <3>7
      <3>9. Cardinality(rest) * longest \in Nat /\ readBytes = Cardinality(RetainedBytes)
        BY <3>7 DEF ReadBudgetInv
      <3> QED
        BY <3>1, <3>2, <3>6, <3>8, <3>9, ReadBudgetAssumption
    <2> QED
      BY <2>2, <2>3
  <1>6. ASSUME NEW c \in Calls, ReadStep(c) PROVE WithinReadBudget'
    BY <1>2, <1>4, <1>5, <1>6
       DEF ReadStep, FindSlot, MakeSlot, Lead, Share, EnterGate, ReadDisk
  <1> QED
    BY <1>2, <1>3, <1>6, Steps

\* A working tree for which the read budget has room, whatever its files come to
\* hold while they are edited, is never degraded: every file that can be read is
\* opened once, and no caller is told that the budget was exhausted.
THEOREM SmallTreesAreReadOnce ==
    ASSUME IsFiniteSet(Files), Cardinality(Files) <= MaxReadEntries,
           NEW longest \in Nat, \A v \in Versions : Size[v] <= longest,
           Cardinality(Files) * longest <= MaxReadBytes
    PROVE  Spec => [](WithinReadBudget /\ \A f \in Files \ broken : opened[f] <= 1)
  <1>1. Init => WithinReadBudget
    BY DEF Init, WithinReadBudget
  <1>2. IInv /\ WithinReadBudget /\ [Next]_vars => WithinReadBudget'
    BY RoomStep
  <1>3. IInv /\ WithinReadBudget => \A f \in Files \ broken : opened[f] <= 1
    BY DEF IInv, SharedInv, TypeOK
  <1> QED
    BY <1>1, <1>2, <1>3, InvariantHolds, PTL DEF Spec

----------------------------------------------------------------------------
\* The guards of CallStep, and what the code waits for: a sync.Once that runs, a
\* place in a gate.
CanMove(c) ==
    \/ pc[c] \in {"new", "reading", "settling", "answered", "parsing"}
    \/ pc[c] = "joined" /\ once[joined[c]] # "running"
    \/ pc[c] = "gated" /\ Cardinality({d \in Calls : pc[d] = "reading"}) < ReadWorkers
    \/ pc[c] = "parsejoined" /\ parses[Key(c)] \in {Fresh, Done}
    \/ /\ pc[c] = "parsegated"
       /\ Kind(c) # "clike" =>
             Cardinality({d \in Calls : pc[d] = "parsing" /\ Kind(d) = Kind(c)})
                 < ParseWorkers[Kind(c)]

NeverStuck == (\E c \in Calls : pc[c] # "done") => \E c \in Calls : CanMove(c)

\* Nobody enters a gate only if somebody is inside, who can leave it.
LEMMA GateMoves ==
    ASSUME TypeOK, NEW c \in Calls, pc[c] \in {"gated", "parsegated"}
    PROVE  \E d \in Calls : CanMove(d)
  <1> USE DEF TypeOK
  <1>1. CASE pc[c] = "gated"
    <2> DEFINE S == {d \in Calls : pc[d] = "reading"}
    <2>1. CASE S = {}
      <3> HIDE DEF S
      <3>0. Cardinality(S) = 0
        BY <2>1, FS_EmptySet
      <3>1. Cardinality(S) < ReadWorkers
        BY <3>0, WorkersAssumption
      <3> QED
        BY <1>1, <3>1 DEF CanMove, S
    <2>2. CASE S # {}
      BY <2>2 DEF CanMove
    <2> QED
      BY <2>1, <2>2
  <1>2. CASE pc[c] = "parsegated"
    <2> DEFINE S == {d \in Calls : pc[d] = "parsing" /\ Kind(d) = Kind(c)}
    <2>1. CASE S = {}
      <3>1. Kind(c) \in Kinds
        BY FilesAssumption DEF Kind
      <3> HIDE DEF S
      <3>0. Cardinality(S) = 0
        BY <2>1, FS_EmptySet
      <3>2. Cardinality(S) < ParseWorkers[Kind(c)]
        BY <3>0, <3>1, WorkersAssumption
      <3> QED
        BY <1>2, <3>2 DEF CanMove, S
    <2>2. CASE S # {}
      BY <2>2 DEF CanMove
    <2> QED
      BY <2>1, <2>2
  <1> QED
    BY <1>1, <1>2

\* The slots and gates of the corpus never have everybody wait for somebody else:
\* as long as a call is not through, some call can go on.
THEOREM CorpusNeverStuck == Spec => []NeverStuck
  <1>1. IInv => NeverStuck
    <2> SUFFICES ASSUME IInv, NEW c \in Calls, pc[c] # "done"
                 PROVE  \E d \in Calls : CanMove(d)
      BY DEF NeverStuck
    <2> USE DEF IInv
    <2>1. ASSUME NEW d \in Calls, pc[d] \in Working \/ pc[d] \in {"parsegated", "parsing"}
          PROVE  \E e \in Calls : CanMove(e)
      <3>1. CASE pc[d] \in {"gated", "parsegated"}
        BY <3>1, GateMoves
      <3>2. CASE pc[d] \in {"reading", "settling", "parsing"}
        BY <3>2 DEF CanMove
      <3> QED
        BY <2>1, <3>1, <3>2 DEF Working
    <2>2. CASE pc[c] = "joined" /\ once[joined[c]] = "running"
      <3>1. joined[c] \in Calls
        BY <2>2 DEF OnceInv, TypeOK
      <3>2. PICK d \in Calls : pc[d] \in Working
        BY <2>2, <3>1 DEF WaitInv
      <3> QED
        BY <2>1, <3>2
    <2>3. CASE pc[c] = "parsejoined" /\ parses[Key(c)] \notin {Fresh, Done}
      <3>1. Key(c) \in Keys /\ parses[Key(c)] # None
        BY <2>3 DEF WaitInv, TypeOK, Key, Keys
      <3>2. parses[Key(c)] \in Calls
        BY <2>3, <3>1 DEF TypeOK
      <3> QED
        BY <2>1, <3>1, <3>2 DEF WaitInv
    <2>4. CASE pc[c] \in {"gated", "parsegated"}
      BY <2>1, <2>4 DEF Working
    <2>5. CASE /\ pc[c] \notin {"gated", "parsegated"}
               /\ ~(pc[c] = "joined" /\ once[joined[c]] = "running")
               /\ ~(pc[c] = "parsejoined" /\ parses[Key(c)] \notin {Fresh, Done})
      BY <2>5 DEF CanMove, TypeOK, Places
    <2> QED
      BY <2>2, <2>3, <2>4, <2>5
  <1> QED
    BY <1>1, InvariantHolds, PTL
=============================================================================
