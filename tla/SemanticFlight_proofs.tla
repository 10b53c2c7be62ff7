------------------------ MODULE SemanticFlight_proofs ------------------------
(***************************************************************************)
(* Theorems about SemanticFlight, for any number of calls, requests and    *)
(* programs.  The inductive invariant says of each call what its place     *)
(* tells about the run it leads or waits for, and of each key whose run is *)
(* in flight, in the cache file and in the hands of the writer, who has    *)
(* read the whole file or nothing.                                         *)
(***************************************************************************)
EXTENDS SemanticFlight, Integers, TLAPS

Leading == {"running", "ended", "landing"}

CallOK(c) ==
    /\ pc[c] \in {"new", "missed", "running"} => outcome[c] = "none"
    /\ pc[c] \in {"ended", "landing"} => outcome[c] \in {"ok", "failed"}
    /\ pc[c] \in Leading => joined[c] = c
    /\ pc[c] \notin {"new", "missed", "done"} => joined[c] \in Calls /\ Key(joined[c]) = Key(c)
    /\ pc[c] \in {"storing", "saving", "saved"} => outcome[joined[c]] = "ok"
    /\ pc[c] # "done" => answer[c] = None
    /\ c \in closed => outcome[c] # "none"

\* What may be stored under a key: a verdict of a run for it.
VerdictOK(k, l) ==
    /\ l = Earlier => k \in Before
    /\ l \in Calls => Key(l) = k /\ outcome[l] = "ok"

KeyOK(k) ==
    /\ flights[k] # None => Key(flights[k]) = k
    /\ VerdictOK(k, stored[k])
    /\ \A c \in Calls : VerdictOK(k, loaded[c][k])

\* The file is as the call that saves has read it, if it could read it.
LoadOK(c) ==
    pc[c] = "saving" =>
        \/ \A k \in Requests : loaded[c][k] = stored[k]
        \/ \A k \in Requests : loaded[c][k] = None

IInv ==
    /\ TypeOK
    /\ \A c \in Calls : CallOK(c) /\ LoadOK(c)
    /\ \A k \in Keys : KeyOK(k)

LEMMA InitIInv == Init => IInv
  BY KeysAssumption, NoneAssumption, BeforeAssumption
  DEF Init, Empty, IInv, TypeOK, Places, CallOK, LoadOK, KeyOK, VerdictOK, Leading, Key, Keys

LEMMA StepPreserves ==
    ASSUME IInv, NEW c \in Calls, Step(c) \/ GiveUp(c)
    PROVE  IInv'
  <1> USE KeysAssumption, NoneAssumption DEF Key, IsRequest, Goto, Answers
  <1>1. TypeOK /\ Key(c) \in Keys
    BY DEF IInv
  <1>2. /\ \A d \in Calls : CallOK(d) /\ LoadOK(d)
        /\ \A k \in Keys : KeyOK(k)
    BY DEF IInv
  <1>3. CASE FindCached(c)
    <2>1. TypeOK'
      <3>1. CASE Goto(c, "done") /\ Answers(c, stored[Key(c)])
        BY <1>1, <1>3, <3>1 DEF TypeOK, Places, FindCached
      <3>2. CASE Goto(c, "missed") /\ UNCHANGED answer
        BY <1>1, <1>3, <3>2 DEF TypeOK, Places, FindCached
      <3>3. QED
        BY <1>3, <3>1, <3>2 DEF FindCached
    <2>2. \A d \in Calls : CallOK(d)'
      BY <1>1, <1>2, <1>3
         DEF TypeOK, Places, CallOK, KeyOK, VerdictOK, Leading, FindCached, CacheFree
    <2>3. \A k \in Keys : KeyOK(k)'
      BY <1>1, <1>2, <1>3
         DEF TypeOK, Places, CallOK, KeyOK, VerdictOK, Leading, FindCached, CacheFree
    <2>4. \A d \in Calls : LoadOK(d)'
      BY <1>1, <1>2, <1>3
         DEF TypeOK, Places, CallOK, LoadOK, Keys, Leading, FindCached, CacheFree
    <2>5. QED  BY <2>1, <2>2, <2>3, <2>4 DEF IInv
  <1>4. CASE Join(c)
    <2>1. TypeOK'
      BY <1>1, <1>2, <1>4 DEF TypeOK, Places, CallOK, Leading, Join
    <2>2. \A d \in Calls : CallOK(d)'
      BY <1>1, <1>2, <1>4 DEF TypeOK, Places, CallOK, KeyOK, VerdictOK, Leading, Join
    <2>3. \A k \in Keys : KeyOK(k)'
      BY <1>1, <1>2, <1>4 DEF TypeOK, Places, CallOK, KeyOK, VerdictOK, Leading, Join
    <2>4. \A d \in Calls : LoadOK(d)'
      BY <1>1, <1>2, <1>4 DEF TypeOK, Places, CallOK, LoadOK, Keys, Leading, Join
    <2>5. QED  BY <2>1, <2>2, <2>3, <2>4 DEF IInv
  <1>5. CASE Lead(c)
    <2>1. TypeOK'
      BY <1>1, <1>2, <1>5 DEF TypeOK, Places, CallOK, Leading, Lead
    <2>2. \A d \in Calls : CallOK(d)'
      BY <1>1, <1>2, <1>5 DEF TypeOK, Places, CallOK, KeyOK, VerdictOK, Leading, Lead
    <2>3. \A k \in Keys : KeyOK(k)'
      BY <1>1, <1>2, <1>5 DEF TypeOK, Places, CallOK, KeyOK, VerdictOK, Leading, Lead
    <2>4. \A d \in Calls : LoadOK(d)'
      BY <1>1, <1>2, <1>5 DEF TypeOK, Places, CallOK, LoadOK, Keys, Leading, Lead
    <2>5. QED  BY <2>1, <2>2, <2>3, <2>4 DEF IInv
  <1>6. CASE RunEnds(c)
    <2>1. TypeOK'
      BY <1>1, <1>2, <1>6 DEF TypeOK, Places, CallOK, Leading, RunEnds
    <2>2. \A d \in Calls : CallOK(d)'
      BY <1>1, <1>2, <1>6 DEF TypeOK, Places, CallOK, KeyOK, VerdictOK, Leading, RunEnds
    <2>3. \A k \in Keys : KeyOK(k)'
      BY <1>1, <1>2, <1>6 DEF TypeOK, Places, CallOK, KeyOK, VerdictOK, Leading, RunEnds
    <2>4. \A d \in Calls : LoadOK(d)'
      BY <1>1, <1>2, <1>6 DEF TypeOK, Places, CallOK, LoadOK, Keys, Leading, RunEnds
    <2>5. QED  BY <2>1, <2>2, <2>3, <2>4 DEF IInv
  <1>7. CASE Close(c)
    <2>1. TypeOK'
      BY <1>1, <1>2, <1>7 DEF TypeOK, Places, CallOK, Leading, Close
    <2>2. \A d \in Calls : CallOK(d)'
      BY <1>1, <1>2, <1>7 DEF TypeOK, Places, CallOK, KeyOK, VerdictOK, Leading, Close
    <2>3. \A k \in Keys : KeyOK(k)'
      BY <1>1, <1>2, <1>7 DEF TypeOK, Places, CallOK, KeyOK, VerdictOK, Leading, Close
    <2>4. \A d \in Calls : LoadOK(d)'
      BY <1>1, <1>2, <1>7 DEF TypeOK, Places, CallOK, LoadOK, Keys, Leading, Close
    <2>5. QED  BY <2>1, <2>2, <2>3, <2>4 DEF IInv
  <1>8. CASE Land(c)
    <2>1. TypeOK'
      <3>1. joined[c] \in Calls
        BY <1>1, <1>2, <1>8 DEF CallOK, Land
      <3>2. CASE Goto(c, "storing") /\ UNCHANGED answer
        BY <1>1, <1>8, <3>2 DEF TypeOK, Places, Land
      <3>3. CASE Goto(c, "done") /\ Answers(c, joined[c])
        BY <1>1, <1>8, <3>1, <3>3 DEF TypeOK, Places, Land
      <3>4. QED
        BY <1>8, <3>2, <3>3 DEF Land, Returns
    <2>2. \A d \in Calls : CallOK(d)'
      BY <1>1, <1>2, <1>8
         DEF TypeOK, Places, CallOK, KeyOK, VerdictOK, Leading, Land, Returns
    <2>3. \A k \in Keys : KeyOK(k)'
      BY <1>1, <1>2, <1>8
         DEF TypeOK, Places, CallOK, KeyOK, VerdictOK, Leading, Land, Returns
    <2>4. \A d \in Calls : LoadOK(d)'
      BY <1>1, <1>2, <1>8 DEF TypeOK, Places, CallOK, LoadOK, Keys, Leading, Land, Returns
    <2>5. QED  BY <2>1, <2>2, <2>3, <2>4 DEF IInv
  <1>9. CASE Store(c)
    <2>1. TypeOK'
      BY <1>1, <1>2, <1>9 DEF TypeOK, Places, CallOK, Leading, Store
    <2>2. \A d \in Calls : CallOK(d)'
      BY <1>1, <1>2, <1>9 DEF TypeOK, Places, CallOK, KeyOK, VerdictOK, Leading, Store
    <2>3. \A k \in Keys : KeyOK(k)'
      BY <1>1, <1>2, <1>9 DEF TypeOK, Places, CallOK, KeyOK, VerdictOK, Leading, Store
    <2>4. \A d \in Calls : LoadOK(d)'
      BY <1>1, <1>2, <1>9 DEF TypeOK, Places, CallOK, LoadOK, Keys, Leading, Store
    <2>5. QED  BY <2>1, <2>2, <2>3, <2>4 DEF IInv
  <1>10. CASE Finish(c)
    <2>1. TypeOK'
      BY <1>1, <1>2, <1>10 DEF TypeOK, Places, CallOK, Leading, Finish
    <2>2. \A d \in Calls : CallOK(d)'
      BY <1>1, <1>2, <1>10 DEF TypeOK, Places, CallOK, KeyOK, VerdictOK, Leading, Finish
    <2>3. \A k \in Keys : KeyOK(k)'
      BY <1>1, <1>2, <1>10 DEF TypeOK, Places, CallOK, KeyOK, VerdictOK, Leading, Finish
    <2>4. \A d \in Calls : LoadOK(d)'
      BY <1>1, <1>2, <1>10 DEF TypeOK, Places, CallOK, LoadOK, Keys, Leading, Finish
    <2>5. QED  BY <2>1, <2>2, <2>3, <2>4 DEF IInv
  <1>11. CASE Follow(c)
    <2>1. TypeOK'
      <3>1. joined[c] \in Calls
        BY <1>1, <1>2, <1>11 DEF CallOK, Follow
      <3>2. CASE Goto(c, "storing") /\ UNCHANGED answer
        BY <1>1, <1>11, <3>2 DEF TypeOK, Places, Follow
      <3>3. CASE Goto(c, "done") /\ Answers(c, joined[c])
        BY <1>1, <1>11, <3>1, <3>3 DEF TypeOK, Places, Follow
      <3>4. QED
        BY <1>11, <3>2, <3>3 DEF Follow, Returns
    <2>2. \A d \in Calls : CallOK(d)'
      BY <1>1, <1>2, <1>11
         DEF TypeOK, Places, CallOK, KeyOK, VerdictOK, Leading, Follow, Returns
    <2>3. \A k \in Keys : KeyOK(k)'
      BY <1>1, <1>2, <1>11
         DEF TypeOK, Places, CallOK, KeyOK, VerdictOK, Leading, Follow, Returns
    <2>4. \A d \in Calls : LoadOK(d)'
      BY <1>1, <1>2, <1>11
         DEF TypeOK, Places, CallOK, LoadOK, Keys, Leading, Follow, Returns
    <2>5. QED  BY <2>1, <2>2, <2>3, <2>4 DEF IInv
  <1>12. CASE GiveUp(c)
    <2>1. TypeOK'
      BY <1>1, <1>2, <1>12 DEF TypeOK, Places, CallOK, Leading, GiveUp
    <2>2. \A d \in Calls : CallOK(d)'
      BY <1>1, <1>2, <1>12 DEF TypeOK, Places, CallOK, KeyOK, VerdictOK, Leading, GiveUp
    <2>3. \A k \in Keys : KeyOK(k)'
      BY <1>1, <1>2, <1>12 DEF TypeOK, Places, CallOK, KeyOK, VerdictOK, Leading, GiveUp
    <2>4. \A d \in Calls : LoadOK(d)'
      BY <1>1, <1>2, <1>12 DEF TypeOK, Places, CallOK, LoadOK, Keys, Leading, GiveUp
    <2>5. QED  BY <2>1, <2>2, <2>3, <2>4 DEF IInv
  <1>13. CASE LoadCache(c)
    <2>1. TypeOK'
      BY <1>1, <1>2, <1>13 DEF TypeOK, Places, CallOK, Leading, LoadCache, Unfiled
    <2>2. \A d \in Calls : CallOK(d)'
      BY <1>1, <1>2, <1>13 DEF TypeOK, Places, CallOK, KeyOK, VerdictOK, Leading, LoadCache,
                                  Unfiled
    <2>3. \A k \in Keys : KeyOK(k)'
      BY <1>1, <1>2, <1>13 DEF TypeOK, Places, CallOK, KeyOK, VerdictOK, Leading, LoadCache,
                                  Unfiled
    <2>4. \A d \in Calls : LoadOK(d)'
      BY <1>1, <1>2, <1>13
         DEF TypeOK, Places, CallOK, LoadOK, Keys, Leading, LoadCache, Unfiled
    <2>5. QED  BY <2>1, <2>2, <2>3, <2>4 DEF IInv
  <1>14. CASE SaveCache(c)
    <2>1. TypeOK'
      BY <1>1, <1>2, <1>14 DEF TypeOK, Places, CallOK, Leading, SaveCache, Unfiled, Empty
    <2>2. \A d \in Calls : CallOK(d)'
      BY <1>1, <1>2, <1>14
         DEF TypeOK, Places, CallOK, KeyOK, VerdictOK, Leading, SaveCache, Unfiled, Empty
    <2>3. \A k \in Keys : KeyOK(k)'
      <3> SUFFICES ASSUME NEW k \in Keys PROVE KeyOK(k)'
        OBVIOUS
      <3>1. KeyOK(k) /\ UNCHANGED <<flights, outcome>>
        BY <1>2, <1>14 DEF SaveCache
      <3>2. VerdictOK(Key(c), joined[c]) /\ VerdictOK(k, None)
        BY <1>1, <1>2, <1>14 DEF CallOK, VerdictOK, SaveCache
      <3>3. \/ stored'[k] \in {stored[k], loaded[c][k], None}
            \/ k = Key(c) /\ stored'[k] = joined[c]
        <4>1. CASE UNCHANGED stored
          BY <4>1
        <4>2. CASE stored' = Unfiled
          BY <4>2 DEF Unfiled
        <4>3. CASE stored' = [j \in Keys |-> IF j = Key(c) THEN joined[c]
                                            ELSE IF j \in Requests THEN loaded[c][j] ELSE stored[j]]
          BY <4>3
        <4>4. QED
          BY <1>14, <4>1, <4>2, <4>3 DEF SaveCache
      <3>4. \A d \in Calls : loaded'[d][k] \in {loaded[d][k], None}
        BY <1>1, <1>14 DEF TypeOK, SaveCache, Empty
      <3>5. QED
        BY <3>1, <3>2, <3>3, <3>4 DEF KeyOK, VerdictOK
    <2>4. \A d \in Calls : LoadOK(d)'
      BY <1>1, <1>2, <1>14
         DEF TypeOK, Places, CallOK, LoadOK, Keys, Leading, SaveCache, Unfiled, Empty
    <2>5. QED  BY <2>1, <2>2, <2>3, <2>4 DEF IInv
  <1>15. CASE Return(c)
    <2>1. TypeOK'
      BY <1>1, <1>2, <1>15 DEF TypeOK, Places, CallOK, Leading, Return
    <2>2. \A d \in Calls : CallOK(d)'
      BY <1>1, <1>2, <1>15 DEF TypeOK, Places, CallOK, KeyOK, VerdictOK, Leading, Return
    <2>3. \A k \in Keys : KeyOK(k)'
      BY <1>1, <1>2, <1>15 DEF TypeOK, Places, CallOK, KeyOK, VerdictOK, Leading, Return
    <2>4. \A d \in Calls : LoadOK(d)'
      BY <1>1, <1>2, <1>15 DEF TypeOK, Places, CallOK, LoadOK, Keys, Leading, Return
    <2>5. QED  BY <2>1, <2>2, <2>3, <2>4 DEF IInv
  <1>16. QED
    BY <1>3, <1>4, <1>5, <1>6, <1>7, <1>8, <1>9, <1>10, <1>11, <1>12, <1>13, <1>14, <1>15
       DEF Step

LEMMA Invariance == Spec => []IInv
  <1>1. IInv /\ [Next]_vars => IInv'
    <2> SUFFICES ASSUME IInv, [Next]_vars PROVE IInv'
      OBVIOUS
    <2>1. CASE \E c \in Calls : Step(c) \/ GiveUp(c)
      BY <2>1, StepPreserves
    <2>2. CASE UNCHANGED vars
      BY <2>2 DEF IInv, TypeOK, CallOK, LoadOK, KeyOK, VerdictOK, Key, vars
    <2>3. QED
      BY <2>1, <2>2 DEF Next, Terminated
  <1>2. QED
    BY InitIInv, <1>1, PTL DEF Spec

\* Every variable keeps its shape, a key has a flight exactly while a call leads
\* one, and cacheMu is held exactly by the call that saves.
THEOREM TypeCorrect == Spec => []TypeOK
  <1>1. IInv => TypeOK
    BY DEF IInv
  <1>2. QED
    BY Invariance, <1>1, PTL

----------------------------------------------------------------------------
(* The refinement.  Lead begins a run and RunEnds ends it; the verdicts of *)
(* Store and SaveCache are kept; a call is answered where it is done.      *)

Run  == [c \in Calls |-> RunOf(c)]
Kept == {k \in Keys : stored[k] # None}

\* What no step but Lead and RunEnds changes.
LEMMA RunStays ==
    ASSUME NEW c \in Calls, pc[c] # "running", NEW place \in Places \ {"running"},
           pc \in [Calls -> Places], Goto(c, place), UNCHANGED outcome
    PROVE  UNCHANGED Run
  BY DEF Run, RunOf, Goto

\* A call whose run has an outcome has left it.
LEMMA RunEnded ==
    ASSUME IInv, NEW c \in Calls, outcome[c] # "none"
    PROVE  Run[c] = outcome[c] /\ outcome[c] \in {"ok", "failed"}
  BY DEF IInv, TypeOK, CallOK, Run, RunOf

LEMMA LeadBegins ==
    ASSUME IInv, NEW c \in Calls, Lead(c)
    PROVE  Shared!Begin(c)
  <1>1. IInv /\ CallOK(c) /\ Key(c) \in Keys
    BY KeysAssumption DEF IInv, Key
  <1>2. Run[c] = "none" /\ Run' = [Run EXCEPT ![c] = "running"]
    <2>1. Run[c] = "none"
      BY <1>1 DEF CallOK, Lead, Run, RunOf
    <2>2. /\ pc'[c] = "running" /\ outcome' = outcome
          /\ \A d \in Calls \ {c} : pc'[d] = pc[d]
      BY DEF IInv, TypeOK, Lead, Goto
    <2>3. QED
      BY <2>1, <2>2 DEF Run, RunOf
  <1>3. \A d \in Calls : KeyOf[d] = KeyOf[c] => Run[d] # "running"
    BY <1>1, NoneAssumption DEF IInv, TypeOK, Lead, Run, RunOf, Key
  <1>4. UNCHANGED <<answer, Kept>>
    BY DEF Lead, Kept
  <1>5. QED
    BY <1>2, <1>3, <1>4 DEF Shared!Begin, Run, Kept

LEMMA RunEndsEnds ==
    ASSUME IInv, NEW c \in Calls, RunEnds(c)
    PROVE  Shared!End(c)
  <1>1. PICK o \in {"ok", "failed"} : outcome' = [outcome EXCEPT ![c] = o]
    BY DEF RunEnds
  <1>2. Run[c] = "running"
    BY DEF RunEnds, Run, RunOf
  <1>3. pc' = [pc EXCEPT ![c] = "ended"] /\ pc[c] = "running"
    BY DEF RunEnds, Goto
  <1>4. /\ pc'[c] = "ended" /\ outcome'[c] = o
        /\ \A d \in Calls \ {c} : pc'[d] = pc[d] /\ outcome'[d] = outcome[d]
    BY <1>1, <1>3 DEF IInv, TypeOK
  <1>5. Run' = [Run EXCEPT ![c] = o]
    BY <1>4 DEF Run, RunOf
  <1>6. UNCHANGED <<answer, Kept>>
    BY DEF RunEnds, Kept
  <1>7. QED
    BY <1>2, <1>5, <1>6 DEF Shared!End, Run, Kept

\* An answer from a run for the key that has ended, in this scan or before, or from
\* the call's own cancellation.
LEMMA AnswerAnswers ==
    ASSUME IInv, NEW c \in Calls, pc[c] # "done", NEW from \in Calls \cup {Earlier, GaveUp},
           from = Earlier => Key(c) \in Before,
           from \in Calls => Key(from) = Key(c) /\ outcome[from] # "none",
           Answers(c, from), UNCHANGED <<Run, Kept>>
    PROVE  Shared!Answer(c)
  <1>1. answer[c] = None
    BY DEF IInv, CallOK
  <1>2. from \in Calls => KeyOf[from] = KeyOf[c] /\ Run[from] \in {"ok", "failed"}
    BY RunEnded DEF Key
  <1>3. QED
    BY <1>1, <1>2 DEF Shared!Answer, Answers, Run, Kept, Key

\* A verdict of a run that went well is stored under its key, beside the others or
\* in a file begun again.
LEMMA StoringKeeps ==
    ASSUME IInv, NEW c \in Calls, NEW l \in Calls, Key(l) = Key(c), outcome[l] = "ok",
           NEW lost \in {{}, Requests}, Kept' = (Kept \ lost) \cup {Key(c)},
           UNCHANGED <<Run, answer>>
    PROVE  Shared!Keep(l)
  <1>1. Run[l] = "ok"
    BY RunEnded
  <1>2. QED
    BY <1>1 DEF Shared!Keep, Run, Kept, Key

LEMMA StepRefines ==
    ASSUME IInv, NEW c \in Calls, Step(c) \/ GiveUp(c)
    PROVE  Shared!Next \/ UNCHANGED <<Run, answer, Kept>>
  <1> USE NoneAssumption DEF Shared!Next
  <1>1. TypeOK /\ CallOK(c) /\ Key(c) \in Keys
    BY KeysAssumption DEF IInv, Key
  <1>2. CASE Lead(c)
    BY <1>2, LeadBegins
  <1>3. CASE RunEnds(c)
    BY <1>3, RunEndsEnds
  <1>4. CASE Join(c) \/ Close(c) \/ LoadCache(c)
    <2>1. UNCHANGED Run
      BY <1>1, <1>4, RunStays DEF TypeOK, Places, Join, Close, LoadCache
    <2>2. QED
      BY <1>4, <2>1 DEF Join, Close, LoadCache, Kept
  <1>5. CASE FindCached(c)
    <2>1. UNCHANGED <<Run, Kept>>
      BY <1>1, <1>5, RunStays DEF TypeOK, Places, FindCached, Kept
    <2>2. CASE stored[Key(c)] = None
      BY <1>5, <2>1, <2>2 DEF FindCached
    <2>3. CASE stored[Key(c)] # None
      <3>1. /\ stored[Key(c)] \in Calls \cup {Earlier}
            /\ stored[Key(c)] = Earlier => Key(c) \in Before
            /\ stored[Key(c)] \in Calls =>
                  Key(stored[Key(c)]) = Key(c) /\ outcome[stored[Key(c)]] # "none"
        BY <1>1, <2>3 DEF IInv, TypeOK, KeyOK, VerdictOK
      <3>2. CASE Answers(c, stored[Key(c)])
        BY <1>5, <2>1, <3>1, <3>2, AnswerAnswers DEF FindCached
      <3>3. QED
        BY <1>5, <2>1, <3>2 DEF FindCached
    <2>4. QED
      BY <2>2, <2>3
  <1>6. CASE Land(c) \/ Follow(c) \/ Return(c) \/ Finish(c)
    <2>1. UNCHANGED <<Run, Kept>>
      BY <1>1, <1>6, RunStays
         DEF TypeOK, Places, Land, Follow, Return, Finish, Returns, Kept
    <2>2. /\ joined[c] \in Calls /\ Key(joined[c]) = Key(c)
          /\ outcome[joined[c]] # "none"
      BY <1>1, <1>6 DEF IInv, TypeOK, CallOK, Leading, Land, Follow, Return, Finish
    <2>3. UNCHANGED answer \/ Answers(c, joined[c])
      BY <1>1, <1>6 DEF CallOK, Leading, Land, Follow, Return, Finish, Returns
    <2>4. pc[c] # "done"
      BY <1>6 DEF Land, Follow, Return, Finish
    <2>5. QED
      BY <2>1, <2>2, <2>3, <2>4, AnswerAnswers
  <1>7. CASE GiveUp(c)
    <2>1. UNCHANGED <<Run, Kept>>
      BY <1>1, <1>7, RunStays DEF TypeOK, Places, GiveUp, Kept
    <2>2. QED
      BY <1>7, <2>1, AnswerAnswers DEF GiveUp
  <1>8. CASE Store(c)
    <2>1. UNCHANGED <<Run, answer>>
      BY <1>1, <1>8, RunStays DEF TypeOK, Places, Store
    <2>2. CASE outcome[c] # "ok"
      BY <1>8, <2>1, <2>2 DEF Store, Kept
    <2>3. CASE outcome[c] = "ok"
      <3>1. Kept' = (Kept \ {}) \cup {Key(c)}
        BY <1>1, <1>8, <2>3 DEF TypeOK, Store, Kept
      <3>2. QED
        BY <2>1, <2>3, <3>1, StoringKeeps
    <2>4. QED
      BY <2>2, <2>3
  <1>9. CASE SaveCache(c)
    <2>1. UNCHANGED <<Run, answer>>
      BY <1>1, <1>9, RunStays DEF TypeOK, Places, SaveCache
    <2>2. CASE UNCHANGED stored
      BY <2>1, <2>2 DEF Kept
    <2>3. CASE stored' = Unfiled
      <3>1. Kept' = Kept \ Requests
        BY <2>3, NoneAssumption DEF Unfiled, Kept
      <3>2. Shared!Lose
        BY <2>1, <3>1 DEF Shared!Lose, Run, Kept
      <3>3. QED
        BY <3>2
    <2>4. CASE stored' = [k \in Keys |-> IF k = Key(c) THEN joined[c]
                                        ELSE IF k \in Requests THEN loaded[c][k] ELSE stored[k]]
      <3>1. joined[c] \in Calls /\ Key(joined[c]) = Key(c) /\ outcome[joined[c]] = "ok"
        BY <1>1, <1>9 DEF CallOK, SaveCache
      <3>2. CASE \A k \in Requests : loaded[c][k] = stored[k]
        <4>1. Kept' = (Kept \ {}) \cup {Key(c)}
          BY <1>1, <2>4, <3>1, <3>2 DEF Kept
        <4>2. QED
          BY <2>1, <3>1, <4>1, StoringKeeps
      <3>3. CASE \A k \in Requests : loaded[c][k] = None
        <4>1. Kept' = (Kept \ Requests) \cup {Key(c)}
          BY <1>1, <2>4, <3>1, <3>3 DEF Kept
        <4>2. QED
          BY <2>1, <3>1, <4>1, StoringKeeps
      <3>4. QED
        BY <1>9, <3>2, <3>3 DEF IInv, LoadOK, SaveCache
    <2>5. QED
      BY <1>9, <2>2, <2>3, <2>4 DEF SaveCache
  <1>10. QED
    BY <1>2, <1>3, <1>4, <1>5, <1>6, <1>7, <1>8, <1>9 DEF Step

\* Calls that ask the same share one run at a time, whatever fails or is given up;
\* each is answered from a whole run for its own key, and no verdict in the cache
\* file is lost to another writer, though all of them may be with the file.
THEOREM SharingKeepsPromise == Spec => SharedPromise
  <1>1. Init => Shared!Init
    BY NoneAssumption, BeforeAssumption DEF Init, Shared!Init, RunOf, Keys
  <1>2. IInv /\ [Next]_vars => [Shared!Next]_<<Run, answer, Kept>>
    <2> SUFFICES ASSUME IInv, [Next]_vars
                 PROVE  Shared!Next \/ UNCHANGED <<Run, answer, Kept>>
      OBVIOUS
    <2>1. CASE \E c \in Calls : Step(c) \/ GiveUp(c)
      BY <2>1, StepRefines
    <2>2. CASE UNCHANGED vars
      BY <2>2 DEF vars, Run, RunOf, Kept
    <2>3. QED
      BY <2>1, <2>2 DEF Next, Terminated
  <1>3. [Shared!Next]_<<Run, answer, Kept>> =>
            [Shared!Next]_<<[c \in Calls |-> RunOf(c)], answer, {k \in Keys : stored[k] # None}>>
    BY DEF Run, Kept
  <1>4. QED
    BY Invariance, <1>1, <1>2, <1>3, PTL DEF Spec, SharedPromise, Shared!Spec

----------------------------------------------------------------------------
\* The run a call waits for is under way or its followers were woken; a request's
\* leader wakes them before it gives up its flight.
WaitOK(c) ==
    /\ pc[c] = "waiting" => joined[c] \in closed \/ pc[joined[c]] \in Leading
    /\ pc[c] = "landing" /\ IsRequest(c) => c \in closed

WaitInv == \A c \in Calls : WaitOK(c)

LEMMA WaitStep ==
    ASSUME IInv, WaitInv, NEW c \in Calls, Step(c) \/ GiveUp(c)
    PROVE  WaitInv'
  <1> USE KeysAssumption, NoneAssumption DEF Key, IsRequest, Goto, Places, Leading, WaitOK
  <1>1. TypeOK /\ (\A d \in Calls : CallOK(d) /\ WaitOK(d)) /\ Key(c) \in Keys
    BY DEF IInv, WaitInv
  <1>2. CASE Join(c)
    <2>1. flights[Key(c)] \in Calls /\ Key(flights[Key(c)]) = Key(c)
      BY <1>1, <1>2 DEF TypeOK, IInv, KeyOK, Join
    <2>2. pc[flights[Key(c)]] \in Leading /\ flights[Key(c)] # c
      BY <1>1, <1>2, <2>1 DEF TypeOK, Join
    <2>3. /\ pc'[c] = "waiting" /\ joined'[c] = flights[Key(c)] /\ closed' = closed
          /\ \A d \in Calls \ {c} : pc'[d] = pc[d] /\ joined'[d] = joined[d]
      BY <1>1, <1>2 DEF TypeOK, Join
    <2>4. ASSUME NEW d \in Calls PROVE WaitOK(d)'
      <3>1. CASE d = c
        BY <2>1, <2>2, <2>3, <3>1
      <3>2. CASE d # c
        BY <1>1, <1>2, <2>3, <3>2 DEF CallOK, Join
      <3> QED
        BY <3>1, <3>2
    <2> QED
      BY <2>4 DEF WaitInv
  <1>3. CASE Lead(c) \/ RunEnds(c)
    BY <1>1, <1>3 DEF TypeOK, CallOK, WaitInv, Lead, RunEnds
  <1>4. CASE Close(c) \/ Store(c)
    BY <1>1, <1>4 DEF TypeOK, CallOK, WaitInv, Close, Store
  <1>5. CASE Land(c) \/ Finish(c)
    BY <1>1, <1>5 DEF TypeOK, CallOK, WaitInv, Land, Finish, Returns
  <1>6. CASE FindCached(c) \/ Follow(c) \/ GiveUp(c)
    BY <1>1, <1>6 DEF TypeOK, CallOK, WaitInv, FindCached, Follow, Returns, GiveUp
  <1>7. CASE LoadCache(c) \/ SaveCache(c) \/ Return(c)
    BY <1>1, <1>7 DEF TypeOK, CallOK, WaitInv, LoadCache, SaveCache, Return
  <1> QED
    BY <1>2, <1>3, <1>4, <1>5, <1>6, <1>7 DEF Step

\* A call that can move: it waits neither for cacheMu nor for the run of another.
Unblocked(c) ==
    \/ pc[c] = "new" /\ CacheFree(c)
    \/ pc[c] \in {"missed", "running", "ended", "landing", "saving", "saved"}
    \/ pc[c] = "waiting" /\ joined[c] \in closed
    \/ pc[c] = "storing" /\ writer = None

FlightNeverStuck ==
    (\E c \in Calls : pc[c] # "done") => \E c \in Calls : Unblocked(c)

\* While a call has not returned, some call can move, nobody's context needing to be
\* cancelled: waiting for the run of another and for the cache file never closes a
\* circle, whatever runs fail and whichever calls gave up.
THEOREM CallsNeverStuck == Spec => []FlightNeverStuck
  <1>1. Init => WaitInv
    BY DEF Init, WaitInv, WaitOK
  <1>2. IInv /\ WaitInv /\ [Next]_vars => WaitInv'
    <2> SUFFICES ASSUME IInv, WaitInv, [Next]_vars PROVE WaitInv'
      OBVIOUS
    <2>1. CASE \E c \in Calls : Step(c) \/ GiveUp(c)
      BY <2>1, WaitStep
    <2>2. CASE UNCHANGED vars
      BY <2>2 DEF WaitInv, WaitOK, IsRequest, Key, vars
    <2> QED
      BY <2>1, <2>2 DEF Next, Terminated
  <1>3. IInv /\ WaitInv => FlightNeverStuck
    <2> SUFFICES ASSUME IInv, WaitInv, NEW c \in Calls, pc[c] # "done"
                 PROVE  \E d \in Calls : Unblocked(d)
      BY DEF FlightNeverStuck
    <2>1. TypeOK /\ CallOK(c) /\ WaitOK(c)
      BY DEF IInv, WaitInv
    <2>2. CASE writer # None
      BY <2>1, <2>2 DEF TypeOK, Unblocked
    <2>3. CASE writer = None /\ pc[c] = "waiting" /\ joined[c] \notin closed
      BY <2>1, <2>3 DEF CallOK, WaitOK, Leading, Unblocked
    <2>4. CASE writer = None /\ ~(pc[c] = "waiting" /\ joined[c] \notin closed)
      BY <2>1, <2>4 DEF TypeOK, Places, Unblocked, CacheFree
    <2> QED
      BY <2>2, <2>3, <2>4
  <1> QED
    BY Invariance, <1>1, <1>2, <1>3, PTL DEF Spec

----------------------------------------------------------------------------
\* How far a call has come.
Rank(place) ==
    CASE place = "new"                      -> 0
      [] place = "missed"                   -> 1
      [] place \in {"waiting", "running"}   -> 2
      [] place = "ended"                    -> 3
      [] place = "landing"                  -> 4
      [] place = "storing"                  -> 5
      [] place = "saving"                   -> 6
      [] place = "saved"                    -> 7
      [] place = "done"                     -> 8

Advances(c) ==
    \E place \in Places : pc' = [pc EXCEPT ![c] = place] /\ Rank(pc[c]) < Rank(place)

\* Every step takes a call further and none takes one back, not even when a run
\* fails or its leader's context is cancelled: a follower never leads again, and n
\* calls return within 8n steps as long as one that can move does.
THEOREM CallsOnlyAdvance == Spec => [][\E c \in Calls : Advances(c)]_vars
  <1>1. ASSUME NEW c \in Calls, Step(c) \/ GiveUp(c) PROVE Advances(c)
    <2> USE DEF Goto, Rank, Places, Returns
    <2>1. ASSUME NEW from \in Places, NEW place \in Places, pc[c] = from, Goto(c, place),
                 Rank(from) < Rank(place)
          PROVE  Advances(c)
      BY <2>1 DEF Advances
    <2>2. CASE FindCached(c) \/ Join(c) \/ Lead(c) \/ RunEnds(c) \/ Close(c)
      BY <2>1, <2>2 DEF FindCached, Join, Lead, RunEnds, Close
    <2>3. CASE Land(c) \/ Store(c) \/ Finish(c) \/ Follow(c) \/ GiveUp(c)
      BY <2>1, <2>3 DEF Land, Store, Finish, Follow, GiveUp
    <2>4. CASE LoadCache(c) \/ SaveCache(c) \/ Return(c)
      BY <2>1, <2>4 DEF LoadCache, SaveCache, Return
    <2> QED
      BY <1>1, <2>2, <2>3, <2>4 DEF Step
  <1>2. [Next]_vars => [\E c \in Calls : Advances(c)]_vars
    BY <1>1 DEF Next, Terminated
  <1> QED
    BY <1>2, PTL DEF Spec
=============================================================================
