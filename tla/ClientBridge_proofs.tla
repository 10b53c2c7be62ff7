------------------------ MODULE ClientBridge_proofs ------------------------
(***************************************************************************)
(* What every step of ClientBridge preserves, whichever transport takes    *)
(* it: an invariant of the requester and the roots cache that implies      *)
(* RepliesMatch and RootsFresh.  The transports' proofs cite the lemmas of *)
(* this module, one per kind of step.                                      *)
(***************************************************************************)
EXTENDS ClientBridge, TLAPS

Waiting == {"fetching", "asking"}

\* An answer that may be taken for the one the call waits for.
Answers(q, p, s) ==
    /\ q.call = p.call
    /\ q.kind = Awaited(p.call)
    /\ q.kind = "roots" => q.since >= handled[s]

\* Who is in the table of a connection waits for just that id, and what reached the
\* client under this id is what the call asked.
PendingOK(s) ==
    \A p \in pending[s] :
        /\ p.id <= counter[s]
        /\ conn[p.call] = s
        /\ asking[p.call] = p.id
        /\ pc[p.call] \in Waiting
        /\ \A q \in asked[s] : q.id = p.id => Answers(q, p, s)

AskedOK(s) == \A q \in asked[s] : q.id <= counter[s] /\ q.since <= current[s]

RootsOK(s) ==
    /\ handled[s] <= current[s]
    /\ roots[s] # Nobody => roots[s] >= handled[s]

\* The lock of the roots is held by who fetches them, and only by it.
LockOK(s) == \A c \in Calls : lock[s] = c <=> pc[c] = "fetching" /\ conn[c] = s

ChanOK(c) ==
    chan[c] # Nobody =>
        /\ pc[c] \in Waiting
        /\ chan[c].call = c
        /\ chan[c].kind = Awaited(c)
        /\ pc[c] = "fetching" /\ chan[c].value # Nobody => chan[c].value >= handled[conn[c]]

ConnOK(c) == pc[c] \in Waiting \cup {"locking"} => conn[c] \in Conns

BridgeInv ==
    /\ BridgeTypeOK
    /\ \A s \in Conns : PendingOK(s) /\ AskedOK(s) /\ RootsOK(s) /\ LockOK(s)
    /\ \A c \in Calls : ChanOK(c) /\ ConnOK(c)

----------------------------------------------------------------------------
(* The two properties of the transports' runs follow.                      *)
LEMMA BridgeInvMatches == BridgeInv => RepliesMatch
BY DEF BridgeInv, RepliesMatch, ChanOK, Waiting

LEMMA BridgeInvFresh == BridgeInv => RootsFresh
BY DEF BridgeInv, RootsFresh, ChanOK, RootsOK

LEMMA BridgeInvInit == BridgeInit => BridgeInv
<1> SUFFICES ASSUME BridgeInit PROVE BridgeInv
  OBVIOUS
<1> USE NobodyAssumption, BoundsAssumption DEF BridgeInit
<1>1. BridgeTypeOK
  BY DEF BridgeTypeOK, Places, Versions
<1>2. ASSUME NEW s \in Conns PROVE PendingOK(s) /\ AskedOK(s) /\ RootsOK(s) /\ LockOK(s)
  BY <1>2 DEF PendingOK, AskedOK, RootsOK, LockOK
<1>3. ASSUME NEW c \in Calls PROVE ChanOK(c) /\ ConnOK(c)
  BY <1>3 DEF ChanOK, ConnOK, Waiting
<1> QED
  BY <1>1, <1>2, <1>3 DEF BridgeInv

----------------------------------------------------------------------------
(* A step outside the requester: one call that waits for nothing moves on, *)
(* and may be given its connection by it.                                  *)
Idle == {"idle", "queued", "started", "working", "replying", "finishing", "done"}

LEMMA MoveKeeps ==
  ASSUME BridgeInv, NEW c \in Calls,
         NEW place \in Idle \cup {"locking"}, NEW s \in Conns \cup {Nobody},
         pc[c] \in Idle \cup {"locking"}, Goto(c, place),
         conn' = [conn EXCEPT ![c] = s],
         place = "locking" => s \in Conns,
         stopped' \in [Calls -> BOOLEAN], late' \in [Calls -> BOOLEAN],
         UNCHANGED <<asking, chan, serverVars, clientVars>>
  PROVE  BridgeInv'
<1> USE NobodyAssumption DEF serverVars, clientVars
<1> pc \in [Calls -> Places] /\ conn \in [Calls -> Conns \cup {Nobody}]
  BY DEF BridgeInv, BridgeTypeOK
<1>1. pc' \in [Calls -> Places] /\ conn' \in [Calls -> Conns \cup {Nobody}]
  BY DEF Goto, Places, Idle
<1>2. \A d \in Calls : d # c => pc'[d] = pc[d] /\ conn'[d] = conn[d]
  BY DEF Goto
<1>3. pc'[c] = place /\ conn'[c] = s
  BY DEF Goto
<1>4. pc[c] \notin Waiting /\ place \notin Waiting
  BY DEF Idle, Waiting
<1> HIDE DEF Goto
<1>5. BridgeTypeOK'
  BY <1>1 DEF BridgeInv, BridgeTypeOK
<1>6. ASSUME NEW t \in Conns PROVE PendingOK(t)'
  BY <1>2, <1>4 DEF BridgeInv, BridgeTypeOK, PendingOK, Answers, Awaited
<1>7. ASSUME NEW t \in Conns PROVE AskedOK(t)' /\ RootsOK(t)'
  BY DEF BridgeInv, AskedOK, RootsOK
<1>8. ASSUME NEW t \in Conns PROVE LockOK(t)'
  BY <1>2, <1>3, <1>4 DEF BridgeInv, LockOK, Waiting
<1>9. ASSUME NEW d \in Calls PROVE ChanOK(d)' /\ ConnOK(d)'
  BY <1>2, <1>3, <1>4 DEF BridgeInv, ChanOK, ConnOK, Awaited, Waiting
<1> QED
  BY <1>5, <1>6, <1>7, <1>8, <1>9 DEF BridgeInv

(* The cancellation of a context, or the lateness of a call, is no part of *)
(* the invariant.                                                          *)
LEMMA MarkKeeps ==
  ASSUME BridgeInv, stopped' \in [Calls -> BOOLEAN], late' \in [Calls -> BOOLEAN],
         UNCHANGED <<pc, conn, asking, chan, serverVars, clientVars>>
  PROVE  BridgeInv'
BY DEF BridgeInv, BridgeTypeOK, PendingOK, Answers, Awaited, AskedOK, RootsOK, LockOK,
       ChanOK, ConnOK, serverVars, clientVars

----------------------------------------------------------------------------
(* A call of the requester begins: with a new id, unknown so far.          *)
LEMMA IssueKeeps ==
  ASSUME BridgeInv, NEW c \in Calls, NEW kind \in Kinds, NEW fate \in {"sent", "lost", "failed"},
         pc[c] \notin Waiting, conn[c] \in Conns,
         Issue(c, kind, fate),
         kind = "roots" => lock[conn[c]] = Nobody,
         pc' = [pc EXCEPT ![c] = IF fate = "failed" THEN "working"
                                 ELSE IF kind = "roots" THEN "fetching" ELSE "asking"],
         lock' = IF kind = "roots" /\ fate # "failed" THEN [lock EXCEPT ![conn[c]] = c] ELSE lock,
         late' \in [Calls -> BOOLEAN],
         UNCHANGED <<conn, stopped, roots, handled, current>>
  PROVE  BridgeInv'
<1> DEFINE s == conn[c]
           new == [id |-> NewId(s), call |-> c]
           place == IF fate = "failed" THEN "working"
                    ELSE IF kind = "roots" THEN "fetching" ELSE "asking"
<1> USE NobodyAssumption
<1> BridgeTypeOK
  BY DEF BridgeInv
<1>1. /\ \A d \in Calls : d # c => pc'[d] = pc[d] /\ asking'[d] = asking[d] /\ chan'[d] = chan[d]
      /\ pc'[c] = place
      /\ chan'[c] = Nobody
      /\ fate # "failed" => asking'[c] = NewId(s)
  BY DEF BridgeTypeOK, Issue
<1>2. \A t \in Conns : t # s => pending'[t] = pending[t] /\ asked'[t] = asked[t] /\ counter'[t] = counter[t]
  BY DEF BridgeTypeOK, Issue
<1>3. counter'[s] = NewId(s) /\ NewId(s) = counter[s] + 1 /\ NewId(s) \in Nat
  BY DEF BridgeTypeOK, Issue, NewId
<1>4. \A p \in pending'[s] : p \in pending[s] \/ (p = new /\ fate # "failed")
  BY DEF BridgeTypeOK, Issue
<1>5. \A q \in asked'[s] :
        \/ q \in asked[s]
        \/ q = [id |-> NewId(s), call |-> c, kind |-> kind, since |-> current[s]] /\ fate # "failed"
  BY DEF BridgeTypeOK, Issue
<1>6. BridgeTypeOK'
  <2>1. counter' \in [Conns -> Nat]
    BY DEF BridgeTypeOK, Issue
  <2>2. pending' \in [Conns -> SUBSET [id : Nat, call : Calls]]
    BY <1>3 DEF BridgeTypeOK, Issue
  <2>3. asked' \in [Conns -> SUBSET Request]
    BY <1>3 DEF BridgeTypeOK, Issue, Request
  <2>4. asking' \in [Calls -> Nat] /\ chan' \in [Calls -> Reply \cup {Nobody}]
    BY <1>3 DEF BridgeTypeOK, Issue
  <2>5. pc' \in [Calls -> Places] /\ lock' \in [Conns -> Calls \cup {Nobody}]
    BY DEF BridgeTypeOK, Places
  <2> QED
    BY <2>1, <2>2, <2>3, <2>4, <2>5 DEF BridgeTypeOK
<1>7. \A t \in Conns : \A p \in pending[t] : p.call # c
  BY DEF BridgeInv, PendingOK
<1>8. ASSUME NEW t \in Conns PROVE PendingOK(t)'
  <2> SUFFICES ASSUME NEW p \in pending'[t]
               PROVE  /\ p.id <= counter'[t] /\ conn'[p.call] = t /\ asking'[p.call] = p.id
                      /\ pc'[p.call] \in Waiting
                      /\ \A q \in asked'[t] : q.id = p.id => Answers(q, p, t)'
    BY DEF PendingOK
  <2>1. CASE p \in pending[t]
    <3>1. /\ p.id <= counter[t] /\ conn[p.call] = t /\ asking[p.call] = p.id
          /\ pc[p.call] \in Waiting /\ p.call \in Calls /\ p.call # c /\ p.id \in Nat
          /\ \A q \in asked[t] : q.id = p.id => Answers(q, p, t)
      BY <2>1, <1>7 DEF BridgeInv, PendingOK, BridgeTypeOK
    <3>2. p.id <= counter'[t]
      BY <3>1, <1>2, <1>3 DEF BridgeTypeOK
    <3>3. \A q \in asked'[t] : q.id = p.id => q \in asked[t]
      BY <3>1, <1>2, <1>3, <1>5 DEF BridgeTypeOK
    <3>4. \A q \in asked[t] : Answers(q, p, t) => Answers(q, p, t)'
      BY <3>1, <1>1 DEF Answers, Awaited
    <3> QED
      BY <3>1, <3>2, <3>3, <3>4, <1>1
  <2>2. CASE p \notin pending[t]
    <3>1. t = s /\ p = new /\ fate # "failed"
      BY <2>2, <1>2, <1>4
    <3>2. p.id = NewId(s) /\ p.call = c
      BY <3>1
    <3>3. \A q \in asked[s] : q.id # NewId(s)
      BY <1>3 DEF BridgeInv, AskedOK, BridgeTypeOK, Request
    <3>4. \A q \in asked'[s] : q.id = NewId(s) => q.call = c /\ q.kind = kind /\ q.since = current[s]
      BY <3>3, <1>5
    <3>5. kind = Awaited(c)' /\ current[s] >= handled'[s]
      BY <3>1, <1>1 DEF Awaited, Kinds, BridgeInv, RootsOK, BridgeTypeOK, Versions
    <3> QED
      BY <3>1, <3>2, <3>4, <3>5, <1>1, <1>3 DEF Answers, Waiting
  <2> QED
    BY <2>1, <2>2
<1>9. ASSUME NEW t \in Conns PROVE AskedOK(t)'
  BY <1>2, <1>3, <1>5 DEF BridgeInv, AskedOK, BridgeTypeOK, Request, Versions
<1>10. ASSUME NEW t \in Conns PROVE RootsOK(t)'
  BY DEF BridgeInv, RootsOK
<1>11. ASSUME NEW t \in Conns PROVE LockOK(t)'
  BY <1>1 DEF BridgeInv, LockOK, BridgeTypeOK, Waiting, Kinds
<1>12. ASSUME NEW d \in Calls PROVE ChanOK(d)' /\ ConnOK(d)'
  BY <1>1 DEF BridgeInv, ChanOK, ConnOK, Awaited, Waiting
<1> QED
  BY <1>6, <1>8, <1>9, <1>10, <1>11, <1>12 DEF BridgeInv

----------------------------------------------------------------------------
(* A call of the requester ends, with an answer or without: its id leaves  *)
(* the table, and the lock of the roots with it.                           *)
LEMMA UnregisterKeeps ==
  ASSUME BridgeInv, NEW c \in Calls,
         pc[c] \in Waiting, Unregister(c), Goto(c, "working"),
         lock' = IF pc[c] = "fetching" THEN [lock EXCEPT ![conn[c]] = Nobody] ELSE lock,
         roots' \in [Conns -> Versions \cup {Nobody}],
         \A s \in Conns : roots'[s] # Nobody => roots'[s] >= handled[s],
         late' \in [Calls -> BOOLEAN],
         UNCHANGED <<conn, stopped, counter, handled, clientVars>>
  PROVE  BridgeInv'
<1> DEFINE s == conn[c]
<1> USE NobodyAssumption DEF clientVars
<1> BridgeTypeOK
  BY DEF BridgeInv
<1>0. s \in Conns
  BY DEF BridgeInv, ConnOK
<1>1. /\ \A d \in Calls : d # c => pc'[d] = pc[d] /\ asking'[d] = asking[d] /\ chan'[d] = chan[d]
      /\ pc'[c] = "working"
      /\ chan'[c] = Nobody
  BY DEF BridgeTypeOK, Unregister, Goto
<1>2. \A t \in Conns : pending'[t] \subseteq pending[t]
  BY DEF BridgeTypeOK, Unregister
<1>3. \A t \in Conns : \A p \in pending'[t] : p.call # c
  BY <1>0 DEF BridgeTypeOK, Unregister, BridgeInv, PendingOK
<1>4. BridgeTypeOK'
  BY <1>2 DEF BridgeTypeOK, Unregister, Goto, Places
<1>5. ASSUME NEW t \in Conns PROVE PendingOK(t)'
  BY <1>1, <1>2, <1>3 DEF BridgeInv, PendingOK, Answers, Awaited, BridgeTypeOK
<1>6. ASSUME NEW t \in Conns PROVE AskedOK(t)' /\ RootsOK(t)'
  BY DEF BridgeInv, AskedOK, RootsOK
<1>7. ASSUME NEW t \in Conns PROVE LockOK(t)'
  BY <1>0, <1>1 DEF BridgeInv, LockOK, BridgeTypeOK, Waiting
<1>8. ASSUME NEW d \in Calls PROVE ChanOK(d)' /\ ConnOK(d)'
  BY <1>1 DEF BridgeInv, ChanOK, ConnOK, Awaited, Waiting
<1> QED
  BY <1>4, <1>5, <1>6, <1>7, <1>8 DEF BridgeInv

(* An answer of the client arrives: it reaches nobody, or who asked for it. *)
LEMMA DeliverKeeps ==
  ASSUME BridgeInv, NEW s \in Conns, NEW request \in asked[s], NEW value \in Versions \cup {Nobody},
         request.kind = "roots" /\ value # Nobody => value >= request.since,
         Deliver(s, AnswerOf(request, value)),
         UNCHANGED <<pc, conn, stopped, late, asking, serverVars, clientVars>>
  PROVE  BridgeInv'
<1> DEFINE reply == AnswerOf(request, value)
<1> USE NobodyAssumption DEF serverVars, clientVars
<1> BridgeTypeOK
  BY DEF BridgeInv
<1>1. request \in Request /\ reply \in Reply
  BY DEF BridgeTypeOK, Request, Reply, AnswerOf
<1>2. BridgeTypeOK'
  BY <1>1 DEF BridgeTypeOK, Deliver
<1>3. ASSUME NEW t \in Conns PROVE PendingOK(t)' /\ AskedOK(t)' /\ RootsOK(t)' /\ LockOK(t)'
  BY DEF BridgeInv, PendingOK, AskedOK, RootsOK, LockOK, Answers, Awaited
<1>4. ASSUME NEW d \in Calls PROVE ChanOK(d)' /\ ConnOK(d)'
  <2>1. ConnOK(d)'
    BY DEF BridgeInv, ConnOK
  <2>2. CASE chan'[d] = chan[d]
    BY <2>1, <2>2 DEF BridgeInv, ChanOK, Awaited
  <2>3. CASE chan'[d] # chan[d]
    <3> DEFINE p == [id |-> reply.id, call |-> d]
    <3>1. chan'[d] = reply /\ p \in pending[s]
      BY <2>3 DEF Deliver
    <3>2. reply.id = request.id /\ reply.call = request.call /\ reply.kind = request.kind
          /\ reply.value = value
      BY DEF AnswerOf
    <3>3. p.id = request.id /\ p.call = d
      BY <3>2
    <3>4. Answers(request, p, s) /\ pc[d] \in Waiting /\ conn[d] = s
      BY <3>1, <3>3 DEF BridgeInv, PendingOK
    <3>5. request.call = d /\ request.kind = Awaited(d)
          /\ (request.kind = "roots" => request.since >= handled[s])
      BY <3>3, <3>4 DEF Answers
    <3>6. pc[d] = "fetching" /\ value # Nobody => value >= handled[s]
      BY <3>5, <1>1 DEF Awaited, Request, Versions, BridgeTypeOK
    <3> QED
      BY <2>1, <3>1, <3>2, <3>4, <3>5, <3>6 DEF ChanOK, Awaited
  <2> QED
    BY <2>2, <2>3
<1> QED
  BY <1>2, <1>3, <1>4 DEF BridgeInv

(* The client said that its roots changed: nobody fetches them now, so     *)
(* what is fetched from here on is asked for from here on.                 *)
LEMMA InvalidateKeeps ==
  ASSUME BridgeInv, NEW s \in Conns, NEW version \in 1 .. current[s],
         Invalidate(s, version),
         UNCHANGED <<callVars, counter, pending, lock, clientVars>>
  PROVE  BridgeInv'
<1> USE NobodyAssumption, BoundsAssumption DEF callVars, clientVars
<1> BridgeTypeOK
  BY DEF BridgeInv
<1>1. version \in Versions
  BY DEF BridgeTypeOK, Versions
<1>2. BridgeTypeOK'
  BY <1>1 DEF BridgeTypeOK, Invalidate
<1>3. \A t \in Conns : t # s => handled'[t] = handled[t] /\ roots'[t] = roots[t]
  BY DEF Invalidate, BridgeTypeOK
<1>4. roots'[s] = Nobody /\ handled'[s] \in {handled[s], version}
  BY DEF Invalidate, BridgeTypeOK
<1>5. \A c \in Calls : ~(pc[c] = "fetching" /\ conn[c] = s)
  BY DEF BridgeInv, LockOK, Invalidate
<1>6. ASSUME NEW t \in Conns PROVE PendingOK(t)'
  <2>1. CASE t = s
    <3>1. \A p \in pending[s] : Awaited(p.call) # "roots"
      BY <1>5 DEF BridgeInv, PendingOK, BridgeTypeOK, Awaited
    <3> QED
      BY <2>1, <3>1 DEF BridgeInv, PendingOK, Answers, Awaited
  <2>2. CASE t # s
    BY <1>3, <2>2 DEF BridgeInv, PendingOK, Answers, Awaited
  <2> QED
    BY <2>1, <2>2
<1>7. ASSUME NEW t \in Conns PROVE AskedOK(t)' /\ LockOK(t)'
  BY DEF BridgeInv, AskedOK, LockOK
<1>8. ASSUME NEW t \in Conns PROVE RootsOK(t)'
  BY <1>3, <1>4 DEF BridgeInv, RootsOK, BridgeTypeOK, Versions
<1>9. ASSUME NEW d \in Calls PROVE ChanOK(d)' /\ ConnOK(d)'
  BY <1>3, <1>5 DEF BridgeInv, ChanOK, ConnOK, Awaited, Waiting
<1> QED
  BY <1>2, <1>6, <1>7, <1>8, <1>9 DEF BridgeInv

LEMMA ChangeRootsKeeps ==
  ASSUME BridgeInv, NEW s \in Conns, ChangeRoots(s), UNCHANGED <<callVars, serverVars>>
  PROVE  BridgeInv'
<1> USE NobodyAssumption, BoundsAssumption DEF callVars, serverVars
<1> BridgeTypeOK
  BY DEF BridgeInv
<1>1. \A t \in Conns : current'[t] \in Versions /\ current'[t] >= current[t]
  BY DEF ChangeRoots, BridgeTypeOK, Versions
<1>2. BridgeTypeOK'
  BY <1>1 DEF BridgeTypeOK, ChangeRoots
<1>3. ASSUME NEW t \in Conns PROVE PendingOK(t)' /\ LockOK(t)'
  BY DEF BridgeInv, PendingOK, Answers, Awaited, LockOK, ChangeRoots
<1>4. ASSUME NEW t \in Conns PROVE AskedOK(t)' /\ RootsOK(t)'
  BY <1>1 DEF BridgeInv, AskedOK, RootsOK, ChangeRoots, BridgeTypeOK, Request, Versions
<1>5. ASSUME NEW d \in Calls PROVE ChanOK(d)' /\ ConnOK(d)'
  BY DEF BridgeInv, ChanOK, ConnOK, Awaited
<1> QED
  BY <1>2, <1>3, <1>4, <1>5 DEF BridgeInv

----------------------------------------------------------------------------
(* The steps of a call, from the kinds above.                              *)
LEMMA GiveUpKeeps ==
  ASSUME BridgeInv, NEW c \in Calls, GiveUp(c)
  PROVE  BridgeInv'
<1> BridgeTypeOK /\ (\A s \in Conns : RootsOK(s))
  BY DEF BridgeInv
<1>1. CASE GiveUpRoots(c)
  BY <1>1, UnregisterKeeps
     DEF GiveUpRoots, EndCheck, ReleaseLock, BridgeTypeOK, Waiting, RootsOK
<1>2. CASE StopAsking(c)
  BY <1>2, UnregisterKeeps DEF StopAsking, BridgeTypeOK, Waiting, RootsOK
<1> QED
  BY <1>1, <1>2 DEF GiveUp

LEMMA BridgeStepKeeps ==
  ASSUME BridgeInv, NEW c \in Calls, BridgeStep(c) \/ Expire(c)
  PROVE  BridgeInv'
<1> BridgeTypeOK /\ ConnOK(c) /\ ChanOK(c) /\ (\A s \in Conns : RootsOK(s))
  BY DEF BridgeInv
<1> conn = [conn EXCEPT ![c] = conn[c]] /\ conn[c] \in Conns \cup {Nobody}
  BY DEF BridgeTypeOK
<1>1. CASE CheckRoots(c)
  BY <1>1, MoveKeeps DEF CheckRoots, Idle, BridgeTypeOK
<1>2. CASE SkipRoots(c)
  BY <1>2, MoveKeeps DEF SkipRoots, Idle, BridgeTypeOK
<1>3. CASE LoadRoots(c)
  <2>1. late' \in [Calls -> BOOLEAN]
    BY <1>3 DEF LoadRoots, EndCheck, BridgeTypeOK
  <2> QED
    BY <1>3, <2>1, MoveKeeps DEF LoadRoots, EndCheck, Idle, BridgeTypeOK
<1>4. CASE TakeRoots(c)
  <2>1. chan[c] \in Reply /\ conn[c] \in Conns
    BY <1>4 DEF TakeRoots, BridgeTypeOK, ConnOK, Waiting
  <2>2. roots' \in [Conns -> Versions \cup {Nobody}]
    BY <1>4, <2>1 DEF TakeRoots, BridgeTypeOK, Reply
  <2>3. \A s \in Conns : roots'[s] # Nobody => roots'[s] >= handled[s]
    BY <1>4, <2>1 DEF TakeRoots, BridgeTypeOK, ChanOK, RootsOK
  <2> QED
    BY <1>4, <2>2, <2>3, UnregisterKeeps
       DEF TakeRoots, EndCheck, ReleaseLock, BridgeTypeOK, Waiting
<1>5. CASE GiveUp(c)
  BY <1>5, GiveUpKeeps
<1>6. CASE /\ pc[c] = "locking"
           /\ late' = [late EXCEPT ![c] = TRUE]
           /\ UNCHANGED <<pc, conn, stopped, asking, chan, serverVars, clientVars>>
  BY <1>6, MarkKeeps DEF BridgeTypeOK
<1> QED
  BY <1>1, <1>2, <1>3, <1>4, <1>5, <1>6
     DEF BridgeStep, Expire, TakeAnswer, GiveUpEarly, GiveUp

(* A request to the client is sent, is lost, or fails at once.             *)
LEMMA SendKeeps ==
  ASSUME BridgeInv, NEW c \in Calls, conn[c] \in Conns,
         NEW fate \in {"sent", "lost", "failed"},
         FetchRoots(c, fate) \/ Ask(c, fate)
  PROVE  BridgeInv'
<1> BridgeTypeOK
  BY DEF BridgeInv
<1>1. CASE FetchRoots(c, fate)
  <2>1. /\ pc[c] \notin Waiting
        /\ Issue(c, "roots", fate)
        /\ lock[conn[c]] = Nobody
        /\ UNCHANGED <<conn, stopped, roots, handled, current>>
    BY <1>1 DEF FetchRoots, EndCheck, Waiting
  <2>2. /\ pc' = [pc EXCEPT ![c] = IF fate = "failed" THEN "working" ELSE "fetching"]
        /\ lock' = IF fate # "failed" THEN [lock EXCEPT ![conn[c]] = c] ELSE lock
        /\ late' \in [Calls -> BOOLEAN]
    BY <1>1 DEF FetchRoots, EndCheck, Goto, HoldLock, BridgeTypeOK
  <2> QED
    BY <2>1, <2>2, IssueKeeps DEF Kinds
<1>2. CASE Ask(c, fate)
  <2>1. /\ pc[c] \notin Waiting
        /\ Issue(c, "completion", fate)
        /\ UNCHANGED <<conn, stopped, late, lock, roots, handled, current>>
    BY <1>2 DEF Ask, Waiting
  <2>2. pc' = [pc EXCEPT ![c] = IF fate = "failed" THEN "working" ELSE "asking"]
    BY <1>2 DEF Ask, Goto
  <2> QED
    BY <2>1, <2>2, IssueKeeps DEF Kinds, BridgeTypeOK
<1> QED
  BY <1>1, <1>2

----------------------------------------------------------------------------
(* A call that has something to do, or a timer that ends its wait.  Only   *)
(* for the lock of the roots it waits without one.                         *)
Unblocked(c) ==
    \/ pc[c] \in {"started", "working"} \cup Waiting
    \/ pc[c] = "locking" /\ lock[conn[c]] = Nobody

LEMMA SomeoneUnblocked ==
  ASSUME BridgeInv, NEW c \in Calls, pc[c] \in {"started", "locking", "working"} \cup Waiting
  PROVE  \E d \in Calls : Unblocked(d)
<1>1. CASE pc[c] = "locking" /\ lock[conn[c]] # Nobody
  <2>1. conn[c] \in Conns
    BY <1>1 DEF BridgeInv, ConnOK
  <2>2. PICK d \in Calls : lock[conn[c]] = d
    BY <1>1, <2>1 DEF BridgeInv, BridgeTypeOK
  <2>3. pc[d] = "fetching"
    BY <2>1, <2>2 DEF BridgeInv, LockOK
  <2> QED
    BY <2>3 DEF Unblocked, Waiting
<1>2. CASE ~(pc[c] = "locking" /\ lock[conn[c]] # Nobody)
  BY <1>2 DEF Unblocked
<1> QED
  BY <1>1, <1>2
============================================================================
