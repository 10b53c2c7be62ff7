---------------------------- MODULE Mcp_proofs ----------------------------
(***************************************************************************)
(* What holds of the MCP server over HTTP and over standard input and      *)
(* output, for any number of calls, sessions, streams and messages,        *)
(* whatever the bounds.  The two transports share the requester and the    *)
(* roots, and so the lemmas of ClientBridge_proofs: the first half of the  *)
(* module is about McpHttp, the second about McpStdio.                     *)
(***************************************************************************)
EXTENDS McpHttp, McpStdio, ClientBridge_proofs, FiniteSetTheorems, SequenceTheorems

\* The part of HttpTypeOK on the variables of this module.
HttpShapes ==
    /\ header \in [Calls -> Conns \cup {Nobody}]
    /\ created \subseteq Conns
    /\ sessions \subseteq created
    /\ at \in [Streams -> {"none", "open", "returned"}]
    /\ session \in [Streams -> Conns \cup {Nobody}]
    /\ stream \in [Conns -> Streams \cup {Nobody}]

\* A place of the semaphore is held by each call that runs, and nobody else.
SlotsOK ==
    /\ slots = {c \in Calls : pc[c] \notin {"idle", "queued", "done"}}
    /\ IsFiniteSet(slots)
    /\ Cardinality(slots) <= MaxSlots

\* The order lists the sessions once each, within their maximum.
OrderOK ==
    /\ order \in Seq(Conns)
    /\ ToSet(order) = sessions
    /\ IsInjective(order)
    /\ Len(order) <= MaxSessions

\* A call over HTTP replies and finishes in one step; only those on the pipe
\* are ever at the places in between.
PlacesOK == \A c \in Calls : pc[c] \notin {"replying", "finishing"}

HttpInv == BridgeInv /\ HttpShapes /\ SlotsOK /\ OrderOK /\ StreamOwned

----------------------------------------------------------------------------
(* The sequence of the registry: what its operations leave of it.          *)
LEMMA AppendOrder ==
  ASSUME NEW S, NEW q \in Seq(S), IsInjective(q), NEW s \in S, s \notin ToSet(q)
  PROVE  /\ Append(q, s) \in Seq(S)
         /\ ToSet(Append(q, s)) = ToSet(q) \cup {s}
         /\ IsInjective(Append(q, s))
         /\ Len(Append(q, s)) = Len(q) + 1
<1> DEFINE r == Append(q, s)
<1>1. /\ r \in Seq(S) /\ Len(r) = Len(q) + 1
      /\ \A i \in 1 .. Len(q) : r[i] = q[i]
      /\ r[Len(q) + 1] = s
  BY AppendProperties
<1>2. DOMAIN q = 1 .. Len(q) /\ DOMAIN r = 1 .. Len(r) /\ Len(q) \in Nat
  BY <1>1, LenProperties
<1> HIDE DEF r
<1>3. DOMAIN r = (DOMAIN q) \cup {Len(q) + 1}
  BY <1>1, <1>2
<1>4. ToSet(r) = ToSet(q) \cup {s}
  BY <1>1, <1>2, <1>3 DEF ToSet
<1>5. IsInjective(r)
  BY <1>1, <1>2, <1>3 DEF IsInjective, ToSet
<1> QED
  BY <1>1, <1>4, <1>5 DEF r

(* Deleted: every other session keeps its place.                           *)
LEMMA RemoveOrder ==
  ASSUME NEW S, NEW q \in Seq(S), IsInjective(q), NEW i \in 1 .. Len(q)
  PROVE  /\ RemoveAt(q, i) \in Seq(S)
         /\ ToSet(RemoveAt(q, i)) = ToSet(q) \ {q[i]}
         /\ IsInjective(RemoveAt(q, i))
         /\ Len(RemoveAt(q, i)) = Len(q) - 1
<1> DEFINE front == SubSeq(q, 1, i - 1)
           back == SubSeq(q, i + 1, Len(q))
           r == RemoveAt(q, i)
<1>1. DOMAIN q = 1 .. Len(q) /\ Len(q) \in Nat /\ \A j \in 1 .. Len(q) : q[j] \in S
  BY LenProperties, ElementOfSeq
<1>2. /\ front \in Seq(S) /\ Len(front) = i - 1
      /\ \A j \in 1 .. i - 1 : front[j] = q[j]
  BY <1>1, SubSeqProperties
<1>3. /\ back \in Seq(S) /\ Len(back) = Len(q) - i
      /\ \A j \in 1 .. Len(q) - i : back[j] = q[i + j]
  BY <1>1, SubSeqProperties
<1>4. r = front \o back
  BY DEF RemoveAt
<1> HIDE DEF front, back, r
<1>5. /\ r \in Seq(S) /\ Len(r) = Len(q) - 1
      /\ \A j \in 1 .. Len(q) - 1 : r[j] = IF j < i THEN q[j] ELSE q[j + 1]
  <2>1. /\ r \in Seq(S) /\ Len(r) = Len(front) + Len(back)
        /\ \A j \in 1 .. Len(front) + Len(back) :
              r[j] = IF j <= Len(front) THEN front[j] ELSE back[j - Len(front)]
    BY <1>2, <1>3, <1>4, ConcatProperties
  <2>2. Len(front) + Len(back) = Len(q) - 1
    BY <1>1, <1>2, <1>3
  <2>3. ASSUME NEW j \in 1 .. Len(q) - 1, j < i PROVE r[j] = q[j]
    BY <2>1, <2>2, <2>3, <1>1, <1>2
  <2>4. ASSUME NEW j \in 1 .. Len(q) - 1, ~(j < i) PROVE r[j] = q[j + 1]
    <3>1. r[j] = back[j - (i - 1)]
      BY <2>1, <2>2, <2>4, <1>1, <1>2
    <3>2. j - (i - 1) \in 1 .. Len(q) - i /\ i + (j - (i - 1)) = j + 1
      BY <2>4, <1>1
    <3> QED
      BY <3>1, <3>2, <1>3
  <2> QED
    BY <2>1, <2>2, <2>3, <2>4
<1>6. DOMAIN r = 1 .. Len(q) - 1
  BY <1>5, LenProperties
<1>7. ToSet(r) \subseteq ToSet(q) \ {q[i]}
  BY <1>1, <1>5, <1>6 DEF ToSet, IsInjective
<1>8. ToSet(q) \ {q[i]} \subseteq ToSet(r)
  <2> SUFFICES ASSUME NEW j \in 1 .. Len(q), j # i PROVE q[j] \in ToSet(r)
    BY <1>1 DEF ToSet
  <2>1. CASE j < i
    BY <2>1, <1>1, <1>5, <1>6 DEF ToSet
  <2>2. CASE j > i
    <3>1. j - 1 \in 1 .. Len(q) - 1 /\ r[j - 1] = q[j]
      BY <2>2, <1>1, <1>5
    <3> QED
      BY <3>1, <1>6 DEF ToSet
  <2> QED
    BY <2>1, <2>2, <1>1
<1>9. IsInjective(r)
  BY <1>1, <1>5, <1>6 DEF IsInjective
<1> QED
  BY <1>5, <1>7, <1>8, <1>9 DEF r

(* Evicted: the oldest.                                                    *)
LEMMA TailOrder ==
  ASSUME NEW S, NEW q \in Seq(S), IsInjective(q), q # << >>
  PROVE  /\ Tail(q) \in Seq(S)
         /\ ToSet(Tail(q)) = ToSet(q) \ {Head(q)}
         /\ IsInjective(Tail(q))
         /\ Len(Tail(q)) = Len(q) - 1
<1> DEFINE r == Tail(q)
<1>1. DOMAIN q = 1 .. Len(q) /\ Len(q) \in Nat /\ Len(q) > 0 /\ Head(q) = q[1]
  BY LenProperties, EmptySeq
<1>2. /\ r \in Seq(S) /\ Len(r) = Len(q) - 1
      /\ \A i \in 1 .. Len(r) : r[i] = q[i + 1]
  BY HeadTailProperties
<1> HIDE DEF r
<1>3. DOMAIN r = 1 .. Len(q) - 1
  BY <1>2, LenProperties
<1>4. ToSet(r) \subseteq ToSet(q) \ {Head(q)}
  BY <1>1, <1>2, <1>3 DEF ToSet, IsInjective
<1>5. ToSet(q) \ {Head(q)} \subseteq ToSet(r)
  <2> SUFFICES ASSUME NEW j \in 1 .. Len(q), j # 1 PROVE q[j] \in ToSet(r)
    BY <1>1 DEF ToSet
  <2>1. j - 1 \in 1 .. Len(q) - 1 /\ r[j - 1] = q[j]
    BY <1>1, <1>2
  <2> QED
    BY <2>1, <1>3 DEF ToSet
<1>6. IsInjective(r)
  BY <1>1, <1>2, <1>3 DEF IsInjective
<1> QED
  BY <1>2, <1>4, <1>5, <1>6 DEF r

----------------------------------------------------------------------------
(* No call, no session, no stream.                                         *)
LEMMA HttpInitInv == HttpInit => HttpInv
<1> SUFFICES ASSUME HttpInit PROVE HttpInv
  OBVIOUS
<1> USE NobodyAssumption, SlotsAssumption, StreamsAssumption DEF HttpInit
<1>1. BridgeInv
  BY BridgeInvInit
<1>2. HttpShapes /\ StreamOwned
  BY DEF HttpShapes, StreamOwned
<1>3. SlotsOK
  BY FS_EmptySet DEF SlotsOK, BridgeInit
<1>4. OrderOK
  BY DEF OrderOK, ToSet, IsInjective
<1> QED
  BY <1>1, <1>2, <1>3, <1>4 DEF HttpInv

(* Steps of the bridge leave the variables of this module alone, and no    *)
(* call begins or ends by them.                                            *)
LEMMA HttpFrame ==
  ASSUME HttpInv, UNCHANGED handlerVars,
         pc' \in [Calls -> Places],
         \A c \in Calls : pc'[c] # pc[c] =>
            /\ pc[c] \in {"idle", "queued", "done"} <=> pc'[c] \in {"idle", "queued", "done"}
  PROVE  (HttpShapes /\ SlotsOK /\ OrderOK /\ StreamOwned)'
<1>1. (HttpShapes /\ OrderOK /\ StreamOwned)'
  BY DEF HttpInv, handlerVars, registryVars, streamVars, HttpShapes, OrderOK, StreamOwned
<1>2. SlotsOK'
  BY DEF HttpInv, handlerVars, SlotsOK, BridgeInv, BridgeTypeOK
<1> QED
  BY <1>1, <1>2

(* The calls.                                                              *)
LEMMA HttpCallKeeps ==
  ASSUME HttpInv, NEW c \in Calls, Step(c) \/ DeadlinePasses(c) \/ ClientLeaves(c)
                                 \/ \E s \in Conns : PostCall(c, s)
  PROVE  HttpInv'
<1> BridgeInv /\ BridgeTypeOK
  BY DEF HttpInv, BridgeInv
<1> USE NobodyAssumption, SlotsAssumption
<1> conn = [conn EXCEPT ![c] = conn[c]] /\ conn[c] \in Conns \cup {Nobody}
  BY DEF BridgeTypeOK
<1>1. CASE (BridgeStep(c) \/ Expire(c)) /\ UNCHANGED handlerVars
  <2>1. BridgeInv'
    BY <1>1, BridgeStepKeeps
  <2>2. \/ pc' = pc
        \/ /\ pc[c] \in {"started", "locking", "fetching", "asking"}
           /\ \E place \in {"locking", "working"} : pc' = [pc EXCEPT ![c] = place]
    BY <1>1 DEF BridgeStep, Expire, CheckRoots, SkipRoots, LoadRoots, TakeRoots, TakeAnswer,
                GiveUpEarly, GiveUp, GiveUpRoots, StopAsking, EndCheck, Goto
  <2>3. pc' \in [Calls -> Places]
    BY <2>1 DEF BridgeInv, BridgeTypeOK
  <2> QED
    BY <1>1, <2>1, <2>2, <2>3, HttpFrame DEF HttpInv, BridgeTypeOK
<1>2. CASE Send(c) /\ UNCHANGED handlerVars
  <2>1. PICK fate \in {"sent", "lost", "failed"} : FetchRoots(c, fate) \/ Ask(c, fate)
    BY <1>2 DEF Send, Fates
  <2>2. BridgeInv'
    BY <1>2, <2>1, SendKeeps DEF Send
  <2>3. /\ pc[c] \in {"locking", "working"}
        /\ \E place \in {"fetching", "asking", "working"} : pc' = [pc EXCEPT ![c] = place]
    BY <2>1 DEF FetchRoots, Ask, EndCheck, Goto
  <2>4. pc' \in [Calls -> Places]
    BY <2>2 DEF BridgeInv, BridgeTypeOK
  <2> QED
    BY <1>2, <2>2, <2>3, <2>4, HttpFrame DEF HttpInv, BridgeTypeOK
<1>3. CASE ServerBusy(c)
  <2>1. BridgeInv'
    BY <1>3, MoveKeeps DEF ServerBusy, Idle, BridgeTypeOK
  <2> QED
    BY <1>3, <2>1, HttpFrame DEF HttpInv, ServerBusy, Goto, BridgeInv, BridgeTypeOK
<1>4. CASE ClientLeaves(c)
  <2>1. BridgeInv'
    BY <1>4, MarkKeeps DEF ClientLeaves, BridgeTypeOK
  <2> QED
    BY <1>4, <2>1, HttpFrame DEF HttpInv, ClientLeaves, BridgeTypeOK
<1>5. CASE \E s \in Conns : PostCall(c, s)
  <2>1. BridgeInv'
    BY <1>5, MoveKeeps DEF PostCall, Idle, BridgeTypeOK
  <2>2. (HttpShapes /\ OrderOK /\ StreamOwned)'
    BY <1>5 DEF HttpInv, PostCall, registryVars, streamVars, HttpShapes, OrderOK, StreamOwned
  <2>3. SlotsOK'
    BY <1>5 DEF HttpInv, PostCall, SlotsOK, Goto, BridgeTypeOK
  <2> QED
    BY <2>1, <2>2, <2>3 DEF HttpInv
<1>6. CASE Acquire(c)
  <2>0. header[c] \in Conns \cup {Nobody}
    BY DEF HttpInv, HttpShapes
  <2>1. BridgeInv'
    BY <1>6, <2>0, MoveKeeps DEF Acquire, Idle, BridgeTypeOK
  <2>2. (HttpShapes /\ OrderOK /\ StreamOwned)'
    BY <1>6 DEF HttpInv, Acquire, registryVars, streamVars, HttpShapes, OrderOK, StreamOwned
  <2>3. slots' = {d \in Calls : pc'[d] \notin {"idle", "queued", "done"}}
    BY <1>6 DEF HttpInv, Acquire, SlotsOK, Goto, BridgeTypeOK
  <2>4. IsFiniteSet(slots') /\ Cardinality(slots') <= MaxSlots
    <3>1. IsFiniteSet(slots) /\ Cardinality(slots) < MaxSlots /\ slots' = slots \cup {c}
      BY <1>6 DEF HttpInv, Acquire, SlotsOK
    <3>2. IsFiniteSet(slots') /\ Cardinality(slots') \in {Cardinality(slots), Cardinality(slots) + 1}
      BY <3>1, FS_AddElement
    <3>3. Cardinality(slots) \in Nat
      BY <3>1, FS_CardinalityType
    <3> QED
      BY <3>1, <3>2, <3>3
  <2> QED
    BY <2>1, <2>2, <2>3, <2>4 DEF HttpInv, SlotsOK
<1>7. CASE Return(c)
  <2>1. BridgeInv'
    BY <1>7, MoveKeeps DEF Return, Idle, BridgeTypeOK
  <2>2. (HttpShapes /\ OrderOK /\ StreamOwned)'
    BY <1>7 DEF HttpInv, Return, registryVars, streamVars, HttpShapes, OrderOK, StreamOwned
  <2>3. slots' = {d \in Calls : pc'[d] \notin {"idle", "queued", "done"}}
    BY <1>7 DEF HttpInv, Return, SlotsOK, Goto, BridgeTypeOK
  <2>4. IsFiniteSet(slots') /\ Cardinality(slots') <= MaxSlots
    <3>1. IsFiniteSet(slots) /\ Cardinality(slots) <= MaxSlots /\ slots' \in SUBSET slots
      BY <1>7 DEF HttpInv, Return, SlotsOK
    <3>2. IsFiniteSet(slots') /\ Cardinality(slots') <= Cardinality(slots)
      BY <3>1, FS_Subset
    <3>3. Cardinality(slots) \in Nat /\ Cardinality(slots') \in Nat
      BY <3>1, <3>2, FS_CardinalityType
    <3> QED
      BY <3>1, <3>2, <3>3
  <2> QED
    BY <2>1, <2>2, <2>3, <2>4 DEF HttpInv, SlotsOK
<1> QED
  BY <1>1, <1>2, <1>3, <1>4, <1>5, <1>6, <1>7 DEF Step, DeadlinePasses

(* The registry.                                                           *)
LEMMA CreateKeeps ==
  ASSUME HttpInv, NEW s \in Conns, Create(s)
  PROVE  HttpInv'
<1> DEFINE full == Len(order) >= MaxSessions
           kept == IF full THEN Tail(order) ELSE order
<1> USE SlotsAssumption
<1>1. OrderOK /\ sessions \subseteq created /\ s \notin created
  BY DEF HttpInv, HttpShapes, Create
<1>2. order' = Append(kept, s)
      /\ sessions' = (IF full THEN sessions \ {Head(order)} ELSE sessions) \cup {s}
      /\ created' = created \cup {s}
  BY DEF Create
<1>3. /\ kept \in Seq(Conns)
      /\ ToSet(kept) = IF full THEN sessions \ {Head(order)} ELSE sessions
      /\ IsInjective(kept)
      /\ Len(kept) < MaxSessions
  <2>1. Len(order) \in Nat /\ Len(order) <= MaxSessions /\ (full => order # << >>)
    BY <1>1, LenProperties, EmptySeq DEF OrderOK
  <2>2. CASE full
    BY <1>1, <2>1, <2>2, TailOrder DEF OrderOK
  <2>3. CASE ~full
    BY <1>1, <2>1, <2>3 DEF OrderOK
  <2> QED
    BY <2>2, <2>3
<1>4. s \notin ToSet(kept)
  BY <1>1, <1>3
<1> HIDE DEF kept
<1>5. OrderOK'
  <2>1. /\ Append(kept, s) \in Seq(Conns)
        /\ ToSet(Append(kept, s)) = ToSet(kept) \cup {s}
        /\ IsInjective(Append(kept, s))
        /\ Len(Append(kept, s)) = Len(kept) + 1
    BY <1>3, <1>4, AppendOrder
  <2>2. Len(kept) \in Nat
    BY <1>3, LenProperties
  <2> QED
    BY <1>2, <1>3, <2>1, <2>2 DEF OrderOK
<1>6. BridgeInv' /\ SlotsOK' /\ StreamOwned'
  <2>1. BridgeInv'
    BY MarkKeeps DEF HttpInv, BridgeInv, BridgeTypeOK, Create, bridgeVars, callVars
  <2> QED
    BY <2>1 DEF HttpInv, Create, bridgeVars, callVars, streamVars, SlotsOK, StreamOwned
<1>7. HttpShapes'
  BY <1>1, <1>2 DEF HttpInv, Create, HttpShapes, streamVars
<1> QED
  BY <1>5, <1>6, <1>7 DEF HttpInv

LEMMA RemoveKeeps ==
  ASSUME HttpInv, NEW s \in Conns, RemoveSession(s)
  PROVE  HttpInv'
<1>1. PICK i \in 1 .. Len(order) : order[i] = s /\ order' = RemoveAt(order, i)
  BY DEF RemoveSession
<1>2. OrderOK'
  <2>1. order \in Seq(Conns) /\ IsInjective(order) /\ ToSet(order) = sessions
        /\ Len(order) <= MaxSessions /\ Len(order) \in Nat
    BY LenProperties DEF HttpInv, OrderOK
  <2>2. /\ order' \in Seq(Conns)
        /\ ToSet(order') = sessions \ {s}
        /\ IsInjective(order')
        /\ Len(order') = Len(order) - 1
    BY <1>1, <2>1, RemoveOrder
  <2> QED
    BY <2>1, <2>2, SlotsAssumption DEF OrderOK, RemoveSession
<1>3. BridgeInv' /\ SlotsOK' /\ StreamOwned' /\ HttpShapes'
  <2>1. BridgeInv'
    BY MarkKeeps DEF HttpInv, BridgeInv, BridgeTypeOK, RemoveSession, bridgeVars, callVars
  <2> QED
    BY <2>1 DEF HttpInv, RemoveSession, bridgeVars, callVars, streamVars, SlotsOK, StreamOwned, HttpShapes
<1> QED
  BY <1>2, <1>3 DEF HttpInv

(* The streams.                                                            *)
LEMMA StreamKeeps ==
  ASSUME HttpInv, NEW g \in Streams, (\E s \in Conns : Attach(g, s)) \/ Detach(g)
  PROVE  HttpInv'
<1> USE NobodyAssumption, StreamsAssumption
<1> HttpShapes /\ StreamOwned
  BY DEF HttpInv
<1>1. UNCHANGED <<bridgeVars, header, slots, registryVars>>
  BY DEF Attach, Detach
<1>2. BridgeInv' /\ SlotsOK' /\ OrderOK'
  <2>1. BridgeInv'
    BY <1>1, MarkKeeps DEF HttpInv, BridgeInv, BridgeTypeOK, bridgeVars, callVars
  <2> QED
    BY <1>1, <2>1 DEF HttpInv, bridgeVars, callVars, registryVars, SlotsOK, OrderOK
<1>3. ASSUME NEW s \in Conns, Attach(g, s) PROVE HttpShapes' /\ StreamOwned'
  BY <1>1, <1>3 DEF Attach, HttpShapes, StreamOwned, registryVars
<1>4. ASSUME Detach(g) PROVE HttpShapes' /\ StreamOwned'
  <2>1. HttpShapes'
    BY <1>1, <1>4 DEF Detach, HttpShapes, registryVars
  <2>2. StreamOwned'
    BY <1>4 DEF Detach, HttpShapes, StreamOwned
  <2> QED
    BY <2>1, <2>2
<1> QED
  BY <1>2, <1>3, <1>4 DEF HttpInv

(* What the clients post.                                                  *)
LEMMA PostKeeps ==
  ASSUME HttpInv, NEW s \in Conns,
         \/ RootsChange(s)
         \/ \E request \in asked[s] : \E value \in ValuesFor(s, request) : HandleReply(s, request, value)
         \/ \E version \in 1 .. current[s] : HandleRootsChanged(s, version)
  PROVE  HttpInv'
<1> BridgeInv /\ BridgeTypeOK
  BY DEF HttpInv, BridgeInv
<1> USE BoundsAssumption
<1>1. UNCHANGED handlerVars /\ pc' = pc
  BY DEF RootsChange, HandleReply, HandleRootsChanged, callVars
<1>2. BridgeInv'
  <2>1. CASE RootsChange(s)
    BY <2>1, ChangeRootsKeeps DEF RootsChange
  <2>2. ASSUME NEW request \in asked[s], NEW value \in ValuesFor(s, request),
               HandleReply(s, request, value)
        PROVE  BridgeInv'
    <3>1. request \in Request /\ current[s] \in Versions
      BY DEF BridgeTypeOK
    <3>2. value \in Versions \cup {Nobody}
          /\ (request.kind = "roots" /\ value # Nobody => value >= request.since)
      BY <3>1 DEF ValuesFor, Request, Versions
    <3> QED
      BY <2>2, <3>2, DeliverKeeps DEF HandleReply
  <2>3. ASSUME NEW version \in 1 .. current[s], HandleRootsChanged(s, version) PROVE BridgeInv'
    BY <2>3, InvalidateKeeps DEF HandleRootsChanged
  <2> QED
    BY <2>1, <2>2, <2>3
<1> QED
  BY <1>1, <1>2, HttpFrame DEF HttpInv, BridgeInv, BridgeTypeOK

(* The invariant of the server over HTTP.                                  *)
LEMMA HttpInvariant == HttpSpec => []HttpInv
<1>1. ASSUME HttpInv, HttpNext PROVE HttpInv'
  BY <1>1, HttpCallKeeps, CreateKeeps, RemoveKeeps, StreamKeeps, PostKeeps
     DEF HttpNext, Clients, Handlers
<1>2. ASSUME HttpInv, UNCHANGED httpVars PROVE HttpInv'
  <2>1. BridgeInv'
    BY <1>2, MarkKeeps DEF httpVars, bridgeVars, callVars, HttpInv, BridgeInv, BridgeTypeOK
  <2> QED
    BY <1>2, <2>1, HttpFrame DEF httpVars, bridgeVars, callVars, HttpInv, BridgeInv, BridgeTypeOK
<1> QED
  BY <1>1, <1>2, HttpInitInv, PTL DEF HttpSpec

(* A call over HTTP is never where only calls on the pipe are.             *)
LEMMA PlacesInvariant == HttpSpec => []PlacesOK
<1>1. HttpInit => PlacesOK
  BY DEF HttpInit, BridgeInit, PlacesOK
<1>2. ASSUME HttpInv, PlacesOK, HttpNext PROVE PlacesOK'
  <2> pc \in [Calls -> Places]
    BY <1>2 DEF HttpInv, BridgeInv, BridgeTypeOK
  <2>1. \/ UNCHANGED pc
        \/ \E c \in Calls, place \in Places \ {"replying", "finishing"} : Goto(c, place)
    <3> USE DEF bridgeVars, callVars, Goto, Places
    <3>1. ASSUME NEW c \in Calls, Step(c) \/ DeadlinePasses(c) \/ ClientLeaves(c)
                                  \/ \E s \in Conns : PostCall(c, s)
          PROVE  <2>1!1 \/ <2>1!2
      BY <3>1
         DEF Step, DeadlinePasses, ClientLeaves, PostCall, Acquire, ServerBusy, Return, Send,
             BridgeStep, Expire, CheckRoots, SkipRoots, LoadRoots, TakeRoots, TakeAnswer,
             GiveUpEarly, GiveUp, GiveUpRoots, StopAsking, FetchRoots, Ask, EndCheck
    <3>2. ASSUME \/ \E s \in Conns : RootsChange(s)
                 \/ Handlers
          PROVE  UNCHANGED pc
      BY <3>2
         DEF RootsChange, Handlers, Create, RemoveSession, HandleReply, HandleRootsChanged,
             Attach, Detach
    <3> QED
      BY <1>2, <3>1, <3>2 DEF HttpNext, Clients
  <2> QED
    BY <1>2, <2>1 DEF PlacesOK, Goto
<1>3. ASSUME PlacesOK, UNCHANGED httpVars PROVE PlacesOK'
  BY <1>3 DEF PlacesOK, httpVars, bridgeVars, callVars
<1> QED
  BY <1>1, <1>2, <1>3, HttpInvariant, PTL DEF HttpSpec

----------------------------------------------------------------------------
(* The variables stay in their shapes, the registry's order lists its      *)
(* sessions once each and at most as many as there may be, and the places  *)
(* of the semaphore are held by the calls that run, never more than it has *)
(* (mcp_http_registry.go, mcp_http_handler.go).                            *)
THEOREM HttpTypeCorrect == HttpSpec => []HttpTypeOK
<1>1. HttpInv => HttpTypeOK
  BY DEF HttpInv, BridgeInv, HttpShapes, SlotsOK, OrderOK, HttpTypeOK
<1> QED
  BY <1>1, HttpInvariant, PTL

(* An answer of the client reaches the call that sent the request it       *)
(* answers, while that call waits for it, in whatever order, how often and *)
(* how late the answers arrive (mcp_client_requester.go).                  *)
THEOREM HttpAnswersMatch == HttpSpec => []RepliesMatch
<1>1. HttpInv => RepliesMatch
  BY BridgeInvMatches DEF HttpInv
<1> QED
  BY <1>1, HttpInvariant, PTL

(* No roots from before a list_changed that was handled are kept or about  *)
(* to be used (mcp_client_roots.go).                                       *)
THEOREM RootsStayFresh == HttpSpec => []RootsFresh
<1>1. HttpInv => RootsFresh
  BY BridgeInvFresh DEF HttpInv
<1> QED
  BY <1>1, HttpInvariant, PTL

(* What a session writes to is the response of a stream of its own that is *)
(* still open (mcp_http_stream.go).                                        *)
THEOREM StreamsStayOwned == HttpSpec => []StreamOwned
<1>1. HttpInv => StreamOwned
  BY DEF HttpInv
<1> QED
  BY <1>1, HttpInvariant, PTL

(* The semaphore is held over the wait for the lock of the roots, and that *)
(* lock over a fetch; still they never have everybody wait: as long as a   *)
(* call is under way or queued, some call can go on, or its timer ends     *)
(* what it waits for (mcp_http_handler.go, mcp_client_roots.go).           *)
HttpNeverStuck ==
    (\E c \in Calls : pc[c] \notin {"idle", "done"}) =>
        \/ \E c \in Calls : pc[c] = "queued" /\ Cardinality(slots) < MaxSlots
        \/ \E c \in Calls : Unblocked(c)

THEOREM HttpCallsNeverStuck == HttpSpec => []HttpNeverStuck
<1>1. HttpInv /\ PlacesOK => HttpNeverStuck
  <2> SUFFICES ASSUME HttpInv, PlacesOK, NEW c \in Calls, pc[c] \notin {"idle", "done"},
                      ~(pc[c] = "queued" /\ Cardinality(slots) < MaxSlots)
               PROVE  \E d \in Calls : Unblocked(d)
    BY DEF HttpNeverStuck
  <2>1. ASSUME NEW d \in Calls, pc[d] \notin {"idle", "queued", "done"}
        PROVE  pc[d] \in {"started", "locking", "working"} \cup Waiting
    BY <2>1 DEF HttpInv, BridgeInv, BridgeTypeOK, Places, PlacesOK, Waiting
  <2>2. PICK d \in Calls : pc[d] \notin {"idle", "queued", "done"}
    <3>1. CASE pc[c] # "queued"
      BY <3>1
    <3>2. CASE pc[c] = "queued"
      <4>1. slots # {}
        BY <3>2, FS_EmptySet, SlotsAssumption
      <4> QED
        BY <4>1 DEF HttpInv, SlotsOK
    <3> QED
      BY <3>1, <3>2
  <2> QED
    BY <2>1, <2>2, SomeoneUnblocked DEF HttpInv
<1> QED
  BY <1>1, HttpInvariant, PlacesInvariant, PTL

----------------------------------------------------------------------------
(* Standard input and output.                                              *)

\* A message on the pipe is one the client may have written: about a call it sent, a
\* version its roots had, a request that reached it.
MessageOK(message) ==
    /\ message.type = "call" => message.call \in sent /\ pc[message.call] = "idle"
    /\ message.type = "cancel" => message.call \in withdrawn
    /\ message.type = "changed" => message.version \in 1 .. current[Pipe]
    /\ message.type = "reply" =>
          \E request \in asked[Pipe], value \in Versions \cup {Nobody} :
             /\ message.reply = AnswerOf(request, value)
             /\ request.kind = "roots" /\ value # Nobody => value >= request.since

Starts(message, c) == message.type = "call" /\ message.call = c

\* No call is on the pipe twice.
WireOK ==
    /\ \A i \in 1 .. Len(wire) : MessageOK(wire[i])
    /\ \A i, j \in 1 .. Len(wire) : \A c \in Calls :
          Starts(wire[i], c) /\ Starts(wire[j], c) => i = j

\* A call that was sent is on the pipe, runs and is listed, or is over; by then it is
\* answered, unless the client withdrew it or is gone.
CallOK(c) ==
    /\ pc[c] # "queued"
    /\ pc[c] # "idle" => c \in sent
    /\ pc[c] = "idle" /\ c \in sent => \E i \in 1 .. Len(wire) : Starts(wire[i], c)
    /\ c \in active <=> pc[c] \notin {"idle", "done"}
    /\ c \in cancelled => c \in active /\ c \in withdrawn
    /\ pc[c] \in {"finishing", "done"} => replied[c] # "nothing" \/ c \in withdrawn \/ broken

\* The reader stops once the pipe is empty for good or a line does not fit, and the
\* server after the calls.
ServeOK ==
    /\ serve \in {"waiting", "returned"} => (closed /\ wire = << >>) \/ Stalled
    /\ serve = "returned" => CallsReturned

StdioInv == BridgeInv /\ StdioTypeOK /\ WireOK /\ (\A c \in Calls : CallOK(c)) /\ ServeOK

----------------------------------------------------------------------------
(* The pipe: what a write and a read leave of it.                          *)
LEMMA AppendWire ==
  ASSUME wire \in Seq(Message), NEW m \in Message, wire' = Append(wire, m)
  PROVE  /\ wire' \in Seq(Message)
         /\ Len(wire) \in Nat
         /\ Len(wire') = Len(wire) + 1
         /\ \A i \in 1 .. Len(wire) : wire'[i] = wire[i]
         /\ wire'[Len(wire) + 1] = m
BY AppendProperties, LenProperties

(* What is read is its first message.                                      *)
LEMMA TailWire ==
  ASSUME wire \in Seq(Message), wire # << >>, wire' = Tail(wire)
  PROVE  /\ wire' \in Seq(Message)
         /\ Len(wire) \in Nat \ {0}
         /\ Len(wire') = Len(wire) - 1
         /\ \A i \in 1 .. Len(wire) - 1 : wire'[i] = wire[i + 1]
         /\ Head(wire) = wire[1]
         /\ Head(wire) \in Message
BY HeadTailProperties, LenProperties, EmptySeq

----------------------------------------------------------------------------
(* Nothing is written, nobody runs.                                        *)
LEMMA StdioInitInv == StdioInit => StdioInv
<1> SUFFICES ASSUME StdioInit PROVE StdioInv
  OBVIOUS
<1> USE DEF StdioInit
<1>1. BridgeInv
  BY BridgeInvInit
<1>2. StdioTypeOK
  BY <1>1, EmptySeq DEF StdioTypeOK, BridgeInv
<1>3. WireOK /\ ServeOK /\ \A c \in Calls : CallOK(c)
  BY DEF WireOK, ServeOK, CallOK, BridgeInit
<1> QED
  BY <1>1, <1>2, <1>3 DEF StdioInv

(* What is on the pipe stays acceptable while no call on it begins.        *)
LEMMA MessageStays ==
  ASSUME StdioInv, NEW m \in Message, MessageOK(m),
         sent \subseteq sent', withdrawn \subseteq withdrawn',
         asked[Pipe] \subseteq asked'[Pipe],
         current'[Pipe] \in Versions, current'[Pipe] >= current[Pipe],
         m.type = "call" => pc'[m.call] = pc[m.call]
  PROVE  MessageOK(m)'
<1>1. current[Pipe] \in Versions
  BY PipeAssumption DEF StdioInv, BridgeInv, BridgeTypeOK
<1>2. 1 .. current[Pipe] \subseteq 1 .. current'[Pipe]
  BY <1>1, BoundsAssumption DEF Versions
<1> QED
  BY <1>2 DEF MessageOK

(* The client writes a message.                                            *)
LEMMA WriteKeeps ==
  ASSUME StdioInv, BridgeInv', NEW m \in Message, Writes(m), MessageOK(m)',
         UNCHANGED <<pc, asked, closed, broken, mcpVars>>, greeted' \in BOOLEAN,
         sent \subseteq sent', sent' \subseteq Calls,
         withdrawn \subseteq withdrawn', withdrawn' \subseteq sent',
         current'[Pipe] >= current[Pipe],
         \A c \in Calls : Starts(m, c) => c \notin sent,
         \A c \in sent' \ sent : Starts(m, c)
  PROVE  StdioInv'
<1> USE DEF StdioInv
<1>1. /\ wire' \in Seq(Message)
      /\ Len(wire) \in Nat
      /\ Len(wire') = Len(wire) + 1
      /\ \A i \in 1 .. Len(wire) : wire'[i] = wire[i] /\ wire[i] \in Message
      /\ wire'[Len(wire) + 1] = m
  BY AppendWire, ElementOfSeq DEF Writes, StdioTypeOK
<1>2. \A i \in 1 .. Len(wire') : i \in 1 .. Len(wire) \/ i = Len(wire) + 1
  BY <1>1
<1>3. StdioTypeOK'
  BY <1>1 DEF StdioTypeOK, BridgeInv, mcpVars
<1>4. current'[Pipe] \in Versions
  BY PipeAssumption DEF BridgeInv, BridgeTypeOK
<1>5. \A i \in 1 .. Len(wire') : \E n \in Message : n = wire'[i] /\ MessageOK(n)'
  <2>1. ASSUME NEW n \in Message, MessageOK(n) PROVE MessageOK(n)'
    BY <1>4, <2>1, MessageStays
  <2>2. ASSUME NEW i \in 1 .. Len(wire)
        PROVE  \E n \in Message : n = wire'[i] /\ MessageOK(n)'
    <3>1. PICK n \in Message : n = wire[i] /\ MessageOK(n)
      BY <1>1 DEF WireOK
    <3> QED
      BY <1>1, <2>1, <3>1
  <2> QED
    BY <1>1, <1>2, <2>2
<1>6. \A i \in 1 .. Len(wire), c \in Calls : Starts(wire[i], c) => c \in sent
  BY DEF WireOK, MessageOK, Starts
<1>7. WireOK'
  <2>1. \A i, j \in 1 .. Len(wire') : \A c \in Calls :
           Starts(wire'[i], c) /\ Starts(wire'[j], c) => i = j
    BY <1>1, <1>2, <1>6 DEF WireOK, Starts
  <2>2. (\A i \in 1 .. Len(wire) : MessageOK(wire[i]))'
    BY <1>5 DEF MessageOK
  <2> QED
    BY <2>1, <2>2 DEF WireOK, Starts
<1>8. ASSUME NEW c \in Calls PROVE CallOK(c)'
  <2>1. CallOK(c)
    OBVIOUS
  <2>2. pc'[c] = "idle" /\ c \in sent' => \E i \in 1 .. Len(wire') : Starts(wire'[i], c)
    BY <1>1, <2>1 DEF CallOK
  <2> QED
    BY <2>1, <2>2 DEF CallOK, mcpVars, Starts
<1>9. ServeOK'
  <2>1. Stalled => Stalled'
    BY <1>1, EmptySeq, HeadTailProperties DEF Stalled, StdioTypeOK
  <2> QED
    BY <2>1 DEF ServeOK, CallsReturned, Writes, mcpVars
<1> QED
  BY <1>3, <1>7, <1>8, <1>9

(* Everything the client writes is acceptable when it writes it.           *)
LEMMA ClientKeeps ==
  ASSUME StdioInv, Client
  PROVE  StdioInv'
<1> BridgeInv /\ BridgeTypeOK /\ StdioTypeOK /\ Pipe \in Conns
  BY PipeAssumption DEF StdioInv, BridgeInv
<1> USE DEF bridgeVars, callVars, serverVars, clientVars
<1>0. current[Pipe] \in Versions /\ current[Pipe] \in Nat
  BY BoundsAssumption DEF BridgeTypeOK, Versions
<1>1. CASE ClientGreets
  <2> DEFINE m == [type |-> "initialize"]
  <2>1. BridgeInv'
    BY <1>1, MarkKeeps DEF ClientGreets, BridgeTypeOK
  <2>2. m \in Message /\ Writes(m) /\ m.type = "initialize"
    BY <1>1 DEF ClientGreets, Message
  <2>3. MessageOK(m)' /\ \A c \in Calls : ~Starts(m, c)
    BY DEF MessageOK, Starts
  <2> HIDE DEF m
  <2> QED
    BY <1>0, <1>1, <2>1, <2>2, <2>3, WriteKeeps DEF ClientGreets, StdioTypeOK
<1>2. ASSUME NEW c \in Calls, ClientCalls(c) PROVE StdioInv'
  <2> DEFINE m == [type |-> "call", call |-> c]
  <2>1. BridgeInv'
    BY <1>2, MarkKeeps DEF ClientCalls, BridgeTypeOK
  <2>2. m \in Message /\ Writes(m) /\ m.type = "call" /\ m.call = c
    BY <1>2 DEF ClientCalls, Message
  <2>3. c \notin sent /\ pc[c] = "idle" /\ sent' = sent \cup {c}
    BY <1>2 DEF ClientCalls, StdioInv, CallOK
  <2> HIDE DEF m
  <2>4. MessageOK(m)' /\ \A d \in Calls : Starts(m, d) <=> d = c
    BY <1>2, <2>2, <2>3 DEF MessageOK, Starts, ClientCalls
  <2> QED
    BY <1>0, <1>2, <2>1, <2>2, <2>3, <2>4, WriteKeeps DEF ClientCalls, StdioTypeOK
<1>3. ASSUME NEW c \in Calls, ClientCancels(c) PROVE StdioInv'
  <2> DEFINE m == [type |-> "cancel", call |-> c]
  <2>1. BridgeInv'
    BY <1>3, MarkKeeps DEF ClientCancels, BridgeTypeOK
  <2>2. m \in Message /\ Writes(m) /\ m.type = "cancel" /\ m.call = c
    BY <1>3 DEF ClientCancels, Message
  <2>3. c \in sent /\ withdrawn' = withdrawn \cup {c}
    BY <1>3 DEF ClientCancels
  <2> HIDE DEF m
  <2>4. MessageOK(m)' /\ \A d \in Calls : ~Starts(m, d)
    BY <2>2, <2>3 DEF MessageOK, Starts
  <2> QED
    BY <1>0, <1>3, <2>1, <2>2, <2>3, <2>4, WriteKeeps DEF ClientCancels, StdioTypeOK
<1>4. CASE ClientChangesRoots
  <2>0. PICK n \in Nat : n = current[Pipe] + 1
    BY <1>0
  <2> DEFINE m == [type |-> "changed", version |-> n]
  <2>1. BridgeInv'
    BY <1>4, ChangeRootsKeeps DEF ClientChangesRoots
  <2>2. current'[Pipe] = current[Pipe] + 1 /\ current'[Pipe] \in Versions
    BY <1>4, <2>1 DEF ClientChangesRoots, ChangeRoots, BridgeInv, BridgeTypeOK
  <2>3. m \in Message /\ Writes(m) /\ m.type = "changed" /\ m.version = n
    BY <1>4, <2>0, <2>2 DEF ClientChangesRoots, Message
  <2> HIDE DEF m
  <2>4. MessageOK(m)' /\ \A d \in Calls : ~Starts(m, d)
    BY <1>0, <2>0, <2>2, <2>3 DEF MessageOK, Starts
  <2> QED
    BY <1>0, <1>4, <2>1, <2>2, <2>3, <2>4, WriteKeeps
       DEF ClientChangesRoots, ChangeRoots, StdioTypeOK
<1>5. ASSUME NEW request \in asked[Pipe], NEW value \in AnswersTo(request),
             ClientAnswers(request, value)
      PROVE  StdioInv'
  <2> DEFINE m == [type |-> "reply", reply |-> AnswerOf(request, value)]
  <2>1. BridgeInv'
    BY <1>5, MarkKeeps DEF ClientAnswers, BridgeTypeOK
  <2>2. request \in Request /\ request.since <= current[Pipe]
    BY DEF BridgeTypeOK, BridgeInv, AskedOK
  <2>3. /\ value \in Versions \cup {Nobody}
        /\ request.kind = "roots" /\ value # Nobody => value >= request.since
    BY <1>0, <2>2, BoundsAssumption DEF AnswersTo, Request, Versions
  <2>4. AnswerOf(request, value) \in Reply
    BY <2>2, <2>3 DEF AnswerOf, Reply, Request
  <2>5. m \in Message /\ Writes(m) /\ m.type = "reply" /\ m.reply = AnswerOf(request, value)
    BY <1>5, <2>4 DEF ClientAnswers, Message
  <2> HIDE DEF m
  <2>6. MessageOK(m)' /\ \A d \in Calls : ~Starts(m, d)
    BY <1>5, <2>3, <2>5 DEF MessageOK, Starts, ClientAnswers
  <2> QED
    BY <1>0, <1>5, <2>1, <2>5, <2>6, WriteKeeps DEF ClientAnswers, StdioTypeOK
<1>6. CASE ClientOverflows
  <2> DEFINE m == [type |-> "oversized"]
  <2>1. BridgeInv'
    BY <1>6, MarkKeeps DEF ClientOverflows, BridgeTypeOK
  <2>2. m \in Message /\ Writes(m) /\ m.type = "oversized"
    BY <1>6 DEF ClientOverflows, Message
  <2>3. MessageOK(m)' /\ \A c \in Calls : ~Starts(m, c)
    BY DEF MessageOK, Starts
  <2> HIDE DEF m
  <2> QED
    BY <1>0, <1>6, <2>1, <2>2, <2>3, WriteKeeps DEF ClientOverflows, StdioTypeOK
<1>7. CASE ClientCloses \/ ClientDies
  <2>1. BridgeInv'
    BY <1>7, MarkKeeps DEF ClientCloses, ClientDies, BridgeTypeOK
  <2>2. /\ UNCHANGED <<bridgeVars, wire, greeted, sent, withdrawn, mcpVars>>
        /\ closed' = TRUE
        /\ broken' \in BOOLEAN
        /\ broken => broken'
    BY <1>7 DEF ClientCloses, ClientDies, StdioTypeOK
  <2>3. StdioTypeOK' /\ WireOK' /\ ServeOK'
    BY <2>1, <2>2
       DEF StdioInv, StdioTypeOK, BridgeInv, WireOK, MessageOK, Starts, ServeOK, Stalled,
           CallsReturned, mcpVars
  <2>4. ASSUME NEW c \in Calls PROVE CallOK(c)'
    <3>1. CallOK(c)
      BY DEF StdioInv
    <3> QED
      BY <2>2, <3>1 DEF CallOK, Starts, mcpVars
  <2> QED
    BY <2>1, <2>3, <2>4 DEF StdioInv
<1> QED
  BY <1>1, <1>2, <1>3, <1>4, <1>5, <1>6, <1>7 DEF Client

----------------------------------------------------------------------------
(* The reader takes a message off the pipe.                                *)
LEMMA ReadKeeps ==
  ASSUME StdioInv, BridgeInv', NEW m \in Message, Reads(m.type), Head(wire) = m,
         serve' \in {serve, "failed"}, UNCHANGED <<asked, current>>, initialized' \in BOOLEAN,
         active' \subseteq Calls, cancelled' \subseteq Calls,
         replied' \in [Calls -> {"nothing", "answered", "refused"}],
         \A c \in Calls : Starts(m, c) => pc'[c] # "idle" /\ CallOK(c)',
         \A c \in Calls : ~Starts(m, c) =>
            /\ pc'[c] = pc[c]
            /\ replied'[c] = replied[c]
            /\ c \in active' <=> c \in active
            /\ c \in cancelled' => c \in active /\ c \in withdrawn
  PROVE  StdioInv'
<1> USE DEF StdioInv
<1>1. /\ wire' \in Seq(Message)
      /\ Len(wire) \in Nat \ {0}
      /\ Len(wire') = Len(wire) - 1
      /\ \A i \in 1 .. Len(wire) - 1 : wire'[i] = wire[i + 1]
      /\ wire[1] = m
      /\ \A i \in 1 .. Len(wire) : wire[i] \in Message
  BY TailWire, ElementOfSeq DEF Reads, StdioTypeOK
<1>2. UNCHANGED <<closed, broken, greeted, sent, withdrawn>> /\ serve = "reading"
  BY DEF Reads
<1>3. StdioTypeOK'
  BY <1>1, <1>2 DEF StdioTypeOK, BridgeInv
<1>4. \A i \in 1 .. Len(wire) - 1 :
         i + 1 \in 1 .. Len(wire) /\ i + 1 # 1 /\ MessageOK(wire[i + 1])
  BY <1>1 DEF WireOK
<1>5. \A i \in 1 .. Len(wire') : \E n \in Message : n = wire'[i] /\ MessageOK(n)'
  <2>1. current[Pipe] \in Versions /\ current[Pipe] >= current[Pipe]
    BY PipeAssumption, BoundsAssumption DEF BridgeInv, BridgeTypeOK, Versions
  <2>2. ASSUME NEW n \in Message, MessageOK(n), \A c \in Calls : Starts(n, c) => ~Starts(m, c)
        PROVE  MessageOK(n)'
    <3>1. n.type = "call" => n.call \in Calls
      BY <2>2 DEF MessageOK, StdioTypeOK
    <3>2. n.type = "call" => pc'[n.call] = pc[n.call]
      BY <2>2, <3>1 DEF Starts
    <3> QED
      BY <1>2, <2>1, <2>2, <3>2, MessageStays
  <2>3. ASSUME NEW i \in 1 .. Len(wire) - 1
        PROVE  \E n \in Message : n = wire'[i] /\ MessageOK(n)'
    <3>1. PICK n \in Message : n = wire[i + 1] /\ MessageOK(n)
      BY <1>1, <1>4
    <3>2. \A c \in Calls : Starts(n, c) => ~Starts(m, c)
      BY <1>1, <1>4, <3>1 DEF WireOK
    <3> QED
      BY <1>1, <2>2, <3>1, <3>2
  <2> QED
    BY <1>1, <2>3
<1>6. WireOK'
  <2>1. \A i, j \in 1 .. Len(wire') : \A c \in Calls :
           Starts(wire'[i], c) /\ Starts(wire'[j], c) => i = j
    BY <1>1, <1>4 DEF WireOK
  <2>2. (\A i \in 1 .. Len(wire) : MessageOK(wire[i]))'
    BY <1>5 DEF MessageOK
  <2> QED
    BY <2>1, <2>2 DEF WireOK, Starts
<1>7. ASSUME NEW c \in Calls PROVE CallOK(c)'
  <2>1. CASE ~Starts(m, c)
    <3>1. CallOK(c)
      OBVIOUS
    <3>2. \A i \in 1 .. Len(wire) : Starts(wire[i], c) => i # 1
      BY <1>1, <2>1
    <3>3. pc[c] = "idle" /\ c \in sent => \E i \in 1 .. Len(wire') : Starts(wire'[i], c)
      <4>1. SUFFICES ASSUME pc[c] = "idle", c \in sent
                     PROVE  \E i \in 1 .. Len(wire') : Starts(wire'[i], c)
        OBVIOUS
      <4>2. PICK i \in 1 .. Len(wire) : Starts(wire[i], c) /\ i # 1
        BY <3>1, <3>2, <4>1 DEF CallOK
      <4>3. i - 1 \in 1 .. Len(wire') /\ wire'[i - 1] = wire[i]
        BY <1>1, <4>2
      <4> QED
        BY <4>2, <4>3
    <3> QED
      BY <1>2, <2>1, <3>1, <3>3 DEF CallOK, Starts
  <2>2. CASE Starts(m, c)
    BY <2>2
  <2> QED
    BY <2>1, <2>2
<1>8. ServeOK'
  BY <1>2 DEF ServeOK
<1> QED
  BY <1>3, <1>6, <1>7, <1>8

(* Every message the reader handles, and the end of the input.             *)
LEMMA ReaderKeeps ==
  ASSUME StdioInv, Reader
  PROVE  StdioInv'
<1> BridgeInv /\ BridgeTypeOK /\ StdioTypeOK /\ Pipe \in Conns
  BY PipeAssumption DEF StdioInv, BridgeInv
<1> USE DEF bridgeVars, callVars, serverVars, clientVars, mcpVars
<1>0. ASSUME NEW type, Reads(type)
      PROVE  \E m \in Message : m = Head(wire) /\ m.type = type /\ MessageOK(m) /\ Reads(m.type)
  <2>1. wire # << >> /\ Head(wire) = wire[1] /\ Head(wire) \in Message /\ Len(wire) \in Nat \ {0}
    BY <1>0, TailWire DEF Reads, StdioTypeOK
  <2>2. MessageOK(wire[1])
    BY <2>1 DEF StdioInv, WireOK
  <2> QED
    BY <1>0, <2>1, <2>2 DEF Reads
<1>1. CASE ReadInitialize
  <2>1. PICK m \in Message : m = Head(wire) /\ m.type = "initialize" /\ Reads(m.type)
    BY <1>0, <1>1 DEF ReadInitialize
  <2>2. BridgeInv'
    BY <1>1, MarkKeeps DEF ReadInitialize, BridgeTypeOK
  <2>3. \A c \in Calls : ~Starts(m, c)
    BY <2>1 DEF Starts
  <2>4. \A c \in Calls : CallOK(c)
    BY DEF StdioInv
  <2> QED
    BY <1>1, <2>1, <2>2, <2>3, <2>4, ReadKeeps
       DEF ReadInitialize, Responds, StdioTypeOK, CallOK
<1>2. CASE ReadCall
  <2>1. PICK m \in Message : m = Head(wire) /\ m.type = "call" /\ MessageOK(m) /\ Reads(m.type)
    BY <1>0, <1>2 DEF ReadCall
  <2>2. PICK c \in Calls : m.call = c /\ c \in sent /\ pc[c] = "idle"
    BY <2>1 DEF MessageOK, StdioTypeOK
  <2>3. CallOK(c) /\ \A d \in Calls : Starts(m, d) <=> d = c
    BY <2>1, <2>2 DEF StdioInv, Starts
  <2>4. /\ \E place \in {"started", "done"} : Goto(c, place)
        /\ \A d \in Calls \ {c} : pc'[d] = pc[d] /\ replied'[d] = replied[d]
        /\ conn' = [conn EXCEPT ![c] = IF initialized THEN Pipe ELSE conn[c]]
        /\ IF initialized
           THEN /\ pc'[c] = "started" /\ active' = active \cup {c}
                /\ cancelled' = cancelled \ {c} /\ replied' = replied
           ELSE /\ pc'[c] = "done" /\ (replied'[c] = "refused" \/ broken)
                /\ UNCHANGED <<active, cancelled>>
        /\ replied' \in [Calls -> {"nothing", "answered", "refused"}]
        /\ serve' \in {serve, "failed"}
        /\ UNCHANGED <<stopped, late, asking, chan, serverVars, clientVars, initialized>>
    BY <1>2, <2>1, <2>2 DEF ReadCall, Responds, Told, Goto, BridgeTypeOK, StdioTypeOK
  <2>5. BridgeInv'
    <3>1. (IF initialized THEN Pipe ELSE conn[c]) \in Conns \cup {Nobody}
      BY DEF BridgeTypeOK
    <3> QED
      BY <2>2, <2>4, <3>1, MoveKeeps DEF Idle, BridgeTypeOK
  <2>6. pc'[c] # "idle" /\ CallOK(c)'
    BY <2>1, <2>2, <2>3, <2>4 DEF CallOK, Reads
  <2>7. \A d \in Calls : d # c =>
           /\ pc'[d] = pc[d]
           /\ replied'[d] = replied[d]
           /\ d \in active' <=> d \in active
           /\ d \in cancelled' => d \in active /\ d \in withdrawn
    BY <2>4 DEF StdioInv, CallOK
  <2> QED
    BY <2>1, <2>3, <2>4, <2>5, <2>6, <2>7, ReadKeeps DEF StdioTypeOK
<1>3. CASE ReadCancel
  <2>1. PICK m \in Message : m = Head(wire) /\ m.type = "cancel" /\ MessageOK(m) /\ Reads(m.type)
    BY <1>0, <1>3 DEF ReadCancel
  <2>2. PICK c \in Calls : m.call = c /\ c \in withdrawn
    BY <2>1 DEF MessageOK, StdioTypeOK
  <2>3. /\ stopped' \in [Calls -> BOOLEAN]
        /\ cancelled' = IF c \in active THEN cancelled \cup {c} ELSE cancelled
        /\ UNCHANGED <<pc, conn, late, asking, chan, serverVars, clientVars,
                       serve, initialized, active, replied>>
    BY <1>3, <2>1, <2>2 DEF ReadCancel, Cancellable, BridgeTypeOK
  <2>4. BridgeInv'
    BY <2>3, MarkKeeps DEF BridgeTypeOK
  <2>5. \A d \in Calls : ~Starts(m, d)
    BY <2>1 DEF Starts
  <2>6. \A d \in Calls : d \in cancelled' => d \in active /\ d \in withdrawn
    BY <2>2, <2>3 DEF StdioInv, CallOK
  <2> QED
    BY <2>1, <2>2, <2>3, <2>4, <2>5, <2>6, ReadKeeps DEF StdioTypeOK
<1>4. CASE ReadRootsChanged
  <2>1. PICK m \in Message : m = Head(wire) /\ m.type = "changed" /\ MessageOK(m) /\ Reads(m.type)
    BY <1>0, <1>4 DEF ReadRootsChanged
  <2>2. m.version \in 1 .. current[Pipe]
    BY <2>1 DEF MessageOK
  <2>3. BridgeInv'
    BY <1>4, <2>1, <2>2, InvalidateKeeps DEF ReadRootsChanged
  <2>4. \A d \in Calls : ~Starts(m, d)
    BY <2>1 DEF Starts
  <2>5. \A d \in Calls : CallOK(d)
    BY DEF StdioInv
  <2> QED
    BY <1>4, <2>1, <2>3, <2>4, <2>5, ReadKeeps DEF ReadRootsChanged, StdioTypeOK, CallOK
<1>5. CASE ReadReply
  <2>1. PICK m \in Message : m = Head(wire) /\ m.type = "reply" /\ MessageOK(m) /\ Reads(m.type)
    BY <1>0, <1>5 DEF ReadReply
  <2>2. PICK request \in asked[Pipe], value \in Versions \cup {Nobody} :
           /\ m.reply = AnswerOf(request, value)
           /\ request.kind = "roots" /\ value # Nobody => value >= request.since
    BY <2>1 DEF MessageOK
  <2>3. BridgeInv'
    BY <1>5, <2>1, <2>2, DeliverKeeps DEF ReadReply
  <2>4. \A d \in Calls : ~Starts(m, d)
    BY <2>1 DEF Starts
  <2>5. \A d \in Calls : CallOK(d)
    BY DEF StdioInv
  <2> QED
    BY <1>5, <2>1, <2>3, <2>4, <2>5, ReadKeeps DEF ReadReply, StdioTypeOK, CallOK
<1>6. CASE EndInput \/ ServeReturns
  <2>1. BridgeInv'
    BY <1>6, MarkKeeps DEF EndInput, ServeReturns, BridgeTypeOK
  <2>2. UNCHANGED <<bridgeVars, pipeVars, initialized, active, cancelled, replied>>
    BY <1>6 DEF EndInput, ServeReturns
  <2>3. ServeOK' /\ serve' \in {"reading", "waiting", "returned"}
    BY <1>6, <2>2
       DEF EndInput, ServeReturns, StdioInv, ServeOK, Stalled, pipeVars, CallsReturned
  <2> QED
    BY <2>1, <2>2, <2>3
       DEF StdioInv, StdioTypeOK, BridgeInv, WireOK, MessageOK, Starts, CallOK, pipeVars
<1> QED
  BY <1>1, <1>2, <1>3, <1>4, <1>5, <1>6 DEF Reader, ReadMessage

----------------------------------------------------------------------------
(* A call's goroutine moves, and leaves the pipe and the reader alone.     *)
LEMMA RunKeeps ==
  ASSUME StdioInv, BridgeInv', NEW c \in Calls, pc[c] \notin {"idle", "done"},
         NEW place \in Places \ {"idle", "queued"}, Goto(c, place),
         serve' \in {serve, "failed"}, UNCHANGED <<pipeVars, initialized, current>>,
         asked[Pipe] \subseteq asked'[Pipe],
         active' = active \ (IF place = "done" THEN {c} ELSE {}),
         cancelled' = cancelled \ (IF place = "done" THEN {c} ELSE {}),
         replied' \in [Calls -> {"nothing", "answered", "refused"}],
         \A d \in Calls : d # c => replied'[d] = replied[d],
         place \in {"finishing", "done"} => replied'[c] # "nothing" \/ c \in withdrawn \/ broken
  PROVE  StdioInv'
<1> USE DEF StdioInv, pipeVars
<1>1. StdioTypeOK'
  BY DEF StdioTypeOK, BridgeInv
<1>2. pc'[c] = place /\ \A d \in Calls : d # c => pc'[d] = pc[d]
  BY DEF Goto, StdioTypeOK, BridgeTypeOK
<1>3. WireOK'
  <2>1. current'[Pipe] \in Versions /\ current'[Pipe] >= current[Pipe]
    BY PipeAssumption, BoundsAssumption DEF StdioTypeOK, BridgeTypeOK, Versions
  <2>2. ASSUME NEW n \in Message, MessageOK(n) PROVE MessageOK(n)'
    <3>1. n.type = "call" => pc'[n.call] = pc[n.call]
      BY <1>2, <2>2 DEF MessageOK, StdioTypeOK
    <3> QED
      BY <2>1, <2>2, <3>1, MessageStays
  <2>3. ASSUME NEW i \in 1 .. Len(wire)
        PROVE  \E n \in Message : n = wire'[i] /\ MessageOK(n)'
    <3>1. PICK n \in Message : n = wire[i] /\ MessageOK(n)
      BY ElementOfSeq DEF WireOK, StdioTypeOK
    <3> QED
      BY <2>2, <3>1
  <2>4. (\A i \in 1 .. Len(wire) : MessageOK(wire[i]))'
    BY <2>3 DEF MessageOK
  <2> QED
    BY <2>4 DEF WireOK, Starts
<1>4. ASSUME NEW d \in Calls PROVE CallOK(d)'
  <2>1. CallOK(d) /\ CallOK(c)
    OBVIOUS
  <2> QED
    BY <1>2, <2>1 DEF CallOK, Starts
<1>5. ServeOK'
  BY DEF ServeOK, Stalled, CallsReturned
<1> QED
  BY <1>1, <1>3, <1>4, <1>5

(* Every step of a call.                                                   *)
LEMMA CallKeeps ==
  ASSUME StdioInv, NEW c \in Calls, RunCall(c) \/ TimerFires(c)
  PROVE  StdioInv'
<1> BridgeInv /\ BridgeTypeOK /\ StdioTypeOK /\ CallOK(c) /\ ConnOK(c) /\ Pipe \in Conns
  BY PipeAssumption DEF StdioInv, BridgeInv
<1> USE DEF bridgeVars, callVars, serverVars, clientVars, mcpVars
<1> conn = [conn EXCEPT ![c] = conn[c]] /\ conn[c] \in Conns \cup {Nobody}
  BY DEF BridgeTypeOK
<1>0. Fate \in {"sent", "lost", "failed"} /\ (Survives => serve' \in {serve, "failed"})
  BY DEF Fate, Survives
<1>1. CASE /\ BridgeStep(c) \/ FetchRoots(c, Fate) \/ Ask(c, Fate) \/ Expire(c)
           /\ serve' \in {serve, "failed"}
           /\ UNCHANGED <<pipeVars, initialized, active, cancelled, replied>>
  <2>0. PICK fate \in {"sent", "lost", "failed"} :
           BridgeStep(c) \/ FetchRoots(c, fate) \/ Ask(c, fate) \/ Expire(c)
    BY <1>0, <1>1
  <2>1. BridgeInv'
    <3>1. CASE BridgeStep(c) \/ Expire(c)
      BY <3>1, BridgeStepKeeps
    <3>2. CASE FetchRoots(c, fate) \/ Ask(c, fate)
      <4>1. conn[c] \in Conns
        BY <3>2 DEF FetchRoots, Ask, ConnOK
      <4> QED
        BY <3>2, <4>1, SendKeeps
    <3> QED
      BY <2>0, <3>1, <3>2
  <2>2. /\ pc[c] \in {"started", "locking", "fetching", "working", "asking"}
        /\ \E place \in {"locking", "fetching", "working", "asking"} : Goto(c, place)
    BY <2>0
       DEF BridgeStep, Expire, CheckRoots, SkipRoots, LoadRoots, TakeRoots, TakeAnswer, GiveUpEarly,
           GiveUp, GiveUpRoots, StopAsking, FetchRoots, Ask, EndCheck, Goto, BridgeTypeOK
  <2>3. asked[Pipe] \subseteq asked'[Pipe] /\ UNCHANGED current
    BY <2>0
       DEF BridgeStep, Expire, CheckRoots, SkipRoots, LoadRoots, TakeRoots, TakeAnswer, GiveUpEarly,
           GiveUp, GiveUpRoots, StopAsking, FetchRoots, Ask, EndCheck, Issue, BridgeTypeOK
  <2>4. PICK place \in {"locking", "fetching", "working", "asking"} : Goto(c, place)
    BY <2>2
  <2> QED
    BY <1>1, <2>1, <2>2, <2>3, <2>4, RunKeeps DEF Places, StdioTypeOK
<1>2. CASE CheckCancelled(c)
  <2>1. PICK place \in {"finishing", "replying"} :
           Goto(c, place) /\ (place = "finishing" => c \in cancelled)
    BY <1>2 DEF CheckCancelled
  <2>2. BridgeInv'
    BY <1>2, <2>1, MoveKeeps DEF CheckCancelled, Idle, BridgeTypeOK
  <2> QED
    BY <1>2, <2>1, <2>2, RunKeeps DEF CheckCancelled, Places, StdioTypeOK, CallOK
<1>3. CASE WriteReply(c)
  <2>1. BridgeInv'
    BY <1>3, MoveKeeps DEF WriteReply, Idle, BridgeTypeOK
  <2>2. /\ replied' \in [Calls -> {"nothing", "answered", "refused"}]
        /\ replied'[c] = "answered" \/ broken
        /\ \A d \in Calls : d # c => replied'[d] = replied[d]
    BY <1>3 DEF WriteReply, Told, StdioTypeOK
  <2> QED
    BY <1>0, <1>3, <2>1, <2>2, RunKeeps DEF WriteReply, Places
<1>4. CASE FinishRequest(c)
  <2>1. BridgeInv'
    BY <1>4, MoveKeeps DEF FinishRequest, Idle, BridgeTypeOK
  <2> QED
    BY <1>4, <2>1, RunKeeps DEF FinishRequest, Places, StdioTypeOK, CallOK
<1> QED
  BY <1>0, <1>1, <1>2, <1>3, <1>4 DEF RunCall, TimerFires

(* Nobody moves.                                                           *)
LEMMA StdioStutter ==
  ASSUME StdioInv, UNCHANGED stdioVars
  PROVE  StdioInv'
<1> BridgeInv /\ BridgeTypeOK
  BY DEF StdioInv, BridgeInv
<1> USE DEF stdioVars, bridgeVars, callVars, serverVars, clientVars, pipeVars, mcpVars
<1>1. BridgeInv'
  BY MarkKeeps DEF BridgeTypeOK
<1> QED
  BY <1>1 DEF StdioInv, StdioTypeOK, BridgeInv, WireOK, MessageOK, Starts, CallOK, ServeOK,
              Stalled, CallsReturned

(* The invariant of the pipe.                                              *)
LEMMA StdioInvariant == StdioSpec => []StdioInv
<1>1. StdioInv /\ [StdioNext]_stdioVars => StdioInv'
  BY ClientKeeps, ReaderKeeps, CallKeeps, StdioStutter DEF StdioNext, Terminated
<1> QED
  BY <1>1, StdioInitInv, PTL DEF StdioSpec

----------------------------------------------------------------------------
(* The variables stay in their shapes, and what the client writes is one   *)
(* of its messages (mcp_requests.go).                                      *)
THEOREM StdioTypeCorrect == StdioSpec => []StdioTypeOK
<1>1. StdioInv => StdioTypeOK
  BY DEF StdioInv
<1> QED
  BY <1>1, StdioInvariant, PTL

(* On the pipe too an answer reaches the call that sent the request it     *)
(* answers, while the call waits for it (mcp_client_requester.go).         *)
THEOREM StdioAnswersMatch == StdioSpec => []RepliesMatch
<1>1. StdioInv => RepliesMatch
  BY BridgeInvMatches DEF StdioInv
<1> QED
  BY <1>1, StdioInvariant, PTL

(* And no roots from before a list_changed are kept or about to be used    *)
(* (mcp_client_roots.go).                                                  *)
THEOREM StdioRootsFresh == StdioSpec => []RootsFresh
<1>1. StdioInv => RootsFresh
  BY BridgeInvFresh DEF StdioInv
<1> QED
  BY <1>1, StdioInvariant, PTL

(* Every call the client wrote has run and was answered by the time the    *)
(* server returns, unless the client cancelled it, is gone, or wrote it    *)
(* behind a line that does not fit: only there does the input end with     *)
(* anything unread, and the calls are waited for (mcp_run.go).             *)
THEOREM NobodyIsForgotten == StdioSpec => []NoneForgotten
<1>1. StdioInv => NoneForgotten
  <2> SUFFICES ASSUME StdioInv, serve = "returned", NEW c \in sent, replied[c] = "nothing",
                      c \notin withdrawn, ~broken
               PROVE  NeverRead(c)
    BY DEF NoneForgotten
  <2>1. c \in Calls /\ pc[c] \in {"idle", "done"} /\ wire \in Seq(Message)
    BY DEF StdioInv, ServeOK, StdioTypeOK, CallsReturned
  <2>2. pc[c] = "idle"
    BY <2>1 DEF StdioInv, CallOK
  <2>3. PICK i \in 1 .. Len(wire) : Starts(wire[i], c)
    BY <2>1, <2>2 DEF StdioInv, CallOK
  <2>4. wire[i] \in Message /\ DOMAIN wire = 1 .. Len(wire)
    BY <2>1, ElementOfSeq, LenProperties
  <2>5. wire[i] = [type |-> "call", call |-> c]
    BY <2>3, <2>4 DEF Starts, Message
  <2>6. wire # << >>
    BY <2>1, <2>3, EmptySeq
  <2>7. Stalled
    BY <2>6 DEF StdioInv, ServeOK
  <2> QED
    BY <2>4, <2>5, <2>7 DEF NeverRead
<1> QED
  BY <1>1, StdioInvariant, PTL

(* A call that is over is in no table of the server and holds no lock,     *)
(* whenever its cancellation was read (mcp_requests.go, finishRequest).    *)
THEOREM NothingStays == StdioSpec => []NothingLeft
<1>1. StdioInv => NothingLeft
  <2> SUFFICES ASSUME StdioInv, NEW c \in Calls, pc[c] \in {"idle", "done"}
               PROVE  /\ c \notin active \cup cancelled
                      /\ \A p \in pending[Pipe] : p.call # c
                      /\ lock[Pipe] # c
    BY DEF NothingLeft
  <2>1. CallOK(c) /\ PendingOK(Pipe) /\ LockOK(Pipe)
    BY PipeAssumption DEF StdioInv, BridgeInv
  <2> QED
    BY <2>1 DEF CallOK, PendingOK, LockOK, Waiting
<1> QED
  BY <1>1, StdioInvariant, PTL

(* The reader, too, waits for the lock of the roots, with the answers that *)
(* the holder of the lock waits for behind it on the pipe.  Still the      *)
(* server is never stuck: as long as there is something to read, input has *)
(* ended or a call runs, the reader or a call can go on, or a timer ends   *)
(* what a call waits for, unless the process is over (mcp_run.go,          *)
(* mcp_client_roots.go).                                                   *)
ReaderUnblocked ==
    \/ serve = "reading" /\ wire # << >> /\ (Head(wire).type = "changed" => lock[Pipe] = Nobody)
    \/ serve = "reading" /\ wire = << >> /\ closed
    \/ serve = "waiting" /\ CallsReturned

StdioNeverStuck ==
    ~Over /\ (wire # << >> \/ closed \/ ~CallsReturned) =>
        \/ ReaderUnblocked
        \/ \E c \in Calls : Unblocked(c) \/ pc[c] \in {"replying", "finishing"}

THEOREM StdioServerNeverStuck == StdioSpec => []StdioNeverStuck
<1>1. StdioInv => StdioNeverStuck
  <2> SUFFICES ASSUME StdioInv, ~Over, wire # << >> \/ closed \/ ~CallsReturned
               PROVE  \/ ReaderUnblocked
                      \/ \E c \in Calls : Unblocked(c) \/ pc[c] \in {"replying", "finishing"}
    BY DEF StdioNeverStuck
  <2>1. CASE ~CallsReturned
    <3>1. PICK c \in Calls : pc[c] \notin {"idle", "done"}
      BY <2>1 DEF CallsReturned
    <3>2. \/ pc[c] \in {"replying", "finishing"}
          \/ pc[c] \in {"started", "locking", "working"} \cup Waiting
      BY <3>1 DEF StdioInv, CallOK, BridgeInv, BridgeTypeOK, Places, Waiting
    <3> QED
      BY <3>2, SomeoneUnblocked DEF StdioInv
  <2>2. CASE CallsReturned
    <3>1. lock[Pipe] = Nobody
      <4>1. lock[Pipe] \in Calls \cup {Nobody} /\ LockOK(Pipe)
        BY PipeAssumption DEF StdioInv, BridgeInv, BridgeTypeOK
      <4> QED
        BY <2>2, <4>1 DEF LockOK, CallsReturned
    <3>2. serve \in {"reading", "waiting"}
      BY DEF StdioInv, StdioTypeOK, Over
    <3> QED
      BY <2>2, <3>1, <3>2 DEF ReaderUnblocked
  <2> QED
    BY <2>1, <2>2
<1> QED
  BY <1>1, StdioInvariant, PTL
============================================================================
