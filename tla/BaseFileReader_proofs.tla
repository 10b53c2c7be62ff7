----------------------- MODULE BaseFileReader_proofs -----------------------
(***************************************************************************)
(* Theorems about BaseFileReader, for any number of reads and paths and    *)
(* any budget.  The inductive invariant follows each read from the entry   *)
(* it made or joined to its answer, and says what can be on the pipe of    *)
(* the process: nothing between round trips, and during one only parts of  *)
(* the answer that is waited for, unless the stream was given up.          *)
(***************************************************************************)
EXTENDS BaseFileReader, FiniteSetTheorems, SequenceTheorems, TLAPS

Tripping == {"asked", "payload", "draining"}
Owning   == {"fetching", "locking", "showing", "settling"} \cup Tripping

\* The parts of TypeOK.
MemoTyped ==
    /\ pc \in [Reads -> Places]
    /\ wants \in [Reads -> Paths]
    /\ entries \in [Paths -> Reads \cup {None}]
    /\ joined \in [Reads -> Reads \cup {None}]
    /\ result \in [Reads -> Found \cup {None}]
    /\ settled \subseteq Reads

ProcTyped ==
    /\ proc \in {"none", "failed", "live", "dead"}
    /\ lock \in Reads \cup {None}
    /\ broken \in BOOLEAN
    /\ closing \in {"no", "stopping", "closed"}
    /\ cancelled \in BOOLEAN
    /\ unshown \subseteq Paths

PipeTyped == owed \in Seq(Parts) /\ pipe \in Seq(Parts)
LockOK(r) == pc[r] \in Tripping <=> lock = r

\* An answer that may be given for the path of a read.
Right(r) ==
    \/ result[r] = ShowOf(wants[r])
    \/ result[r] = Failed /\ (wants[r] \in unshown \/ cancelled)

ReadOK(r) ==
    /\ pc[r] \in Owning => entries[wants[r]] = r
    /\ r \in settled => pc[r] = "done"
    /\ pc[r] = "joined" => joined[r] \in Reads /\ wants[joined[r]] = wants[r]
    /\ pc[r] \in {"settling", "done"} => Right(r)

EntryOK(p) == entries[p] # None => wants[entries[p]] = p

\* What is on the pipe, and what is still to come, of the answer to a read.
Single(p) == Kind[p] \in {"missing", "ambiguous"}

StreamOK(r) ==
    /\ pc[r] = "asked" /\ Single(wants[r]) =>
          \/ pipe = <<>> /\ owed = <<Header(wants[r])>>
          \/ pipe \in {<<>>, <<Header(wants[r])>>} /\ owed = <<>>
    /\ pc[r] = "asked" /\ ~Single(wants[r]) =>
          \/ pipe = <<>> /\ owed = <<Header(wants[r]), Payload(wants[r])>>
          \/ pipe = <<Header(wants[r])>> /\ owed = <<Payload(wants[r])>>
          \/ /\ pipe \in {<<>>, <<Header(wants[r])>>, <<Header(wants[r]), Payload(wants[r])>>}
             /\ owed = <<>>
    /\ pc[r] \in {"payload", "draining"} =>
          \/ pipe = <<>> /\ owed = <<Payload(wants[r])>>
          \/ pipe \in {<<>>, <<Payload(wants[r])>>} /\ owed = <<>>
    /\ pc[r] = "payload" => Kind[wants[r]] = "blob"
    /\ pc[r] = "draining" => Kind[wants[r]] \notin {"blob", "missing", "ambiguous"}

Idle == lock = None /\ ~broken => pipe = <<>> /\ owed = <<>>

\* The inductive invariant.
IInv ==
    /\ MemoTyped /\ ProcTyped /\ PipeTyped
    /\ Reckoned /\ IsFiniteSet(Retained)
    /\ \A r \in Reads : LockOK(r) /\ ReadOK(r) /\ StreamOK(r)
    /\ \A p \in Paths : EntryOK(p)
    /\ lock # None => ~broken
    /\ Idle
    /\ NoProcessLeft

LEMMA IInvTyped == IInv => TypeOK
  BY DEF IInv, TypeOK, MemoTyped, ProcTyped, PipeTyped, LockOK, Tripping

LEMMA Tuples ==
    ASSUME NEW S, NEW a \in S, NEW b \in S
    PROVE  /\ Head(<<a>>) = a /\ Tail(<<a>>) = <<>>
           /\ Head(<<a, b>>) = a /\ Tail(<<a, b>>) = <<b>>
           /\ Append(<<>>, a) = <<a>> /\ Append(<<a>>, b) = <<a, b>>
           /\ <<>> \o <<a>> = <<a>> /\ <<>> \o <<a, b>> = <<a, b>>
           /\ <<a>> # <<>> /\ <<a, b>> # <<>>
  <1>1. Head(<<a>>) = a /\ Tail(<<a>>) = <<>>
    OBVIOUS
  <1>2. Head(<<a, b>>) = a /\ Tail(<<a, b>>) = <<b>>
    OBVIOUS
  <1>3. Append(<<>>, a) = <<a>>
    OBVIOUS
  <1>4. Append(<<a>>, b) = <<a, b>>
    <2>1. Append(<<a>>, b) \in Seq(S) /\ Len(Append(<<a>>, b)) = 2
      OBVIOUS
    <2>2. Append(<<a>>, b)[1] = a /\ Append(<<a>>, b)[2] = b
      OBVIOUS
    <2>3. <<a, b>> \in Seq(S) /\ Len(<<a, b>>) = 2 /\ <<a, b>>[1] = a /\ <<a, b>>[2] = b
      OBVIOUS
    <2>4. \A i \in 1 .. Len(Append(<<a>>, b)) : Append(<<a>>, b)[i] = <<a, b>>[i]
      BY <2>1, <2>2, <2>3
    <2>5. QED
      BY <2>1, <2>3, <2>4, SeqEqual
  <1>5. <<>> \o <<a>> = <<a>> /\ <<>> \o <<a, b>> = <<a, b>>
    OBVIOUS
  <1>6. <<a>> # <<>> /\ <<a, b>> # <<>>
    OBVIOUS
  <1>7. QED
    BY <1>1, <1>2, <1>3, <1>4, <1>5, <1>6

LEMMA InitIInv == Init => IInv
  <1> SUFFICES ASSUME Init PROVE IInv
    OBVIOUS
  <1>1. Retained = {} /\ IsFiniteSet(Retained) /\ Cardinality(Retained) = 0
    BY FS_EmptySet DEF Init, Retained
  <1>2. Reckoned
    BY <1>1, BudgetAssumption DEF Init, Reckoned
  <1>3. MemoTyped
    BY DEF Init, MemoTyped, Places, Found
  <1>4. ProcTyped
    BY DEF Init, ProcTyped
  <1>5. PipeTyped /\ \A r \in Reads : LockOK(r)
    BY NoneAssumption DEF Init, PipeTyped, LockOK, Tripping
  <1>6. /\ \A r \in Reads : ReadOK(r) /\ StreamOK(r)
        /\ \A p \in Paths : EntryOK(p)
    BY DEF Init, ReadOK, StreamOK, EntryOK, Owning, Tripping
  <1>7. QED
    BY <1>1, <1>2, <1>3, <1>4, <1>5, <1>6 DEF Init, IInv, Idle, NoProcessLeft

----------------------------------------------------------------------------
(* What is read from the pipe, and what is written to it, during a round   *)
(* trip.                                                                   *)

LEMMA HeadOfPipe ==
    ASSUME IInv, NEW r \in Reads, pc[r] \in Tripping, pipe # <<>>
    PROVE  /\ pc[r] = "asked" => Head(pipe) = Header(wants[r])
           /\ pc[r] = "asked" /\ Single(wants[r]) => Tail(pipe) = <<>> /\ owed = <<>>
           /\ pc[r] = "asked" /\ ~Single(wants[r]) =>
                 \/ Tail(pipe) = <<>> /\ owed = <<Payload(wants[r])>>
                 \/ Tail(pipe) \in {<<>>, <<Payload(wants[r])>>} /\ owed = <<>>
           /\ pc[r] \in {"payload", "draining"} =>
                 Head(pipe) = Payload(wants[r]) /\ Tail(pipe) = <<>> /\ owed = <<>>
  <1> DEFINE h == Header(wants[r])
             p == Payload(wants[r])
  <1>1. StreamOK(r) /\ h \in Parts /\ p \in Parts
    BY DEF IInv, MemoTyped, Parts, Header, Payload
  <1>2. /\ Head(<<h>>) = h /\ Tail(<<h>>) = <<>> /\ Head(<<p>>) = p /\ Tail(<<p>>) = <<>>
        /\ Head(<<h, p>>) = h /\ Tail(<<h, p>>) = <<p>>
    BY <1>1, Tuples
  <1> HIDE DEF h, p
  <1>3. CASE pc[r] = "asked" /\ Single(wants[r])
    BY <1>1, <1>2, <1>3 DEF StreamOK, h, p
  <1>4. CASE pc[r] = "asked" /\ ~Single(wants[r])
    BY <1>1, <1>2, <1>4 DEF StreamOK, h, p
  <1>5. CASE pc[r] \in {"payload", "draining"}
    BY <1>1, <1>2, <1>5 DEF StreamOK, h, p
  <1>6. QED
    BY <1>3, <1>4, <1>5 DEF Tripping

LEMMA AskStreams ==
    ASSUME IInv, NEW r \in Reads, lock = None, ~broken
    PROVE  pipe = <<>> /\ owed \o AnswerTo(wants[r]) = AnswerTo(wants[r])
  <1>1. /\ pipe = <<>> /\ owed = <<>>
        /\ Header(wants[r]) \in Parts /\ Payload(wants[r]) \in Parts
    BY DEF IInv, MemoTyped, Idle, Parts, Header, Payload
  <1>2. QED
    BY <1>1, Tuples DEF AnswerTo

LEMMA ReadOfSettledDone ==
    ASSUME IInv, NEW r \in Reads, r \in settled
    PROVE  pc[r] = "done"
  BY DEF IInv, ReadOK

\* Steps that leave entries, settled and the answers of settled reads alone keep
\* what is retained.
LEMMA RetainedStays ==
    ASSUME IInv, UNCHANGED <<wants, entries, settled, cachedBytes>>,
           \A q \in settled : result'[q] = result[q]
    PROVE  (Reckoned /\ IsFiniteSet(Retained))'
  <1>1. Retained' = Retained
    BY DEF Retained
  <1>2. QED
    BY <1>1 DEF IInv, Reckoned

LEMMA StepPreserves ==
    ASSUME IInv, NEW r \in Reads, Step(r)
    PROVE  IInv'
  <1> USE KindAssumption, NoneAssumption DEF Goto
  <1>1. /\ MemoTyped /\ ProcTyped /\ PipeTyped /\ Reckoned
        /\ \A q \in Reads : LockOK(q) /\ ReadOK(q) /\ StreamOK(q)
        /\ \A p \in Paths : EntryOK(p)
        /\ wants[r] \in Paths /\ wants[r] \notin {TooLarge, Missing, Failed}
        /\ Kind[wants[r]] \in Kinds
    BY DEF IInv, MemoTyped
  <1>2. CASE Join(r)
    <2>1. MemoTyped'
      BY <1>1, <1>2 DEF MemoTyped, Places, Found, Kinds, ShowOf, Join, procVars, scanVars
    <2>2. ProcTyped'
      BY <1>1, <1>2 DEF MemoTyped, ProcTyped, Join, procVars, scanVars
    <2>3. PipeTyped'
      BY <1>1, <1>2 DEF PipeTyped, Join, procVars, scanVars
    <2>4. \A q \in Reads : LockOK(q)'
      BY <1>1, <1>2 DEF MemoTyped, LockOK, Tripping, Join, procVars, scanVars
    <2>5. (Reckoned /\ IsFiniteSet(Retained))'
      BY <1>1, <1>2, ReadOfSettledDone, RetainedStays DEF MemoTyped, Join, procVars, scanVars
    <2>6. \A q \in Reads : ReadOK(q)'
      BY <1>1, <1>2
         DEF MemoTyped, ReadOK, EntryOK, Right, Owning, Tripping, Join, procVars, scanVars
    <2>7. \A p \in Paths : EntryOK(p)'
      BY <1>1, <1>2 DEF MemoTyped, EntryOK, Join, procVars, scanVars
    <2>8. \A q \in Reads : StreamOK(q)'
      BY <1>1, <1>2 DEF MemoTyped, StreamOK, LockOK, Tripping, Single, Join, procVars, scanVars
    <2>9. Idle' /\ NoProcessLeft' /\ (lock # None => ~broken)'
      BY <1>1, <1>2 DEF IInv, Idle, NoProcessLeft, Join, procVars, scanVars
    <2>10. QED
      BY <2>1, <2>2, <2>3, <2>4, <2>5, <2>6, <2>7, <2>8, <2>9 DEF IInv
  <1>3. CASE Enter(r)
    <2>1. MemoTyped'
      BY <1>1, <1>3 DEF MemoTyped, Places, Found, Kinds, ShowOf, Enter, procVars, scanVars
    <2>2. ProcTyped'
      BY <1>1, <1>3 DEF MemoTyped, ProcTyped, Enter, procVars, scanVars
    <2>3. PipeTyped'
      BY <1>1, <1>3 DEF PipeTyped, Enter, procVars, scanVars
    <2>4. \A q \in Reads : LockOK(q)'
      BY <1>1, <1>3 DEF MemoTyped, LockOK, Tripping, Enter, procVars, scanVars
    <2>5. (Reckoned /\ IsFiniteSet(Retained))'
      <3>1. r \notin settled /\ entries[wants[r]] = None
        BY <1>1, <1>3, ReadOfSettledDone DEF Enter
      <3>2. \A q \in settled : entries'[wants[q]] = q <=> entries[wants[q]] = q
        BY <1>1, <1>3, <3>1 DEF MemoTyped, Enter
      <3>3. Retained' = Retained
        BY <1>3, <3>2 DEF Enter, Retained
      <3>4. QED
        BY <1>3, <3>3 DEF IInv, Reckoned, Enter
    <2>6. \A q \in Reads : ReadOK(q)'
      BY <1>1, <1>3 DEF MemoTyped, ReadOK, Right, Owning, Tripping, Enter, procVars, scanVars
    <2>7. \A p \in Paths : EntryOK(p)'
      BY <1>1, <1>3 DEF MemoTyped, EntryOK, Enter, procVars, scanVars
    <2>8. \A q \in Reads : StreamOK(q)'
      BY <1>1, <1>3 DEF MemoTyped, StreamOK, LockOK, Tripping, Single, Enter, procVars, scanVars
    <2>9. Idle' /\ NoProcessLeft' /\ (lock # None => ~broken)'
      BY <1>1, <1>3 DEF IInv, Idle, NoProcessLeft, Enter, procVars, scanVars
    <2>10. QED
      BY <2>1, <2>2, <2>3, <2>4, <2>5, <2>6, <2>7, <2>8, <2>9 DEF IInv
  <1>4. CASE Settle(r)
    <2>1. MemoTyped'
      BY <1>1, <1>4 DEF MemoTyped, Places, Found, Kinds, ShowOf, Settle, procVars, scanVars
    <2>2. ProcTyped'
      BY <1>1, <1>4 DEF MemoTyped, ProcTyped, Settle, procVars, scanVars
    <2>3. PipeTyped'
      BY <1>1, <1>4 DEF PipeTyped, Settle, procVars, scanVars
    <2>4. \A q \in Reads : LockOK(q)'
      BY <1>1, <1>4 DEF MemoTyped, LockOK, Tripping, Settle, procVars, scanVars
    <2>5. (Reckoned /\ IsFiniteSet(Retained))'
      <3>1. r \notin settled /\ entries[wants[r]] = r /\ r \notin Retained
        BY <1>1, <1>4, ReadOfSettledDone DEF Settle, ReadOK, Owning, Retained
      <3>2. CASE cachedBytes + SizeOf(result[r]) > Budget
        <4>1. \A q \in Reads : q \in settled' /\ entries'[wants[q]] = q
                  <=> q \in settled /\ entries[wants[q]] = q
          BY <1>1, <1>4, <3>1, <3>2 DEF MemoTyped, Settle
        <4>2. Retained' = Retained /\ cachedBytes' = cachedBytes
          BY <1>4, <3>2, <4>1 DEF Settle, Retained
        <4>3. QED
          BY <4>2 DEF IInv, Reckoned
      <3>3. CASE ~(cachedBytes + SizeOf(result[r]) > Budget)
        <4>1. Retained' = IF result[r] \in Paths THEN Retained \cup {r} ELSE Retained
          BY <1>1, <1>4, <3>1, <3>3 DEF Settle, Retained
        <4>2. cachedBytes' = cachedBytes + SizeOf(result[r])
          BY <1>4, <3>3 DEF Settle
        <4>3. Cardinality(Retained \cup {r}) = Cardinality(Retained) + 1
          BY <3>1, FS_AddElement DEF IInv
        <4>4. cachedBytes \in Nat /\ SizeOf(result[r]) \in Nat
          BY FS_CardinalityType DEF IInv, Reckoned, SizeOf
        <4>5. IsFiniteSet(Retained') /\ cachedBytes' = Cardinality(Retained')
          <5>1. IsFiniteSet(Retained) /\ IsFiniteSet(Retained \cup {r})
            BY FS_AddElement DEF IInv
          <5>2. cachedBytes = Cardinality(Retained)
            BY DEF IInv, Reckoned
          <5>3. QED
            BY <4>1, <4>2, <4>3, <4>4, <5>1, <5>2 DEF SizeOf
        <4>6. cachedBytes' <= Budget
          BY <3>3, <4>2, <4>4, BudgetAssumption
        <4>7. QED
          BY <4>5, <4>6 DEF Reckoned
      <3>4. QED
        BY <3>2, <3>3
    <2>6. \A q \in Reads : ReadOK(q)'
      BY <1>1, <1>4 DEF MemoTyped, ReadOK, Right, Owning, Tripping, Settle, procVars, scanVars
    <2>7. \A p \in Paths : EntryOK(p)'
      BY <1>1, <1>4 DEF MemoTyped, EntryOK, Settle, procVars, scanVars
    <2>8. \A q \in Reads : StreamOK(q)'
      BY <1>1, <1>4 DEF MemoTyped, StreamOK, LockOK, Tripping, Single, Settle, procVars, scanVars
    <2>9. Idle' /\ NoProcessLeft' /\ (lock # None => ~broken)'
      BY <1>1, <1>4 DEF IInv, Idle, NoProcessLeft, Settle, procVars, scanVars
    <2>10. QED
      BY <2>1, <2>2, <2>3, <2>4, <2>5, <2>6, <2>7, <2>8, <2>9 DEF IInv
  <1>5. CASE Follow(r)
    <2>1. MemoTyped'
      BY <1>1, <1>5
         DEF MemoTyped, Places, Found, Kinds, ShowOf, Follow, memoVars, procVars, scanVars
    <2>2. ProcTyped'
      BY <1>1, <1>5 DEF MemoTyped, ProcTyped, Follow, memoVars, procVars, scanVars
    <2>3. PipeTyped'
      BY <1>1, <1>5 DEF PipeTyped, Follow, memoVars, procVars, scanVars
    <2>4. \A q \in Reads : LockOK(q)'
      BY <1>1, <1>5 DEF MemoTyped, LockOK, Tripping, Follow, memoVars, procVars, scanVars
    <2>5. (Reckoned /\ IsFiniteSet(Retained))'
      BY <1>1, <1>5, ReadOfSettledDone, RetainedStays
         DEF MemoTyped, Follow, memoVars, procVars, scanVars
    <2>6. \A q \in Reads : ReadOK(q)'
      BY <1>1, <1>5
         DEF MemoTyped, ReadOK, Right, Owning, Tripping, Follow, memoVars, procVars, scanVars
    <2>7. \A p \in Paths : EntryOK(p)'
      BY <1>1, <1>5 DEF MemoTyped, EntryOK, Follow, memoVars, procVars, scanVars
    <2>8. \A q \in Reads : StreamOK(q)'
      BY <1>1, <1>5
         DEF MemoTyped, StreamOK, LockOK, Tripping, Single, Follow, memoVars, procVars, scanVars
    <2>9. Idle' /\ NoProcessLeft' /\ (lock # None => ~broken)'
      BY <1>1, <1>5 DEF IInv, Idle, NoProcessLeft, Follow, memoVars, procVars, scanVars
    <2>10. QED
      BY <2>1, <2>2, <2>3, <2>4, <2>5, <2>6, <2>7, <2>8, <2>9 DEF IInv
  <1>6. CASE Abandon(r)
    <2>1. MemoTyped'
      BY <1>1, <1>6
         DEF MemoTyped, Places, Found, Kinds, ShowOf, Abandon, Finds, memoVars, procVars, scanVars
    <2>2. ProcTyped'
      BY <1>1, <1>6 DEF MemoTyped, ProcTyped, Abandon, Finds, memoVars, procVars, scanVars
    <2>3. PipeTyped'
      BY <1>1, <1>6 DEF PipeTyped, Abandon, Finds, memoVars, procVars, scanVars
    <2>4. \A q \in Reads : LockOK(q)'
      BY <1>1, <1>6 DEF MemoTyped, LockOK, Tripping, Abandon, Finds, memoVars, procVars, scanVars
    <2>5. (Reckoned /\ IsFiniteSet(Retained))'
      BY <1>1, <1>6, ReadOfSettledDone, RetainedStays
         DEF MemoTyped, Abandon, Finds, memoVars, procVars, scanVars
    <2>6. \A q \in Reads : ReadOK(q)'
      BY <1>1, <1>6
         DEF MemoTyped, ReadOK, Right, Owning, Tripping, Abandon, Finds, memoVars, procVars,
             scanVars
    <2>7. \A p \in Paths : EntryOK(p)'
      BY <1>1, <1>6 DEF MemoTyped, EntryOK, Abandon, Finds, memoVars, procVars, scanVars
    <2>8. \A q \in Reads : StreamOK(q)'
      BY <1>1, <1>6
         DEF MemoTyped, StreamOK, LockOK, Tripping, Single, Abandon, Finds, memoVars, procVars,
             scanVars
    <2>9. Idle' /\ NoProcessLeft' /\ (lock # None => ~broken)'
      BY <1>1, <1>6 DEF IInv, Idle, NoProcessLeft, Abandon, Finds, memoVars, procVars, scanVars
    <2>10. QED
      BY <2>1, <2>2, <2>3, <2>4, <2>5, <2>6, <2>7, <2>8, <2>9 DEF IInv
  <1>7. CASE FallBack(r)
    <2>1. MemoTyped'
      BY <1>1, <1>7
         DEF MemoTyped, Places, Found, Kinds, ShowOf, FallBack, Shows, memoVars, procVars,
             scanVars
    <2>2. ProcTyped'
      BY <1>1, <1>7 DEF MemoTyped, ProcTyped, FallBack, Shows, memoVars, procVars, scanVars
    <2>3. PipeTyped'
      BY <1>1, <1>7 DEF PipeTyped, FallBack, Shows, memoVars, procVars, scanVars
    <2>4. \A q \in Reads : LockOK(q)'
      BY <1>1, <1>7 DEF MemoTyped, LockOK, Tripping, FallBack, Shows, memoVars, procVars, scanVars
    <2>5. (Reckoned /\ IsFiniteSet(Retained))'
      BY <1>1, <1>7, ReadOfSettledDone, RetainedStays
         DEF MemoTyped, FallBack, Shows, memoVars, procVars, scanVars
    <2>6. \A q \in Reads : ReadOK(q)'
      BY <1>1, <1>7
         DEF MemoTyped, ReadOK, Right, Owning, Tripping, FallBack, Shows, memoVars, procVars,
             scanVars
    <2>7. \A p \in Paths : EntryOK(p)'
      BY <1>1, <1>7 DEF MemoTyped, EntryOK, FallBack, Shows, memoVars, procVars, scanVars
    <2>8. \A q \in Reads : StreamOK(q)'
      BY <1>1, <1>7
         DEF MemoTyped, StreamOK, LockOK, Tripping, Single, FallBack, Shows, memoVars, procVars,
             scanVars
    <2>9. Idle' /\ NoProcessLeft' /\ (lock # None => ~broken)'
      BY <1>1, <1>7 DEF IInv, Idle, NoProcessLeft, FallBack, Shows, memoVars, procVars, scanVars
    <2>10. QED
      BY <2>1, <2>2, <2>3, <2>4, <2>5, <2>6, <2>7, <2>8, <2>9 DEF IInv
  <1>8. CASE UseProc(r)
    <2>1. MemoTyped'
      BY <1>1, <1>8
         DEF MemoTyped, Places, Found, Kinds, ShowOf, UseProc, memoVars, procVars, scanVars
    <2>2. ProcTyped'
      BY <1>1, <1>8 DEF MemoTyped, ProcTyped, UseProc, memoVars, procVars, scanVars
    <2>3. PipeTyped'
      BY <1>1, <1>8 DEF PipeTyped, UseProc, memoVars, procVars, scanVars
    <2>4. \A q \in Reads : LockOK(q)'
      BY <1>1, <1>8 DEF MemoTyped, LockOK, Tripping, UseProc, memoVars, procVars, scanVars
    <2>5. (Reckoned /\ IsFiniteSet(Retained))'
      BY <1>1, <1>8, ReadOfSettledDone, RetainedStays
         DEF MemoTyped, UseProc, memoVars, procVars, scanVars
    <2>6. \A q \in Reads : ReadOK(q)'
      BY <1>1, <1>8
         DEF MemoTyped, ReadOK, Right, Owning, Tripping, UseProc, memoVars, procVars, scanVars
    <2>7. \A p \in Paths : EntryOK(p)'
      BY <1>1, <1>8 DEF MemoTyped, EntryOK, UseProc, memoVars, procVars, scanVars
    <2>8. \A q \in Reads : StreamOK(q)'
      BY <1>1, <1>8
         DEF MemoTyped, StreamOK, LockOK, Tripping, Single, UseProc, memoVars, procVars, scanVars
    <2>9. Idle' /\ NoProcessLeft' /\ (lock # None => ~broken)'
      BY <1>1, <1>8 DEF IInv, Idle, NoProcessLeft, UseProc, memoVars, procVars, scanVars
    <2>10. QED
      BY <2>1, <2>2, <2>3, <2>4, <2>5, <2>6, <2>7, <2>8, <2>9 DEF IInv
  <1>9. CASE StartProc(r)
    <2>1. MemoTyped'
      BY <1>1, <1>9 DEF MemoTyped, Places, Found, Kinds, ShowOf, StartProc, memoVars, scanVars
    <2>2. ProcTyped'
      BY <1>1, <1>9 DEF MemoTyped, ProcTyped, StartProc, memoVars, scanVars
    <2>3. PipeTyped'
      BY <1>1, <1>9 DEF PipeTyped, StartProc, memoVars, scanVars
    <2>4. \A q \in Reads : LockOK(q)'
      BY <1>1, <1>9 DEF MemoTyped, LockOK, Tripping, StartProc, memoVars, scanVars
    <2>5. (Reckoned /\ IsFiniteSet(Retained))'
      BY <1>1, <1>9, ReadOfSettledDone, RetainedStays DEF MemoTyped, StartProc, memoVars, scanVars
    <2>6. \A q \in Reads : ReadOK(q)'
      BY <1>1, <1>9 DEF MemoTyped, ReadOK, Right, Owning, Tripping, StartProc, memoVars, scanVars
    <2>7. \A p \in Paths : EntryOK(p)'
      BY <1>1, <1>9 DEF MemoTyped, EntryOK, StartProc, memoVars, scanVars
    <2>8. \A q \in Reads : StreamOK(q)'
      BY <1>1, <1>9 DEF MemoTyped, StreamOK, LockOK, Tripping, Single, StartProc, memoVars, scanVars
    <2>9. Idle' /\ NoProcessLeft' /\ (lock # None => ~broken)'
      BY <1>1, <1>9 DEF IInv, Idle, NoProcessLeft, StartProc, memoVars, scanVars
    <2>10. QED
      BY <2>1, <2>2, <2>3, <2>4, <2>5, <2>6, <2>7, <2>8, <2>9 DEF IInv
  <1>10. CASE AvoidBroken(r)
    <2>1. MemoTyped'
      BY <1>1, <1>10
         DEF MemoTyped, Places, Found, Kinds, ShowOf, AvoidBroken, Shows, memoVars, procVars,
             scanVars
    <2>2. ProcTyped'
      BY <1>1, <1>10 DEF MemoTyped, ProcTyped, AvoidBroken, Shows, memoVars, procVars, scanVars
    <2>3. PipeTyped'
      BY <1>1, <1>10 DEF PipeTyped, AvoidBroken, Shows, memoVars, procVars, scanVars
    <2>4. \A q \in Reads : LockOK(q)'
      BY <1>1, <1>10
         DEF MemoTyped, LockOK, Tripping, AvoidBroken, Shows, memoVars, procVars, scanVars
    <2>5. (Reckoned /\ IsFiniteSet(Retained))'
      BY <1>1, <1>10, ReadOfSettledDone, RetainedStays
         DEF MemoTyped, AvoidBroken, Shows, memoVars, procVars, scanVars
    <2>6. \A q \in Reads : ReadOK(q)'
      BY <1>1, <1>10
         DEF MemoTyped, ReadOK, Right, Owning, Tripping, AvoidBroken, Shows, memoVars, procVars,
             scanVars
    <2>7. \A p \in Paths : EntryOK(p)'
      BY <1>1, <1>10 DEF MemoTyped, EntryOK, AvoidBroken, Shows, memoVars, procVars, scanVars
    <2>8. \A q \in Reads : StreamOK(q)'
      BY <1>1, <1>10
         DEF MemoTyped, StreamOK, LockOK, Tripping, Single, AvoidBroken, Shows, memoVars,
             procVars, scanVars
    <2>9. Idle' /\ NoProcessLeft' /\ (lock # None => ~broken)'
      BY <1>1, <1>10 DEF IInv, Idle, NoProcessLeft, AvoidBroken, Shows, memoVars, procVars, scanVars
    <2>10. QED
      BY <2>1, <2>2, <2>3, <2>4, <2>5, <2>6, <2>7, <2>8, <2>9 DEF IInv
  <1>11. CASE Ask(r)
    <2>1. MemoTyped'
      BY <1>1, <1>11, AskStreams
         DEF MemoTyped, Places, Found, Kinds, ShowOf, Ask, Fail, Shows, memoVars, scanVars
    <2>2. ProcTyped'
      BY <1>1, <1>11 DEF MemoTyped, ProcTyped, Ask, Fail, Shows, memoVars, scanVars
    <2>3. PipeTyped'
      <3>1. AnswerTo(wants[r]) \in Seq(Parts)
        <4>1. Header(wants[r]) \in Parts /\ Payload(wants[r]) \in Parts
          BY <1>1 DEF Parts, Header, Payload
        <4>2. QED
          BY <4>1 DEF AnswerTo
      <3>2. QED
        BY <1>1, <1>11, <3>1, AskStreams DEF PipeTyped, Ask, Fail, Shows
    <2>4. \A q \in Reads : LockOK(q)'
      BY <1>1, <1>11 DEF MemoTyped, LockOK, Tripping, Ask, Fail, Shows, memoVars, scanVars
    <2>5. (Reckoned /\ IsFiniteSet(Retained))'
      BY <1>1, <1>11, ReadOfSettledDone, RetainedStays
         DEF MemoTyped, Ask, Fail, Shows, memoVars, scanVars
    <2>6. \A q \in Reads : ReadOK(q)'
      BY <1>1, <1>11, AskStreams
         DEF MemoTyped, ReadOK, Right, Owning, Tripping, ShowOf, Kinds, Single, StreamOK, Ask,
             Fail, Shows, memoVars, scanVars
    <2>7. \A p \in Paths : EntryOK(p)'
      BY <1>1, <1>11 DEF MemoTyped, EntryOK, Ask, Fail, Shows, memoVars, scanVars
    <2>8. \A q \in Reads : StreamOK(q)'
      BY <1>1, <1>11, AskStreams
         DEF MemoTyped, StreamOK, LockOK, Tripping, Single, AnswerTo, Ask, Fail, Shows, memoVars,
             scanVars
    <2>9. Idle' /\ NoProcessLeft' /\ (lock # None => ~broken)'
      BY <1>1, <1>11, AskStreams
         DEF IInv, Idle, NoProcessLeft, Tripping, Single, Ask, Fail, Shows, memoVars, scanVars
    <2>10. QED
      BY <2>1, <2>2, <2>3, <2>4, <2>5, <2>6, <2>7, <2>8, <2>9 DEF IInv
  <1>12. CASE ReadHeader(r)
    <2>1. MemoTyped'
      BY <1>1, <1>12, HeadOfPipe
         DEF MemoTyped, Places, Found, Kinds, ShowOf, Tripping, Header, Payload, ReadHeader,
             Fail, Shows, Finds, Status, memoVars, scanVars
    <2>2. ProcTyped'
      BY <1>1, <1>12
         DEF MemoTyped, ProcTyped, ReadHeader, Fail, Shows, Finds, Status, memoVars, scanVars
    <2>3. PipeTyped'
      <3>1. /\ owed' \in {owed, <<>>}
            /\ pipe' = pipe \/ (pipe # <<>> /\ pipe' = Tail(pipe))
        BY <1>12 DEF ReadHeader, Fail
      <3>2. pipe # <<>> => Tail(pipe) \in Seq(Parts)
        BY <1>1, HeadTailProperties DEF PipeTyped
      <3>3. <<>> \in Seq(Parts)
        OBVIOUS
      <3>4. QED
        BY <1>1, <3>1, <3>2, <3>3 DEF PipeTyped
    <2>4. \A q \in Reads : LockOK(q)'
      BY <1>1, <1>12
         DEF MemoTyped, LockOK, Tripping, ReadHeader, Fail, Shows, Finds, Status, memoVars,
             scanVars
    <2>5. (Reckoned /\ IsFiniteSet(Retained))'
      BY <1>1, <1>12, ReadOfSettledDone, RetainedStays
         DEF MemoTyped, ReadHeader, Fail, Shows, Finds, Status, memoVars, scanVars
    <2>6. \A q \in Reads : ReadOK(q)'
      BY <1>1, <1>12, HeadOfPipe
         DEF MemoTyped, ReadOK, Right, Owning, Tripping, ShowOf, Kinds, Single, StreamOK, Header,
             Payload, ReadHeader, Fail, Shows, Finds, Status, memoVars, scanVars
    <2>7. \A p \in Paths : EntryOK(p)'
      BY <1>1, <1>12
         DEF MemoTyped, EntryOK, ReadHeader, Fail, Shows, Finds, Status, memoVars, scanVars
    <2>8. \A q \in Reads : StreamOK(q)'
      <3>1. /\ pc[r] = "asked" /\ pc[r] \in Tripping /\ pipe # <<>>
            /\ \A q \in Reads \ {r} : pc'[q] = pc[q] /\ pc[q] \notin Tripping
            /\ UNCHANGED wants
        BY <1>1, <1>12
           DEF MemoTyped, LockOK, Tripping, ReadHeader, Fail, Shows, Finds, Status, memoVars
      <3>2. \A q \in Reads \ {r} : StreamOK(q)'
        BY <3>1 DEF StreamOK, Tripping
      <3>3. Head(pipe) = Header(wants[r])
        BY <3>1, HeadOfPipe
      <3>4. CASE Single(wants[r])
        <4>1. pc'[r] \notin Tripping
          BY <1>1, <1>12, <3>3, <3>4
             DEF MemoTyped, Tripping, ReadHeader, Single, Header, Fail, Shows, Finds, Status
        <4>2. QED
          BY <3>2, <4>1 DEF StreamOK, Tripping
      <3>5. CASE ~Single(wants[r])
        <4>1. /\ pc'[r] = IF Kind[wants[r]] = "blob" THEN "payload" ELSE "draining"
              /\ pipe' = Tail(pipe) /\ owed' = owed
          BY <1>1, <1>12, <3>3, <3>5 DEF MemoTyped, ReadHeader, Single, Header
        <4>2. \/ Tail(pipe) = <<>> /\ owed = <<Payload(wants[r])>>
              \/ Tail(pipe) \in {<<>>, <<Payload(wants[r])>>} /\ owed = <<>>
          BY <3>1, <3>5, HeadOfPipe
        <4>3. StreamOK(r)'
          BY <3>1, <3>5, <4>1, <4>2 DEF StreamOK, Single
        <4>4. QED
          BY <3>2, <4>3
      <3>6. QED
        BY <3>4, <3>5
    <2>9. Idle' /\ NoProcessLeft' /\ (lock # None => ~broken)'
      BY <1>1, <1>12, HeadOfPipe
         DEF IInv, Idle, NoProcessLeft, Tripping, Single, Header, Payload, ReadHeader, Fail,
             Shows, Finds, Status, memoVars, scanVars
    <2>10. QED
      BY <2>1, <2>2, <2>3, <2>4, <2>5, <2>6, <2>7, <2>8, <2>9 DEF IInv
  <1>13. CASE ReadPayload(r)
    <2>1. MemoTyped'
      BY <1>1, <1>13, HeadOfPipe
         DEF MemoTyped, Places, Found, Kinds, ShowOf, Tripping, Header, Payload, ReadPayload,
             Finds, memoVars, scanVars
    <2>2. ProcTyped'
      BY <1>1, <1>13 DEF MemoTyped, ProcTyped, ReadPayload, Finds, memoVars, scanVars
    <2>3. PipeTyped'
      BY <1>1, <1>13, HeadOfPipe DEF PipeTyped, ReadPayload, Finds, memoVars, scanVars
    <2>4. \A q \in Reads : LockOK(q)'
      BY <1>1, <1>13 DEF MemoTyped, LockOK, Tripping, ReadPayload, Finds, memoVars, scanVars
    <2>5. (Reckoned /\ IsFiniteSet(Retained))'
      BY <1>1, <1>13, ReadOfSettledDone, RetainedStays
         DEF MemoTyped, ReadPayload, Finds, memoVars, scanVars
    <2>6. \A q \in Reads : ReadOK(q)'
      BY <1>1, <1>13, HeadOfPipe
         DEF MemoTyped, ReadOK, Right, Owning, Tripping, ShowOf, Kinds, Single, StreamOK, Header,
             Payload, ReadPayload, Finds, memoVars, scanVars
    <2>7. \A p \in Paths : EntryOK(p)'
      BY <1>1, <1>13 DEF MemoTyped, EntryOK, ReadPayload, Finds, memoVars, scanVars
    <2>8. \A q \in Reads : StreamOK(q)'
      BY <1>1, <1>13, HeadOfPipe
         DEF MemoTyped, StreamOK, LockOK, Tripping, Single, Header, Payload, ReadPayload, Finds,
             memoVars, scanVars
    <2>9. Idle' /\ NoProcessLeft' /\ (lock # None => ~broken)'
      BY <1>1, <1>13, HeadOfPipe
         DEF IInv, Idle, NoProcessLeft, Tripping, Single, Header, Payload, ReadPayload, Finds,
             memoVars, scanVars
    <2>10. QED
      BY <2>1, <2>2, <2>3, <2>4, <2>5, <2>6, <2>7, <2>8, <2>9 DEF IInv
  <1>14. CASE DrainPayload(r)
    <2>1. MemoTyped'
      BY <1>1, <1>14, HeadOfPipe
         DEF MemoTyped, Places, Found, Kinds, ShowOf, Tripping, Header, Payload, DrainPayload,
             Finds, Shows, memoVars, scanVars
    <2>2. ProcTyped'
      BY <1>1, <1>14 DEF MemoTyped, ProcTyped, DrainPayload, Finds, Shows, memoVars, scanVars
    <2>3. PipeTyped'
      BY <1>1, <1>14, HeadOfPipe DEF PipeTyped, DrainPayload, Finds, Shows, memoVars, scanVars
    <2>4. \A q \in Reads : LockOK(q)'
      BY <1>1, <1>14 DEF MemoTyped, LockOK, Tripping, DrainPayload, Finds, Shows, memoVars, scanVars
    <2>5. (Reckoned /\ IsFiniteSet(Retained))'
      BY <1>1, <1>14, ReadOfSettledDone, RetainedStays
         DEF MemoTyped, DrainPayload, Finds, Shows, memoVars, scanVars
    <2>6. \A q \in Reads : ReadOK(q)'
      BY <1>1, <1>14, HeadOfPipe
         DEF MemoTyped, ReadOK, Right, Owning, Tripping, ShowOf, Kinds, Single, StreamOK, Header,
             Payload, DrainPayload, Finds, Shows, memoVars, scanVars
    <2>7. \A p \in Paths : EntryOK(p)'
      BY <1>1, <1>14 DEF MemoTyped, EntryOK, DrainPayload, Finds, Shows, memoVars, scanVars
    <2>8. \A q \in Reads : StreamOK(q)'
      BY <1>1, <1>14, HeadOfPipe
         DEF MemoTyped, StreamOK, LockOK, Tripping, Single, Header, Payload, DrainPayload, Finds,
             Shows, memoVars, scanVars
    <2>9. Idle' /\ NoProcessLeft' /\ (lock # None => ~broken)'
      BY <1>1, <1>14, HeadOfPipe
         DEF IInv, Idle, NoProcessLeft, Tripping, Single, Header, Payload, DrainPayload, Finds,
             Shows, memoVars, scanVars
    <2>10. QED
      BY <2>1, <2>2, <2>3, <2>4, <2>5, <2>6, <2>7, <2>8, <2>9 DEF IInv
  <1>15. CASE ReadEnd(r)
    <2>1. MemoTyped'
      BY <1>1, <1>15
         DEF MemoTyped, Places, Found, Kinds, ShowOf, ReadEnd, Fail, Shows, memoVars, scanVars
    <2>2. ProcTyped'
      BY <1>1, <1>15 DEF MemoTyped, ProcTyped, ReadEnd, Fail, Shows, memoVars, scanVars
    <2>3. PipeTyped'
      BY <1>1, <1>15 DEF PipeTyped, ReadEnd, Fail, Shows, memoVars, scanVars
    <2>4. \A q \in Reads : LockOK(q)'
      BY <1>1, <1>15 DEF MemoTyped, LockOK, Tripping, ReadEnd, Fail, Shows, memoVars, scanVars
    <2>5. (Reckoned /\ IsFiniteSet(Retained))'
      BY <1>1, <1>15, ReadOfSettledDone, RetainedStays
         DEF MemoTyped, ReadEnd, Fail, Shows, memoVars, scanVars
    <2>6. \A q \in Reads : ReadOK(q)'
      BY <1>1, <1>15
         DEF MemoTyped, ReadOK, Right, Owning, Tripping, ReadEnd, Fail, Shows, memoVars, scanVars
    <2>7. \A p \in Paths : EntryOK(p)'
      BY <1>1, <1>15 DEF MemoTyped, EntryOK, ReadEnd, Fail, Shows, memoVars, scanVars
    <2>8. \A q \in Reads : StreamOK(q)'
      BY <1>1, <1>15
         DEF MemoTyped, StreamOK, LockOK, Tripping, Single, ReadEnd, Fail, Shows, memoVars,
             scanVars
    <2>9. Idle' /\ NoProcessLeft' /\ (lock # None => ~broken)'
      BY <1>1, <1>15 DEF IInv, Idle, NoProcessLeft, ReadEnd, Fail, Shows, memoVars, scanVars
    <2>10. QED
      BY <2>1, <2>2, <2>3, <2>4, <2>5, <2>6, <2>7, <2>8, <2>9 DEF IInv
  <1>16. CASE Watchdog(r)
    <2>1. MemoTyped'
      BY <1>1, <1>16 DEF MemoTyped, Places, Found, Kinds, ShowOf, Watchdog, Dies, memoVars, scanVars
    <2>2. ProcTyped'
      BY <1>1, <1>16 DEF MemoTyped, ProcTyped, Watchdog, Dies, memoVars, scanVars
    <2>3. PipeTyped'
      BY <1>1, <1>16 DEF PipeTyped, Watchdog, Dies, memoVars, scanVars
    <2>4. \A q \in Reads : LockOK(q)'
      BY <1>1, <1>16 DEF MemoTyped, LockOK, Tripping, Watchdog, Dies, memoVars, scanVars
    <2>5. (Reckoned /\ IsFiniteSet(Retained))'
      BY <1>1, <1>16, ReadOfSettledDone, RetainedStays
         DEF MemoTyped, Watchdog, Dies, memoVars, scanVars
    <2>6. \A q \in Reads : ReadOK(q)'
      BY <1>1, <1>16
         DEF MemoTyped, ReadOK, Right, Owning, Tripping, Watchdog, Dies, memoVars, scanVars
    <2>7. \A p \in Paths : EntryOK(p)'
      BY <1>1, <1>16 DEF MemoTyped, EntryOK, Watchdog, Dies, memoVars, scanVars
    <2>8. \A q \in Reads : StreamOK(q)'
      BY <1>1, <1>16
         DEF MemoTyped, StreamOK, LockOK, Tripping, Single, Watchdog, Dies, memoVars, scanVars
    <2>9. Idle' /\ NoProcessLeft' /\ (lock # None => ~broken)'
      BY <1>1, <1>16 DEF IInv, Idle, NoProcessLeft, Watchdog, Dies, memoVars, scanVars
    <2>10. QED
      BY <2>1, <2>2, <2>3, <2>4, <2>5, <2>6, <2>7, <2>8, <2>9 DEF IInv
  <1>17. CASE Show(r)
    <2>1. MemoTyped'
      BY <1>1, <1>17 DEF MemoTyped, Places, Found, Kinds, ShowOf, Show, Finds, memoVars, procVars
    <2>2. ProcTyped'
      BY <1>1, <1>17 DEF MemoTyped, ProcTyped, Show, Finds, memoVars, procVars
    <2>3. PipeTyped'
      BY <1>1, <1>17 DEF PipeTyped, Show, Finds, memoVars, procVars
    <2>4. \A q \in Reads : LockOK(q)'
      BY <1>1, <1>17 DEF MemoTyped, LockOK, Tripping, Show, Finds, memoVars, procVars
    <2>5. (Reckoned /\ IsFiniteSet(Retained))'
      BY <1>1, <1>17, ReadOfSettledDone, RetainedStays
         DEF MemoTyped, Show, Finds, memoVars, procVars
    <2>6. \A q \in Reads : ReadOK(q)'
      BY <1>1, <1>17 DEF MemoTyped, ReadOK, Right, Owning, Tripping, Show, Finds, memoVars, procVars
    <2>7. \A p \in Paths : EntryOK(p)'
      BY <1>1, <1>17 DEF MemoTyped, EntryOK, Show, Finds, memoVars, procVars
    <2>8. \A q \in Reads : StreamOK(q)'
      BY <1>1, <1>17
         DEF MemoTyped, StreamOK, LockOK, Tripping, Single, Show, Finds, memoVars, procVars
    <2>9. Idle' /\ NoProcessLeft' /\ (lock # None => ~broken)'
      BY <1>1, <1>17 DEF IInv, Idle, NoProcessLeft, Show, Finds, memoVars, procVars
    <2>10. QED
      BY <2>1, <2>2, <2>3, <2>4, <2>5, <2>6, <2>7, <2>8, <2>9 DEF IInv
  <1>18. QED
    BY <1>2, <1>3, <1>4, <1>5, <1>6, <1>7, <1>8, <1>9, <1>10, <1>11, <1>12, <1>13, <1>14, <1>15, <1>16, <1>17
       DEF Step

\* What git writes continues the answer that is waited for.
LEMMA WritesAnswer ==
    ASSUME IInv, NEW r \in Reads, lock = r, GitWrites
    PROVE  StreamOK(r)'
  <1> DEFINE h == Header(wants[r])
             p == Payload(wants[r])
  <1>1. StreamOK(r) /\ pc[r] \in Tripping /\ h \in Parts /\ p \in Parts
    BY DEF IInv, MemoTyped, LockOK, Parts, Header, Payload
  <1>2. /\ Head(<<h>>) = h /\ Tail(<<h>>) = <<>> /\ Head(<<p>>) = p /\ Tail(<<p>>) = <<>>
        /\ Head(<<h, p>>) = h /\ Tail(<<h, p>>) = <<p>>
        /\ Append(<<>>, h) = <<h>> /\ Append(<<>>, p) = <<p>> /\ Append(<<h>>, p) = <<h, p>>
    BY <1>1, Tuples
  <1>3. /\ owed # <<>> /\ pipe' = Append(pipe, Head(owed)) /\ owed' = Tail(owed)
        /\ UNCHANGED <<pc, wants>>
    BY DEF GitWrites, memoVars
  <1> HIDE DEF h, p
  <1>4. CASE pc[r] = "asked" /\ Single(wants[r])
    BY <1>1, <1>2, <1>3, <1>4 DEF StreamOK, Single, h, p
  <1>5. CASE pc[r] = "asked" /\ ~Single(wants[r])
    BY <1>1, <1>2, <1>3, <1>5 DEF StreamOK, Single, h, p
  <1>6. CASE pc[r] \in {"payload", "draining"}
    BY <1>1, <1>2, <1>3, <1>6 DEF StreamOK, h, p
  <1>7. QED
    BY <1>1, <1>4, <1>5, <1>6 DEF Tripping

\* Steps of git, of the scan and of Close.
LEMMA OthersPreserve ==
    ASSUME IInv, GitWrites \/ Dies \/ Cancel \/ CloseReader \/ Stop
    PROVE  IInv'
  <1> USE NoneAssumption
  <1>1. UNCHANGED <<pc, result, memoVars, lock>> /\ unshown' = unshown /\ (cancelled => cancelled')
    BY DEF GitWrites, Dies, Cancel, CloseReader, Stop, memoVars, procVars, scanVars
  <1>2. UNCHANGED <<pc, result, wants, entries, joined, settled, cachedBytes, lock>>
    BY <1>1 DEF memoVars
  <1>3. (Reckoned /\ IsFiniteSet(Retained))'
    BY <1>2, RetainedStays
  <1>4. MemoTyped' /\ (\A r \in Reads : LockOK(r) /\ ReadOK(r))' /\ (\A p \in Paths : EntryOK(p))'
    BY <1>1, <1>2 DEF IInv, MemoTyped, LockOK, ReadOK, Right, EntryOK
  <1>5. ProcTyped'
    BY <1>2 DEF IInv, ProcTyped, GitWrites, Dies, Cancel, CloseReader, Stop, procVars, scanVars
  <1>6. PipeTyped'
    <2>1. CASE GitWrites
      <3>1. Head(owed) \in Parts /\ Tail(owed) \in Seq(Parts)
        BY <2>1, HeadTailProperties DEF IInv, PipeTyped, GitWrites
      <3>2. QED
        BY <2>1, <3>1, AppendProperties DEF IInv, PipeTyped, GitWrites
    <2>2. CASE ~GitWrites
      <3>1. owed' \in {owed, <<>>} /\ pipe' = pipe /\ <<>> \in Seq(Parts)
        BY <2>2 DEF Dies, Cancel, CloseReader, Stop, procVars
      <3>2. QED
        BY <3>1 DEF IInv, PipeTyped
    <2>3. QED
      BY <2>1, <2>2
  <1>7. \A r \in Reads : StreamOK(r)'
    <2> TAKE r \in Reads
    <2>1. CASE pc[r] \in Tripping /\ GitWrites
      BY <2>1, WritesAnswer DEF IInv, LockOK
    <2>2. CASE pc[r] \in Tripping /\ ~GitWrites
      <3>1. pipe' = pipe /\ owed' \in {owed, <<>>}
        BY <2>2 DEF Dies, Cancel, CloseReader, Stop, procVars
      <3>2. QED
        BY <1>2, <3>1 DEF IInv, StreamOK
    <2>3. CASE pc[r] \notin Tripping
      BY <1>2, <2>3 DEF StreamOK, Tripping
    <2>4. QED
      BY <2>1, <2>2, <2>3
  <1>8. Idle' /\ (lock # None => ~broken)' /\ NoProcessLeft'
    BY <1>2 DEF IInv, Idle, NoProcessLeft, ProcTyped, GitWrites, Dies, Cancel, CloseReader, Stop,
                procVars, scanVars
  <1>9. QED
    BY <1>3, <1>4, <1>5, <1>6, <1>7, <1>8 DEF IInv

LEMMA Invariance == Spec => []IInv
  <1>1. IInv /\ [Next]_vars => IInv'
    <2> SUFFICES ASSUME IInv, [Next]_vars PROVE IInv'
      OBVIOUS
    <2>1. CASE \E r \in Reads : Step(r)
      BY <2>1, StepPreserves
    <2>2. CASE GitWrites \/ Dies \/ Cancel \/ CloseReader \/ Stop
      BY <2>2, OthersPreserve
    <2>3. CASE UNCHANGED vars
      <3>1. UNCHANGED <<pc, result, wants, entries, joined, settled, cachedBytes, proc, lock, broken,
                        owed, pipe, closing, cancelled, unshown>>
        BY <2>3 DEF vars, memoVars, procVars, scanVars
      <3>2. (Reckoned /\ IsFiniteSet(Retained))'
        BY <3>1, RetainedStays
      <3>3. QED
        BY <3>1, <3>2 DEF IInv, MemoTyped, ProcTyped, PipeTyped, LockOK, ReadOK, Right, StreamOK,
                          EntryOK, Idle, NoProcessLeft
    <2>4. QED
      BY <2>1, <2>2, <2>3 DEF Next, Terminated
  <1>2. QED
    BY InitIInv, <1>1, PTL DEF Spec

----------------------------------------------------------------------------
\* Every variable keeps its shape, the lock is held exactly during round trips, and
\* the reckoned bytes are those of the retained contents, within the budget.
THEOREM TypeCorrect == Spec => []TypeOK
  BY Invariance, IInvTyped, PTL

\* A read is answered as git show would, or fails as one did or for a cancelled scan,
\* whatever the process does and whenever it is killed.
THEOREM AnswersAreShown == Spec => []AnswersAsShow
  <1>1. IInv => AnswersAsShow
    BY DEF IInv, ReadOK, Right, AnswersAsShow
  <1>2. QED
    BY Invariance, <1>1, PTL

\* No process outlives Close.
THEOREM NoneOutlivesClose == Spec => []NoProcessLeft
  <1>1. IInv => NoProcessLeft
    BY DEF IInv
  <1>2. QED
    BY Invariance, <1>1, PTL

----------------------------------------------------------------------------
(* Nobody waits for ever: an entry has an owner that works on it or has    *)
(* settled it, and a round trip has a process to wait for.                 *)

Attended(e) == pc[e] \in Owning \/ e \in settled

WaitInv ==
    /\ \A p \in Paths : entries[p] # None => Attended(entries[p])
    /\ \A r \in Reads : pc[r] = "joined" => Attended(joined[r])
    /\ lock # None => proc \in {"live", "dead"}

\* No step leaves an entry to itself.
LEMMA AttendedStays ==
    ASSUME IInv, NEW r \in Reads, Step(r), NEW e \in Reads, Attended(e)
    PROVE  Attended(e)'
  <1> USE DEF Attended, Owning, Tripping, Goto, Finds, Shows, memoVars, Dies
  <1>1. pc \in [Reads -> Places]
    BY DEF IInv, MemoTyped
  <1>2. CASE e # r
    BY <1>1, <1>2
       DEF Step, Join, Enter, Settle, Follow, Abandon, FallBack, UseProc, StartProc, AvoidBroken,
           Ask, Fail, ReadHeader, Status, ReadPayload, DrainPayload, ReadEnd, Watchdog, Show
  <1>3. CASE e = r
    <2>1. CASE Join(r) \/ Enter(r) \/ Settle(r) \/ Follow(r)
      BY <1>1, <1>3, <2>1, ReadOfSettledDone DEF Join, Enter, Settle, Follow
    <2>2. CASE ~(Join(r) \/ Enter(r) \/ Settle(r) \/ Follow(r))
      BY <1>1, <1>3, <2>2
         DEF Step, Abandon, FallBack, UseProc, StartProc, AvoidBroken, Ask, Fail, ReadHeader,
             Status, ReadPayload, DrainPayload, ReadEnd, Watchdog, Show
    <2> QED
      BY <2>1, <2>2
  <1> QED
    BY <1>2, <1>3

LEMMA WaitStep ==
    ASSUME IInv, WaitInv, NEW r \in Reads, Step(r)
    PROVE  WaitInv'
  <1> USE NoneAssumption
  <1>1. /\ pc \in [Reads -> Places] /\ wants \in [Reads -> Paths]
        /\ entries \in [Paths -> Reads \cup {None}] /\ joined \in [Reads -> Reads \cup {None}]
    BY DEF IInv, MemoTyped
  <1>2. \A p \in Paths : entries'[p] \in {entries[p], None} \/ (entries'[p] = r /\ pc'[r] = "fetching")
    <2>1. CASE Enter(r) \/ Settle(r)
      BY <1>1, <2>1 DEF Enter, Settle, Goto
    <2>2. CASE ~(Enter(r) \/ Settle(r))
      <3>1. UNCHANGED entries
        BY <2>2
           DEF Step, Join, Follow, Abandon, FallBack, UseProc, StartProc, AvoidBroken, Ask, Fail,
               ReadHeader, ReadPayload, DrainPayload, ReadEnd, Watchdog, Show, memoVars, Dies
      <3> QED
        BY <3>1
    <2> QED
      BY <2>1, <2>2
  <1>3. (\A p \in Paths : entries[p] # None => Attended(entries[p]))'
    <2> SUFFICES ASSUME NEW p \in Paths, entries'[p] # None PROVE Attended(entries[p])'
      OBVIOUS
    <2>1. CASE entries'[p] = entries[p]
      <3>1. PICK e \in Reads : e = entries[p] /\ Attended(e)
        BY <1>1, <2>1 DEF WaitInv
      <3>2. Attended(e)'
        BY <3>1, AttendedStays
      <3> QED
        BY <2>1, <3>1, <3>2 DEF Attended
    <2>2. CASE entries'[p] = r /\ pc'[r] = "fetching"
      BY <2>2 DEF Attended, Owning
    <2> QED
      BY <1>2, <2>1, <2>2
  <1>4. \A q \in Reads : pc'[q] = "joined" =>
            \/ pc[q] = "joined" /\ joined'[q] = joined[q]
            \/ joined'[q] = entries[wants[q]] /\ entries[wants[q]] # None
    BY <1>1
       DEF Step, Join, Enter, Settle, Follow, Abandon, FallBack, UseProc, StartProc, AvoidBroken,
           Ask, Fail, ReadHeader, Status, ReadPayload, DrainPayload, ReadEnd, Watchdog, Show,
           memoVars, Goto, Finds, Shows, Dies
  <1>5. (\A q \in Reads : pc[q] = "joined" => Attended(joined[q]))'
    <2> SUFFICES ASSUME NEW q \in Reads, pc'[q] = "joined" PROVE Attended(joined[q])'
      OBVIOUS
    <2>1. PICK e \in Reads : e = joined'[q] /\ Attended(e)
      <3>1. CASE pc[q] = "joined" /\ joined'[q] = joined[q]
        BY <3>1 DEF WaitInv, IInv, ReadOK
      <3>2. CASE joined'[q] = entries[wants[q]] /\ entries[wants[q]] # None
        BY <1>1, <3>2 DEF WaitInv
      <3> QED
        BY <1>4, <3>1, <3>2
    <2>2. Attended(e)'
      BY <2>1, AttendedStays
    <2> QED
      BY <2>1, <2>2 DEF Attended
  <1>6. lock' # None => proc' \in {"live", "dead"}
    BY DEF WaitInv, Step, Join, Enter, Settle, Follow, Abandon, FallBack, UseProc, StartProc,
           AvoidBroken, Ask, Fail, ReadHeader, ReadPayload, DrainPayload, ReadEnd, Watchdog, Show,
           procVars, Dies
  <1> QED
    BY <1>3, <1>5, <1>6 DEF WaitInv

\* A read that can move, of its own or because its deadline passes.
Unblocked(r) ==
    \/ pc[r] \in {"new", "fetching", "showing", "settling"}
    \/ pc[r] = "joined" /\ joined[r] \in settled
    \/ pc[r] = "locking" /\ lock = None
    \/ pc[r] \in Tripping /\ (pipe # <<>> \/ proc \in {"live", "dead"})

CloseUnblocked == closing = "no" \/ (closing = "stopping" /\ lock = None)

ReaderNeverStuck ==
    closing # "closed" \/ (\E r \in Reads : pc[r] # "done") =>
        CloseUnblocked \/ \E r \in Reads : Unblocked(r)

\* While a read or Close has not returned, one of them can move, git doing nothing:
\* nobody waits for an entry that its owner gave up, for a lock that nobody releases
\* or for a process that is no more.
THEOREM ReadsNeverStuck == Spec => []ReaderNeverStuck
  <1>1. Init => WaitInv
    BY DEF Init, WaitInv
  <1>2. IInv /\ WaitInv /\ [Next]_vars => WaitInv'
    <2> SUFFICES ASSUME IInv, WaitInv, [Next]_vars PROVE WaitInv'
      OBVIOUS
    <2>1. CASE \E r \in Reads : Step(r)
      BY <2>1, WaitStep
    <2>2. CASE GitWrites \/ Dies \/ Cancel \/ CloseReader \/ Stop \/ UNCHANGED vars
      BY <2>2 DEF WaitInv, Attended, GitWrites, Dies, Cancel, CloseReader, Stop, vars, memoVars,
                  procVars, scanVars
    <2> QED
      BY <2>1, <2>2 DEF Next, Terminated
  <1>3. IInv /\ WaitInv => ReaderNeverStuck
    <2> SUFFICES ASSUME IInv, WaitInv, ~CloseUnblocked,
                        closing # "closed" \/ \E r \in Reads : pc[r] # "done"
                 PROVE  \E r \in Reads : Unblocked(r)
      BY DEF ReaderNeverStuck
    <2>1. CASE lock # None
      BY <2>1 DEF IInv, ProcTyped, LockOK, WaitInv, Unblocked
    <2>2. CASE lock = None
      <3>1. PICK r \in Reads : pc[r] # "done"
        BY <2>2 DEF IInv, ProcTyped, CloseUnblocked
      <3>2. CASE pc[r] = "joined"
        <4>1. PICK e \in Reads : e = joined[r] /\ Attended(e)
          BY <3>2 DEF IInv, ReadOK, WaitInv
        <4> QED
          BY <2>2, <3>2, <4>1, NoneAssumption
             DEF IInv, LockOK, Attended, Owning, Tripping, Unblocked
      <3>3. CASE pc[r] # "joined"
        BY <2>2, <3>1, <3>3, NoneAssumption
           DEF IInv, MemoTyped, LockOK, Places, Tripping, Unblocked
      <3> QED
        BY <3>2, <3>3
    <2> QED
      BY <2>1, <2>2
  <1> QED
    BY Invariance, <1>1, <1>2, <1>3, PTL DEF Spec

----------------------------------------------------------------------------
(* And nobody goes round in a circle.                                      *)

\* How far a read, the process and Close have come.
Rank(place) ==
    CASE place = "new"                       -> 0
      [] place \in {"joined", "fetching"}    -> 1
      [] place = "locking"                   -> 2
      [] place = "asked"                     -> 3
      [] place \in {"payload", "draining"}   -> 4
      [] place = "showing"                   -> 5
      [] place = "settling"                  -> 6
      [] place = "done"                      -> 7

ProcRank(state)  == CASE state = "none" -> 0 [] state = "live" -> 1 [] state \in {"failed", "dead"} -> 2
CloseRank(state) == CASE state = "no" -> 0 [] state = "stopping" -> 1 [] state = "closed" -> 2

Advances(r) ==
    \E place \in Places : pc' = [pc EXCEPT ![r] = place] /\ Rank(pc[r]) < Rank(place)

\* Nothing that has happened to the process, to Close or to the scan is undone.
NothingUndone ==
    /\ ProcRank(proc) <= ProcRank(proc')
    /\ CloseRank(closing) <= CloseRank(closing')
    /\ cancelled => cancelled'

SomethingHappens ==
    \/ ProcRank(proc) < ProcRank(proc')
    \/ CloseRank(closing) < CloseRank(closing')
    \/ ~cancelled /\ cancelled'
    \/ Len(owed') < Len(owed)

ReaderAdvances == NothingUndone /\ ((\E r \in Reads : Advances(r)) \/ (UNCHANGED pc /\ SomethingHappens))

\* A read that moves, moves on.
LEMMA ReadAdvances ==
    ASSUME NEW r \in Reads, Step(r), ~Watchdog(r), pc \in [Reads -> Places]
    PROVE  Advances(r)
  <1> USE DEF Goto, Finds, Shows, Rank, Places
  <1>1. ASSUME NEW place \in Places, Goto(r, place), Rank(pc[r]) < Rank(place) PROVE Advances(r)
    BY <1>1 DEF Advances
  <1>2. CASE Join(r) \/ Enter(r) \/ Settle(r) \/ Follow(r)
    BY <1>1, <1>2 DEF Join, Enter, Settle, Follow
  <1>3. CASE Abandon(r) \/ FallBack(r) \/ UseProc(r) \/ StartProc(r)
    BY <1>1, <1>3 DEF Abandon, FallBack, UseProc, StartProc
  <1>4. CASE AvoidBroken(r) \/ Ask(r) \/ ReadEnd(r) \/ Show(r)
    BY <1>1, <1>4 DEF AvoidBroken, Ask, Fail, ReadEnd, Show
  <1>5. CASE ReadHeader(r)
    BY <1>1, <1>5 DEF ReadHeader, Fail, Status
  <1>6. CASE ReadPayload(r) \/ DrainPayload(r)
    BY <1>1, <1>6 DEF ReadPayload, DrainPayload
  <1> QED
    BY <1>2, <1>3, <1>4, <1>5, <1>6 DEF Step

\* Whatever is undone by nobody: a process is started once, a stream that died is not
\* taken up again, a closed reader stays closed.
LEMMA StepUndoesNothing ==
    ASSUME IInv, NEW r \in Reads, Step(r)
    PROVE  NothingUndone
  <1> USE DEF ProcRank, CloseRank
  <1>1. proc \in {"none", "failed", "live", "dead"} /\ closing \in {"no", "stopping", "closed"}
    BY DEF IInv, ProcTyped
  <1>2. UNCHANGED <<closing, cancelled>>
    BY DEF Step, Join, Enter, Settle, Follow, Abandon, FallBack, UseProc, StartProc, AvoidBroken,
           Ask, Fail, ReadHeader, ReadPayload, DrainPayload, ReadEnd, Watchdog, Dies, Show, scanVars
  <1>3. \/ UNCHANGED proc
        \/ proc = "none"
        \/ proc' = "dead"
    BY DEF Step, Join, Enter, Settle, Follow, Abandon, FallBack, UseProc, StartProc, AvoidBroken,
           Ask, Fail, ReadHeader, ReadPayload, DrainPayload, ReadEnd, Watchdog, Dies, Show, procVars
  <1>4. proc = "none" => proc' \in {"none", "failed", "live", "dead"}
    BY StepPreserves DEF IInv, ProcTyped
  <1> QED
    BY <1>1, <1>2, <1>3, <1>4 DEF NothingUndone

\* Every step of a scan takes a read further, or the process, its answer, Close or the
\* scan's cancellation, and none of these ever goes back: a read that was given up goes
\* to git show and never to a second process, and n reads and Close return within a
\* number of steps that n bounds.
THEOREM ReadsOnlyAdvance == Spec => [][ReaderAdvances]_vars
  <1>1. ASSUME IInv, NEW r \in Reads, Step(r) PROVE ReaderAdvances
    <2>1. NothingUndone
      BY <1>1, StepUndoesNothing
    <2>2. CASE Watchdog(r)
      BY <2>1, <2>2 DEF Watchdog, Dies, ReaderAdvances, SomethingHappens, ProcRank
    <2>3. CASE ~Watchdog(r)
      BY <1>1, <2>1, <2>3, ReadAdvances DEF IInv, MemoTyped, ReaderAdvances
    <2> QED
      BY <2>2, <2>3
  <1>2. ASSUME IInv, GitWrites \/ Dies \/ Cancel \/ CloseReader \/ Stop PROVE ReaderAdvances
    <2>1. UNCHANGED pc
      BY <1>2 DEF GitWrites, Dies, Cancel, CloseReader, Stop
    <2>2. NothingUndone
      BY <1>2 DEF IInv, ProcTyped, GitWrites, Dies, Cancel, CloseReader, Stop, procVars, scanVars,
                  NothingUndone, ProcRank, CloseRank
    <2>3. CASE GitWrites
      <3>1. Len(owed') < Len(owed)
        BY <2>3, HeadTailProperties, LenProperties DEF IInv, PipeTyped, GitWrites
      <3> QED
        BY <2>1, <2>2, <3>1 DEF ReaderAdvances, SomethingHappens
    <2>4. CASE Dies \/ Cancel \/ CloseReader \/ Stop
      BY <2>1, <2>2, <2>4
         DEF Dies, Cancel, CloseReader, Stop, ReaderAdvances, SomethingHappens, ProcRank, CloseRank
    <2> QED
      BY <1>2, <2>3, <2>4
  <1>3. IInv /\ [Next]_vars => [ReaderAdvances]_vars
    BY <1>1, <1>2 DEF Next, Terminated
  <1> QED
    BY <1>3, Invariance, PTL DEF Spec
=============================================================================
