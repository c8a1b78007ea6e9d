---------------------------- MODULE Parts_proofs ----------------------------
(***************************************************************************)
(* The mailbox is a FIFO queue, for any initial size and any messages; the *)
(* reader-writer lock excludes, for any finite set of threads; the harbor  *)
(* service forgets no message and keeps their order, and cuts incoming     *)
(* streams into whole messages, for any harbors, names and streams.        *)
(***************************************************************************)
EXTENDS MessageQueue, RWLock, Harbor, FiniteSetTheorems, WellFoundedInduction, TLAPS

-----------------------------------------------------------------------------
(* The ring buffer (MessageQueue).                                         *)

\* One subtraction reduces an index that has run past the end of the array.
LEMMA ModOnce ==
  ASSUME NEW c \in Nat \ {0}, NEW x \in 0..(2 * c - 1)
  PROVE  x % c = IF x < c THEN x ELSE x - c
<1>1. CASE x < c
  BY <1>1
<1>2. CASE x >= c
  <2>1. x = 1 * c + (x - c) /\ x - c \in 0..(c - 1)
    BY <1>2
  <2> QED BY <1>2, <2>1
<1> QED BY <1>1, <1>2

\* The ring is never full: that is what skynet_mq_push doubles it for.
LEMMA LengthFacts ==
  ASSUME NEW c \in Nat \ {0}, NEW h \in 0..(c - 1), NEW t \in 0..(c - 1)
  PROVE  /\ Length(h, t, c) \in Nat
         /\ Length(h, t, c) < c
         /\ Length(h, t, c) = 0 <=> h = t
BY DEF Length

\* The contents are a sequence, of the length skynet_mq_length returns.
ContentsOK ==
  /\ Contents \in Seq(Message \cup {NoMessage})
  /\ Len(Contents) = Length(head, tail, cap)
  /\ \A k \in 1..Length(head, tail, cap) :
       Contents[k] = IF head + k - 1 < cap THEN queue[head + k - 1]
                                           ELSE queue[head + k - 1 - cap]

LEMMA ContentsSeq == RingOK => ContentsOK
<1> SUFFICES ASSUME RingOK PROVE ContentsOK
  OBVIOUS
<1>1. Length(head, tail, cap) \in Nat /\ Length(head, tail, cap) < cap
  BY LengthFacts DEF RingOK
<1>2. ASSUME NEW k \in 1..Length(head, tail, cap)
      PROVE  (IF head + k - 1 < cap THEN queue[head + k - 1]
                                    ELSE queue[head + k - 1 - cap])
                \in Message \cup {NoMessage}
  BY <1>1 DEF RingOK
<1> QED BY <1>1, <1>2 DEF Contents, ContentsOK

\* Two sequences with the same length and the same elements are equal.
LEMMA SameSeq ==
  ASSUME NEW S, NEW r \in Seq(S), NEW s \in Seq(S), Len(r) = Len(s),
         \A k \in 1..Len(r) : r[k] = s[k]
  PROVE  r = s
OBVIOUS

\* Every step keeps the indices inside the array.
LEMMA RingStep ==
  ASSUME RingOK, [Next]_vars
  PROVE  RingOK'
<1>1. ASSUME NEW m \in Message, Push(m)
      PROVE  RingOK'
  <2> DEFINE written == [queue EXCEPT ![tail] = m]
  <2>1. written \in [0..(cap - 1) -> Message \cup {NoMessage}]
    BY DEF RingOK
  <2>2. CASE head = Wrap(tail + 1)
    <3>1. \A i \in 0..(cap - 1) : (head + i) % cap \in 0..(cap - 1)
      BY ModOnce DEF RingOK
    <3>2. Expand(written)
      BY <1>1, <2>2 DEF Push
    <3>3. queue' \in [0..(2 * cap - 1) -> Message \cup {NoMessage}]
      BY <2>1, <3>1, <3>2 DEF Expand, RingOK
    <3> QED BY <3>2, <3>3 DEF Expand, RingOK
  <2>3. CASE head # Wrap(tail + 1)
    BY <1>1, <2>1, <2>3 DEF Push, Wrap, RingOK
  <2> QED BY <2>2, <2>3
<1>2. CASE Pop
  BY <1>2 DEF Pop, Wrap, RingOK
<1>3. CASE PopEmpty \/ TakeOverload \/ UNCHANGED vars
  BY <1>3 DEF PopEmpty, TakeOverload, vars, ring, RingOK
<1> QED BY <1>1, <1>2, <1>3 DEF Next

\* skynet_mq_push appends, doubling the array or not.
LEMMA PushAppends ==
  ASSUME RingOK, RingOK', NEW m \in Message, Push(m)
  PROVE  Contents' = Append(Contents, m)
<1> DEFINE n == Length(head, tail, cap)
           S == Message \cup {NoMessage}
           written == [queue EXCEPT ![tail] = m]
<1>1. n \in Nat /\ n < cap
  BY LengthFacts DEF RingOK
<1>2. ContentsOK
  BY ContentsSeq
<1>3. ContentsOK'
  BY ContentsSeq, PTL
<1>4. /\ Append(Contents, m) \in Seq(S) /\ Len(Append(Contents, m)) = n + 1
      /\ Append(Contents, m)[n + 1] = m
      /\ \A k \in 1..n : Append(Contents, m)[k] = Contents[k]
  BY <1>1, <1>2 DEF ContentsOK
<1>5. Length(head', tail', cap') = n + 1
  <2>1. CASE head = Wrap(tail + 1)
    <3>1. head' = 0 /\ tail' = cap /\ cap' = 2 * cap
      BY <2>1 DEF Push, Expand
    <3>2. n = cap - 1
      BY <2>1 DEF Wrap, Length, RingOK
    <3> QED BY <3>1, <3>2 DEF Length, RingOK
  <2>2. CASE head # Wrap(tail + 1)
    <3>1. head' = head /\ tail' = Wrap(tail + 1) /\ cap' = cap
      BY <2>2 DEF Push
    <3> QED BY <2>2, <3>1 DEF Wrap, Length, RingOK
  <2> QED BY <2>1, <2>2
<1>6. \A k \in 1..n : head + k - 1 # tail /\ head + k - 1 - cap # tail
  BY <1>1 DEF Length, RingOK
<1>7. ASSUME NEW k \in 1..(n + 1)
      PROVE  Contents'[k] = Append(Contents, m)[k]
  <2> DEFINE at == IF head + k - 1 < cap THEN head + k - 1 ELSE head + k - 1 - cap
  <2>1. written[at] = IF k = n + 1 THEN m ELSE Contents[k]
    BY <1>1, <1>2, <1>6 DEF RingOK, Length, ContentsOK
  <2>2. Contents'[k] = written[at]
    <3>1. CASE head = Wrap(tail + 1)
      <4>1. head' = 0 /\ cap' = 2 * cap /\ k - 1 < cap
        BY <1>1, <3>1 DEF Push, Expand, RingOK
      <4>2. Contents'[k] = queue'[k - 1]
        BY <1>1, <1>3, <1>5, <4>1 DEF RingOK, ContentsOK
      <4>3. queue'[k - 1] = written[(head + (k - 1)) % cap]
        BY <1>1, <3>1, <4>1 DEF Push, Expand, RingOK
      <4>4. (head + (k - 1)) % cap = at
        <5> DEFINE x == head + (k - 1)
        <5>1. x \in 0..(2 * cap - 1) /\ cap \in Nat \ {0}
          BY <1>1, <4>1 DEF RingOK
        <5>2. at = IF x < cap THEN x ELSE x - cap
          BY <1>1 DEF RingOK
        <5> HIDE DEF x, at
        <5>3. x % cap = at
          BY <5>1, <5>2, ModOnce
        <5> QED BY <5>3 DEF x
      <4> QED BY <4>2, <4>3, <4>4
    <3>2. CASE head # Wrap(tail + 1)
      BY <1>3, <1>5, <3>2 DEF Push, ContentsOK
    <3> QED BY <3>1, <3>2
  <2> QED BY <1>1, <1>4, <2>1, <2>2
<1> QED BY <1>1, <1>3, <1>4, <1>5, <1>7, SameSeq DEF ContentsOK

\* skynet_mq_pop returns the first message and leaves the others.
LEMMA PopTakes ==
  ASSUME RingOK, RingOK', Pop
  PROVE  /\ Contents # <<>>
         /\ message' = Head(Contents)
         /\ Contents' = Tail(Contents)
<1> DEFINE n == Length(head, tail, cap)
           S == Message \cup {NoMessage}
<1>1. n \in Nat /\ n < cap /\ n # 0
  BY LengthFacts DEF RingOK, Pop
<1>2. ContentsOK
  BY ContentsSeq
<1>3. ContentsOK'
  BY ContentsSeq, PTL
<1>4. Contents # <<>> /\ Head(Contents) = Contents[1]
  BY <1>1, <1>2 DEF ContentsOK
<1>5. message' = Head(Contents)
  BY <1>1, <1>2, <1>4 DEF Pop, RingOK, ContentsOK
<1>6. Length(head', tail', cap') = n - 1
  BY <1>1 DEF Pop, Wrap, Length, RingOK
<1>7. /\ Tail(Contents) \in Seq(S) /\ Len(Tail(Contents)) = n - 1
      /\ \A k \in 1..(n - 1) : Tail(Contents)[k] = Contents[k + 1]
  BY <1>1, <1>2, <1>4 DEF ContentsOK
<1>8. ASSUME NEW k \in 1..(n - 1)
      PROVE  Contents'[k] = Contents[k + 1]
  BY <1>1, <1>2, <1>3, <1>6 DEF Pop, Wrap, RingOK, ContentsOK
<1> QED BY <1>1, <1>3, <1>4, <1>5, <1>6, <1>7, <1>8, SameSeq DEF ContentsOK

\* The queue starts empty, inside its array.
LEMMA InitRing ==
  ASSUME Init
  PROVE  RingOK /\ Abstract!Init
<1>1. RingOK
  BY QueueAssumption DEF Init, RingOK
<1>2. Contents \in Seq(Message \cup {NoMessage}) /\ Len(Contents) = 0
  BY <1>1, ContentsSeq DEF ContentsOK, Init, Length
<1> QED BY <1>1, <1>2 DEF Init, Abstract!Init

\* Every step puts one message at the end, takes one from the front, or leaves
\* the contents and the last message alone.
LEMMA StepMaps ==
  ASSUME RingOK, RingOK', [Next]_vars
  PROVE  [Abstract!Next]_<<Contents, message>>
<1>1. ASSUME NEW m \in Message, Push(m)
      PROVE  Abstract!Put(m)
  BY <1>1, PushAppends DEF Abstract!Put, Push
<1>2. ASSUME Pop
      PROVE  Abstract!Take
  BY <1>2, PopTakes DEF Abstract!Take
<1>3. ASSUME PopEmpty \/ TakeOverload \/ UNCHANGED vars
      PROVE  UNCHANGED <<Contents, message>>
  BY <1>3 DEF PopEmpty, TakeOverload, vars, ring, Contents
<1> QED BY <1>1, <1>2, <1>3 DEF Next, Abstract!Next

\* The ring buffer of skynet_mq.c hands messages out in the order they were
\* pushed, none lost, overwritten or made up, however often it wraps around and
\* wherever it stands when expand_queue doubles it.
THEOREM QueueIsFifo == Spec => IsFifo
<1>1. Init => RingOK /\ Abstract!Init
  BY InitRing
<1>2. RingOK /\ [Next]_vars => RingOK'
  BY RingStep
<1>3. RingOK /\ RingOK' /\ [Next]_vars => [Abstract!Next]_<<Contents, message>>
  BY StepMaps
<1> QED BY <1>1, <1>2, <1>3, PTL DEF Spec, IsFifo, Abstract!Spec

-----------------------------------------------------------------------------
(* The lock (RWLock).                                                      *)

\* lock->read follows the announcement of one reader: the set of announced
\* threads gains or loses one thread, or stays as it is.
LEMMA AnnouncedFacts ==
  ASSUME LockTypeOK, NEW t \in Threads,
         NEW to \in {"out", "rspin", "announce", "recheck", "backout",
                     "reading", "set", "drain", "writing"},
         pc' = [pc EXCEPT ![t] = to]
  PROVE  /\ Cardinality(Announced) \in Nat
         /\ read = 0 /\ ReadExact => Announced = {}
         /\ to = "recheck" /\ t \notin Announced
              => Cardinality(Announced') = Cardinality(Announced) + 1
         /\ to \in {"rspin", "out"} /\ t \in Announced
              => /\ Cardinality(Announced') = Cardinality(Announced) - 1
                 /\ Cardinality(Announced) > 0
<1> DEFINE A == Announced
<1>1. IsFiniteSet(A) /\ Cardinality(A) \in Nat
  BY ThreadsFinite, FS_Subset, FS_CardinalityType DEF Announced
<1>2. Cardinality(A) = 0 => A = {}
  BY <1>1, FS_EmptySet
<1>3. ASSUME to = "recheck", t \notin A
      PROVE  Cardinality(A') = Cardinality(A) + 1
  <2>1. A' = A \cup {t}
    BY <1>3 DEF Announced, LockTypeOK
  <2> QED BY <1>1, <1>3, <2>1, FS_AddElement
<1>4. ASSUME to \in {"rspin", "out"}, t \in A
      PROVE  Cardinality(A') = Cardinality(A) - 1 /\ Cardinality(A) > 0
  <2>1. A' = A \ {t}
    BY <1>4 DEF Announced, LockTypeOK
  <2>2. Cardinality(A') = Cardinality(A) - 1
    BY <1>1, <1>4, <2>1, FS_RemoveElement
  <2>3. Cardinality(A) # 0
    BY <1>2, <1>4
  <2> QED BY <1>1, <2>2, <2>3
<1> QED BY <1>1, <1>2, <1>3, <1>4 DEF ReadExact

\* Initially nobody is near the lock and both fields are 0.
LEMMA InitIInv ==
  ASSUME LockInit
  PROVE  LockIInv
<1>1. LockTypeOK
  BY DEF LockInit, LockTypeOK
<1>2. Announced = {} /\ Claimants = {} /\ Writers = {}
  BY DEF LockInit, Announced, Claimants, Writers
<1> QED BY <1>1, <1>2, FS_EmptySet
        DEF LockInit, LockIInv, FieldsExact, ReadExact, OneClaimant, Exclusion

\* A thread that moves outside the two write states and not into "reading"
\* leaves the writer's half of the invariant alone.
LEMMA WriterHalf ==
  ASSUME LockIInv, NEW t \in Threads,
         NEW from \in {"out", "rspin", "announce", "recheck", "backout",
                       "reading", "set"},
         NEW to \in {"out", "rspin", "announce", "recheck", "backout", "set"},
         Go(t, from, to), UNCHANGED write
  PROVE  OneClaimant' /\ Exclusion'
<1>1. Claimants' = Claimants /\ Writers' = Writers /\ Readers' \subseteq Readers
  BY DEF Go, Claimants, Writers, Readers, LockIInv, LockTypeOK
<1> QED BY <1>1 DEF LockIInv, FieldsExact, OneClaimant, Exclusion

\* Every step keeps the inductive invariant.
LEMMA StepIInv ==
  ASSUME LockIInv, [LockNext]_lockVars
  PROVE  LockIInv'
<1> USE DEF LockIInv, FieldsExact
<1>1. ASSUME NEW t \in Threads, WantRead(t)
      PROVE  LockIInv'
  <2>1. LockTypeOK'
    BY <1>1 DEF WantRead, Go, LockTypeOK
  <2>2. Announced' = Announced
    BY <1>1 DEF WantRead, Go, LockTypeOK, Announced
  <2>3. ReadExact'
    BY <1>1, <2>2 DEF WantRead, ReadExact
  <2>4. OneClaimant' /\ Exclusion'
    BY <1>1, WriterHalf DEF WantRead
  <2> QED BY <2>1, <2>3, <2>4
<1>2. ASSUME NEW t \in Threads, WantWrite(t)
      PROVE  LockIInv'
  <2>1. LockTypeOK'
    BY <1>2 DEF WantWrite, Go, LockTypeOK
  <2>2. Announced' = Announced
    BY <1>2 DEF WantWrite, Go, LockTypeOK, Announced
  <2>3. ReadExact'
    BY <1>2, <2>2 DEF WantWrite, ReadExact
  <2>4. OneClaimant' /\ Exclusion'
    BY <1>2, WriterHalf DEF WantWrite
  <2> QED BY <2>1, <2>3, <2>4
<1>3. ASSUME NEW t \in Threads, SeeNoWriter(t)
      PROVE  LockIInv'
  <2>1. LockTypeOK'
    BY <1>3 DEF SeeNoWriter, Go, LockTypeOK
  <2>2. Announced' = Announced
    BY <1>3 DEF SeeNoWriter, Go, LockTypeOK, Announced
  <2>3. ReadExact'
    BY <1>3, <2>2 DEF SeeNoWriter, ReadExact
  <2>4. OneClaimant' /\ Exclusion'
    BY <1>3, WriterHalf DEF SeeNoWriter
  <2> QED BY <2>1, <2>3, <2>4
<1>4. ASSUME NEW t \in Threads, Announce(t)
      PROVE  LockIInv'
  <2>1. LockTypeOK'
    BY <1>4 DEF Announce, Go, LockTypeOK
  <2>2. t \notin Announced
    BY <1>4 DEF Announce, Go, Announced
  <2>3. Cardinality(Announced') = Cardinality(Announced) + 1
    BY <1>4, <2>2, AnnouncedFacts DEF Announce, Go
  <2>4. ReadExact'
    BY <1>4, <2>3 DEF Announce, ReadExact
  <2>5. OneClaimant' /\ Exclusion'
    BY <1>4, WriterHalf DEF Announce
  <2> QED BY <2>1, <2>4, <2>5
<1>5. ASSUME NEW t \in Threads, Recheck(t)
      PROVE  LockIInv'
  <2>1. LockTypeOK'
    BY <1>5 DEF Recheck, Go, LockTypeOK
  <2>2. Announced' = Announced
    BY <1>5 DEF Recheck, Go, LockTypeOK, Announced
  <2>3. ReadExact'
    BY <1>5, <2>2 DEF Recheck, ReadExact
  <2>4. CASE write = 1
    BY <1>5, <2>1, <2>3, <2>4, WriterHalf DEF Recheck
  <2>5. CASE write # 1
    <3>1. Claimants' = Claimants /\ Writers' = Writers
      BY <1>5, <2>5 DEF Recheck, Go, LockTypeOK, Claimants, Writers
    <3>2. Claimants = {} /\ Writers = {}
      BY <2>5 DEF OneClaimant, Claimants, Writers
    <3>3. OneClaimant' /\ Exclusion'
      BY <1>5, <3>1, <3>2 DEF Recheck, OneClaimant, Exclusion
    <3> QED BY <2>1, <2>3, <3>3
  <2> QED BY <2>4, <2>5
<1>6. ASSUME NEW t \in Threads, BackOut(t)
      PROVE  LockIInv'
  <2>1. t \in Announced
    BY <1>6 DEF BackOut, Go, Announced
  <2>2. /\ Cardinality(Announced') = Cardinality(Announced) - 1
        /\ Cardinality(Announced) > 0
        /\ Cardinality(Announced) \in Nat
    BY <1>6, <2>1, AnnouncedFacts DEF BackOut, Go
  <2>3. ReadExact' /\ read' \in Nat
    BY <1>6, <2>2 DEF BackOut, ReadExact
  <2>4. LockTypeOK'
    BY <1>6, <2>3 DEF BackOut, Go, LockTypeOK
  <2>5. OneClaimant' /\ Exclusion'
    BY <1>6, WriterHalf DEF BackOut
  <2> QED BY <2>3, <2>4, <2>5
<1>7. ASSUME NEW t \in Threads, ReadUnlock(t)
      PROVE  LockIInv'
  <2>1. t \in Announced
    BY <1>7 DEF ReadUnlock, Go, Announced
  <2>2. /\ Cardinality(Announced') = Cardinality(Announced) - 1
        /\ Cardinality(Announced) > 0
        /\ Cardinality(Announced) \in Nat
    BY <1>7, <2>1, AnnouncedFacts DEF ReadUnlock, Go
  <2>3. ReadExact' /\ read' \in Nat
    BY <1>7, <2>2 DEF ReadUnlock, ReadExact
  <2>4. LockTypeOK'
    BY <1>7, <2>3 DEF ReadUnlock, Go, LockTypeOK
  <2>5. OneClaimant' /\ Exclusion'
    BY <1>7, WriterHalf DEF ReadUnlock
  <2> QED BY <2>3, <2>4, <2>5
<1>8. ASSUME NEW t \in Threads, SetFlag(t)
      PROVE  LockIInv'
  <2>1. LockTypeOK'
    BY <1>8 DEF SetFlag, Go, LockTypeOK
  <2>2. Announced' = Announced
    BY <1>8 DEF SetFlag, Go, LockTypeOK, Announced
  <2>3. ReadExact'
    BY <1>8, <2>2 DEF SetFlag, ReadExact
  <2>4. Claimants = {} /\ Writers = {}
    BY <1>8 DEF SetFlag, OneClaimant, Claimants, Writers
  <2>5. Claimants' = {t} /\ Writers' = {}
    BY <1>8, <2>4 DEF SetFlag, Go, LockTypeOK, Claimants, Writers
  <2>6. OneClaimant' /\ Exclusion'
    BY <1>8, <2>5 DEF SetFlag, OneClaimant, Exclusion
  <2> QED BY <2>1, <2>3, <2>6
<1>9. ASSUME NEW t \in Threads, Drained(t)
      PROVE  LockIInv'
  <2>1. LockTypeOK'
    BY <1>9 DEF Drained, Go, LockTypeOK
  <2>2. Announced' = Announced /\ Claimants' = Claimants
    BY <1>9 DEF Drained, Go, LockTypeOK, Announced, Claimants
  <2>3. ReadExact' /\ OneClaimant'
    BY <1>9, <2>2 DEF Drained, ReadExact, OneClaimant
  <2>4. Announced = {}
    BY <1>9, AnnouncedFacts DEF Drained, Go
  <2>5. Readers' = {}
    BY <2>2, <2>4 DEF Announced, Readers
  <2>6. Writers' = {t}
    BY <1>9, <2>2 DEF Drained, Go, LockTypeOK, OneClaimant, Claimants, Writers
  <2> QED BY <2>1, <2>3, <2>5, <2>6 DEF Exclusion
<1>10. ASSUME NEW t \in Threads, WriteUnlock(t)
       PROVE  LockIInv'
  <2>1. LockTypeOK'
    BY <1>10 DEF WriteUnlock, Go, LockTypeOK
  <2>2. Announced' = Announced
    BY <1>10 DEF WriteUnlock, Go, LockTypeOK, Announced
  <2>3. ReadExact'
    BY <1>10, <2>2 DEF WriteUnlock, ReadExact
  <2>4. Claimants' = {} /\ Writers' = {}
    BY <1>10 DEF WriteUnlock, Go, LockTypeOK, OneClaimant, Claimants, Writers
  <2>5. OneClaimant' /\ Exclusion'
    BY <1>10, <2>4 DEF WriteUnlock, OneClaimant, Exclusion
  <2> QED BY <2>1, <2>3, <2>5
<1>11. CASE UNCHANGED lockVars
  BY <1>11 DEF lockVars, LockTypeOK, ReadExact, OneClaimant, Exclusion, Announced,
               Claimants, Readers, Writers
<1> QED BY <1>1, <1>2, <1>3, <1>4, <1>5, <1>6, <1>7, <1>8, <1>9, <1>10, <1>11
        DEF LockNext, LockStep

\* The invariant holds in every reachable state.
LEMMA Invariance == LockSpec => []LockIInv
<1>1. LockInit => LockIInv
  BY InitIInv
<1>2. LockIInv /\ [LockNext]_lockVars => LockIInv'
  BY StepIInv
<1> QED BY <1>1, <1>2, PTL DEF LockSpec

\* A thread between rwlock_wlock and rwlock_wunlock is alone: no other writer
\* and no reader is inside (rwlock.h:16-55).
THEOREM WriterAlone == LockSpec => []Exclusion
<1>1. LockIInv => Exclusion
  BY DEF LockIInv
<1> QED BY <1>1, Invariance, PTL

\* lock->read counts the announced readers and lock->write marks the one thread
\* that has or awaits the lock, at every moment (rwlock.h:16-55).
THEOREM FieldsTrue == LockSpec => []FieldsExact
<1>1. LockIInv => FieldsExact
  BY DEF LockIInv
<1> QED BY <1>1, Invariance, PTL

-----------------------------------------------------------------------------
(* The harbor service (Harbor).                                             *)

Mail == [n : Nat, to : Names \cup HarborIds, dest : HarborIds \cup {0}]

-----------------------------------------------------------------------------
(* Sequences of messages.                                                  *)

LEMMA Cat ==
  ASSUME NEW a \in Seq(Mail), NEW b \in Seq(Mail)
  PROVE  /\ a \o b \in Seq(Mail)
         /\ Len(a) \in Nat /\ Len(b) \in Nat
         /\ DOMAIN a = 1..Len(a) /\ DOMAIN b = 1..Len(b)
         /\ DOMAIN (a \o b) = 1..(Len(a) + Len(b))
         /\ \A i \in DOMAIN a : (a \o b)[i] = a[i]
         /\ \A i \in DOMAIN b : (a \o b)[Len(a) + i] = b[i]
         /\ \A i \in DOMAIN (a \o b) \ DOMAIN a :
              i - Len(a) \in DOMAIN b /\ (a \o b)[i] = b[i - Len(a)]
OBVIOUS

LEMMA One ==
  ASSUME NEW a \in Seq(Mail), NEW m \in Mail
  PROVE  /\ <<m>> \in Seq(Mail) /\ DOMAIN <<m>> = {1} /\ <<m>>[1] = m
         /\ Append(a, m) = a \o <<m>>
OBVIOUS

LEMMA NumbersMember == \A a, n : n \in Numbers(a) <=> \E i \in DOMAIN a : a[i].n = n
BY DEF Numbers, Range

LEMMA NumbersOne ==
  ASSUME NEW m \in Mail
  PROVE  Numbers(<<>>) = {} /\ Numbers(<<m>>) = {m.n}
<1>1. Numbers(<<>>) = {}
  BY DEF Numbers, Range
<1>2. DOMAIN <<m>> = {1} /\ <<m>>[1] = m
  OBVIOUS
<1>3. Range(<<m>>) = {m}
  BY <1>2 DEF Range
<1> QED BY <1>1, <1>3 DEF Numbers

LEMMA NumbersCat ==
  ASSUME NEW a \in Seq(Mail), NEW b \in Seq(Mail)
  PROVE  Numbers(a \o b) = Numbers(a) \cup Numbers(b)
<1>1. ASSUME NEW n \in Numbers(a \o b)
      PROVE  n \in Numbers(a) \cup Numbers(b)
  <2>1. PICK i \in DOMAIN (a \o b) : (a \o b)[i].n = n
    BY NumbersMember
  <2>2. CASE i \in DOMAIN a
    BY <2>1, <2>2, Cat, NumbersMember
  <2>3. CASE i \notin DOMAIN a
    <3>1. i - Len(a) \in DOMAIN b /\ (a \o b)[i] = b[i - Len(a)]
      BY <2>3, Cat
    <3> QED BY <2>1, <3>1, NumbersMember
  <2> QED BY <2>2, <2>3
<1>2. ASSUME NEW n \in Numbers(a)
      PROVE  n \in Numbers(a \o b)
  <2>1. PICK i \in DOMAIN a : a[i].n = n
    BY NumbersMember
  <2>2. i \in DOMAIN (a \o b) /\ (a \o b)[i] = a[i]
    BY Cat
  <2> QED BY <2>1, <2>2, NumbersMember
<1>3. ASSUME NEW n \in Numbers(b)
      PROVE  n \in Numbers(a \o b)
  <2>1. PICK i \in DOMAIN b : b[i].n = n
    BY NumbersMember
  <2>2. Len(a) + i \in DOMAIN (a \o b) /\ (a \o b)[Len(a) + i] = b[i]
    BY Cat
  <2> QED BY <2>1, <2>2, NumbersMember
<1> QED BY <1>1, <1>2, <1>3

\* A copy of a with other destinations.
Copy(a, b) ==
  /\ DOMAIN b = DOMAIN a
  /\ \A i \in DOMAIN a : b[i].n = a[i].n /\ b[i].to = a[i].to

LEMMA Relabel ==
  ASSUME NEW a \in Seq(Mail), NEW r \in HarborIds
  PROVE  LET b == [i \in DOMAIN a |-> [a[i] EXCEPT !.dest = r]]
         IN  b \in Seq(Mail) /\ Copy(a, b) /\ Numbers(b) = Numbers(a)
<1> DEFINE b == [i \in DOMAIN a |-> [a[i] EXCEPT !.dest = r]]
<1>1. Len(a) \in Nat /\ DOMAIN a = 1..Len(a)
  OBVIOUS
<1>2. \A i \in DOMAIN a : a[i] \in Mail
  OBVIOUS
<1>3. \A i \in DOMAIN a : b[i] \in Mail /\ b[i].n = a[i].n /\ b[i].to = a[i].to
  BY <1>2 DEF Mail
<1>4. b \in Seq(Mail)
  BY <1>1, <1>3
<1>5. Copy(a, b)
  BY <1>3 DEF Copy
<1>6. DOMAIN b = DOMAIN a /\ \A i \in DOMAIN a : b[i].n = a[i].n
  BY <1>3
<1>7. Numbers(b) = Numbers(a)
  <2> HIDE DEF b
  <2>1. \A n : n \in Numbers(b) <=> \E i \in DOMAIN b : b[i].n = n
    BY NumbersMember
  <2>2. \A n : n \in Numbers(a) <=> \E i \in DOMAIN a : a[i].n = n
    BY NumbersMember
  <2> QED BY <1>6, <2>1, <2>2
<1> QED BY <1>4, <1>5, <1>7

LEMMA SameIsCopy == \A a : Copy(a, a)
BY DEF Copy

-----------------------------------------------------------------------------
(* Stores: one message is added, one store is moved to the end of another, *)
(* one store is thrown away.                                               *)

AllNumbers(F) == UNION {Numbers(F[p]) : p \in DOMAIN F}

LEMMA AllMember ==
  \A F, n : n \in AllNumbers(F) <=> \E p \in DOMAIN F : n \in Numbers(F[p])
BY DEF AllNumbers

LEMMA AllNumbersMember ==
  ASSUME NEW D, NEW F \in [D -> Seq(Mail)], NEW p \in D, NEW i \in DOMAIN F[p]
  PROVE  F[p][i].n \in AllNumbers(F)
<1>1. F[p][i] \in Range(F[p])
  BY DEF Range
<1>2. F[p][i].n \in Numbers(F[p])
  BY <1>1 DEF Numbers
<1> QED BY <1>2 DEF AllNumbers

PutAt(F, G, p, a)    == G = [F EXCEPT ![p] = a]
Added(F, G, p, m)    == G = [F EXCEPT ![p] = F[p] \o <<m>>]
Moved(F, G, p, q, b) == G = [F EXCEPT ![q] = F[q] \o b, ![p] = <<>>]
Dropped(F, G, p)     == G = [F EXCEPT ![p] = <<>>]

LEMMA AddOne ==
  ASSUME NEW D, NEW F \in [D -> Seq(Mail)], NEW p \in D, NEW m \in Mail,
         NEW G, Added(F, G, p, m),
         Distinct(F), m.n \notin AllNumbers(F)
  PROVE  Distinct(G) /\ AllNumbers(G) = AllNumbers(F) \cup {m.n}
<1>1. DOMAIN G = D /\ G[p] = F[p] \o <<m>> /\ \A q \in D \ {p} : G[q] = F[q]
  BY DEF Added
<1>2. \A q \in D : Numbers(G[q]) = Numbers(F[q]) \cup (IF q = p THEN {m.n} ELSE {})
  <2>1. <<m>> \in Seq(Mail) /\ F[p] \in Seq(Mail)
    BY One
  <2>2. Numbers(F[p] \o <<m>>) = Numbers(F[p]) \cup Numbers(<<m>>)
    BY <2>1, NumbersCat
  <2>3. Numbers(G[p]) = Numbers(F[p]) \cup {m.n}
    BY <1>1, <2>2, NumbersOne
  <2> QED BY <1>1, <2>3
<1>3. AllNumbers(G) = AllNumbers(F) \cup {m.n}
  <2>1. \A k : k \in AllNumbers(G) <=> \E q \in D : k \in Numbers(G[q])
    BY <1>1, AllMember
  <2>2. \A k : k \in AllNumbers(F) <=> \E q \in D : k \in Numbers(F[q])
    BY AllMember
  <2> QED BY <1>2, <2>1, <2>2
<1>4. ASSUME NEW q \in D, NEW i \in DOMAIN G[q]
      PROVE  \/ i \in DOMAIN F[q] /\ G[q][i] = F[q][i]
             \/ q = p /\ i = Len(F[p]) + 1 /\ G[q][i] = m /\ i \notin DOMAIN F[q]
  <2>1. CASE q # p
    BY <1>1, <2>1
  <2>2. CASE q = p
    <3>1. F[p] \in Seq(Mail) /\ <<m>> \in Seq(Mail)
      BY One
    <3>2. CASE i \in DOMAIN F[p]
      BY <1>1, <2>2, <3>1, <3>2, Cat
    <3>3. CASE i \notin DOMAIN F[p]
      <4>1. i - Len(F[p]) \in {1} /\ G[p][i] = <<m>>[i - Len(F[p])]
        BY <1>1, <2>2, <3>1, <3>3, Cat, One
      <4>2. i \in 1..(Len(F[p]) + Len(<<m>>)) /\ Len(F[p]) \in Nat
        BY <1>1, <2>2, <3>1, Cat
      <4>3. i = Len(F[p]) + 1
        BY <4>1, <4>2
      <4> QED BY <2>2, <3>3, <4>1, <4>3, One
    <3> QED BY <3>2, <3>3
  <2> QED BY <2>1, <2>2
<1>5. ASSUME NEW q \in D, NEW i \in DOMAIN F[q]
      PROVE  F[q][i].n # m.n
  BY AllNumbersMember
<1>6. Distinct(G)
  <2> SUFFICES ASSUME NEW q1 \in D, NEW q2 \in D, NEW i \in DOMAIN G[q1],
                      NEW j \in DOMAIN G[q2], G[q1][i].n = G[q2][j].n
               PROVE  q1 = q2 /\ i = j
    BY <1>1 DEF Distinct
  <2>1. CASE i \in DOMAIN F[q1] /\ G[q1][i] = F[q1][i] /\ j \in DOMAIN F[q2] /\ G[q2][j] = F[q2][j]
    BY <2>1 DEF Distinct
  <2>2. CASE q1 = p /\ i = Len(F[p]) + 1 /\ G[q1][i] = m
    BY <1>4, <1>5, <2>2
  <2>3. CASE q2 = p /\ j = Len(F[p]) + 1 /\ G[q2][j] = m
    BY <1>4, <1>5, <2>3
  <2> QED BY <1>4, <2>1, <2>2, <2>3
<1> QED BY <1>3, <1>6

LEMMA MoveAll ==
  ASSUME NEW D, NEW F \in [D -> Seq(Mail)], NEW p \in D, NEW q \in D, p # q,
         NEW b \in Seq(Mail), Copy(F[p], b), Numbers(b) = Numbers(F[p]),
         NEW G, Moved(F, G, p, q, b),
         Distinct(F)
  PROVE  Distinct(G) /\ AllNumbers(G) = AllNumbers(F)
<1>1. /\ DOMAIN G = D /\ G[p] = <<>> /\ G[q] = F[q] \o b
      /\ \A u \in D \ {p, q} : G[u] = F[u]
  BY DEF Moved
<1>2. Numbers(G[p]) = {} /\ Numbers(G[q]) = Numbers(F[q]) \cup Numbers(F[p])
  <2>3. Numbers(<<>>) = {}
    BY DEF Numbers, Range
  <2>4. Numbers(F[q] \o b) = Numbers(F[q]) \cup Numbers(b)
    BY NumbersCat
  <2> QED BY <1>1, <2>3, <2>4
<1>3. AllNumbers(G) = AllNumbers(F)
  <2>1. AllNumbers(G) \subseteq AllNumbers(F)
    BY <1>1, <1>2, AllMember
  <2>2. AllNumbers(F) \subseteq AllNumbers(G)
    BY <1>1, <1>2, AllMember
  <2> QED BY <2>1, <2>2
\* Where a message of G was in F.
<1> DEFINE from(u, i) == IF u = q /\ i \notin DOMAIN F[q] THEN p ELSE u
           at(u, i)   == IF u = q /\ i \notin DOMAIN F[q] THEN i - Len(F[q]) ELSE i
<1>4. ASSUME NEW u \in D, NEW i \in DOMAIN G[u]
      PROVE  /\ from(u, i) \in D /\ at(u, i) \in DOMAIN F[from(u, i)]
             /\ G[u][i].n = F[from(u, i)][at(u, i)].n
             /\ u # p
             /\ u = q => i \in Int
  <2>1. u # p
    BY <1>1
  <2>2. CASE u # q
    BY <1>1, <2>1, <2>2
  <2>3. CASE u = q /\ i \in DOMAIN F[q]
    <3>1. F[q] \in Seq(Mail)
      OBVIOUS
    <3>2. (F[q] \o b)[i] = F[q][i]
      BY <2>3, <3>1, Cat
    <3>3. i \in Int
      BY <2>3, <3>1
    <3> QED BY <1>1, <2>1, <2>3, <3>2, <3>3
  <2>4. CASE u = q /\ i \notin DOMAIN F[q]
    <3>1. i - Len(F[q]) \in DOMAIN b /\ G[u][i] = b[i - Len(F[q])]
      BY <1>1, <2>4, Cat
    <3>2. i \in Int
      BY <1>1, <2>4, Cat
    <3> QED BY <2>1, <2>4, <3>1, <3>2 DEF Copy
  <2> QED BY <2>2, <2>3, <2>4
<1>5. ASSUME NEW u \in D, NEW i \in DOMAIN G[u], NEW v \in D, NEW j \in DOMAIN G[v],
             from(u, i) = from(v, j), at(u, i) = at(v, j)
      PROVE  u = v /\ i = j
  <2>1. Len(F[q]) \in Nat
    OBVIOUS
  <2> QED BY <1>4, <1>5, <2>1
<1>6. Distinct(G)
  <2> SUFFICES ASSUME NEW u \in D, NEW v \in D, NEW i \in DOMAIN G[u],
                      NEW j \in DOMAIN G[v], G[u][i].n = G[v][j].n
               PROVE  u = v /\ i = j
    BY <1>1 DEF Distinct
  <2>1. F[from(u, i)][at(u, i)].n = F[from(v, j)][at(v, j)].n
    BY <1>4
  <2>2. from(u, i) = from(v, j) /\ at(u, i) = at(v, j)
    <3>1. /\ from(u, i) \in D /\ at(u, i) \in DOMAIN F[from(u, i)]
          /\ from(v, j) \in D /\ at(v, j) \in DOMAIN F[from(v, j)]
      BY <1>4
    <3>2. \A p1, p2 \in D : \A k \in DOMAIN F[p1], l \in DOMAIN F[p2] :
            F[p1][k].n = F[p2][l].n => p1 = p2 /\ k = l
      BY DEF Distinct
    <3> HIDE DEF from, at
    <3> QED BY <2>1, <3>1, <3>2
  <2> QED BY <1>5, <2>2
<1> QED BY <1>3, <1>6

LEMMA DropAll ==
  ASSUME NEW D, NEW F \in [D -> Seq(Mail)], NEW p \in D,
         NEW G, Dropped(F, G, p), Distinct(F)
  PROVE  Distinct(G) /\ AllNumbers(G) = AllNumbers(F) \ Numbers(F[p])
<1>1. DOMAIN G = D /\ G[p] = <<>> /\ \A u \in D \ {p} : G[u] = F[u]
  BY DEF Dropped
<1>2. Distinct(G)
  BY <1>1 DEF Distinct
<1>3. \A u \in D \ {p} : Numbers(F[u]) \cap Numbers(F[p]) = {}
  BY NumbersMember DEF Distinct
<1>4. Numbers(G[p]) = {}
  BY <1>1 DEF Numbers, Range
<1>5. AllNumbers(G) = AllNumbers(F) \ Numbers(F[p])
  <2>1. AllNumbers(G) \subseteq AllNumbers(F) \ Numbers(F[p])
    BY <1>1, <1>3, <1>4, AllMember
  <2>2. AllNumbers(F) \ Numbers(F[p]) \subseteq AllNumbers(G)
    BY <1>1, AllMember
  <2> QED BY <2>1, <2>2
<1> QED BY <1>2, <1>5

-----------------------------------------------------------------------------
(* Order.                                                                  *)

Before(a, b) == \A i \in DOMAIN a, j \in DOMAIN b : a[i].to = b[j].to => a[i].n < b[j].n

LEMMA InOrderCat ==
  ASSUME NEW a \in Seq(Mail), NEW b \in Seq(Mail)
  PROVE  InOrder(a \o b) <=> InOrder(a) /\ InOrder(b) /\ Before(a, b)
<1>1. ASSUME InOrder(a \o b)
      PROVE  InOrder(a) /\ InOrder(b) /\ Before(a, b)
  <2>1. InOrder(a)
    <3> SUFFICES ASSUME NEW i \in DOMAIN a, NEW j \in DOMAIN a, i < j, a[i].to = a[j].to
                 PROVE  a[i].n < a[j].n
      BY DEF InOrder
    <3>1. /\ i \in DOMAIN (a \o b) /\ j \in DOMAIN (a \o b)
          /\ (a \o b)[i] = a[i] /\ (a \o b)[j] = a[j]
      BY Cat
    <3> QED BY <1>1, <3>1 DEF InOrder
  <2>2. InOrder(b)
    <3> SUFFICES ASSUME NEW i \in DOMAIN b, NEW j \in DOMAIN b, i < j, b[i].to = b[j].to
                 PROVE  b[i].n < b[j].n
      BY DEF InOrder
    <3>1. /\ Len(a) + i \in DOMAIN (a \o b) /\ Len(a) + j \in DOMAIN (a \o b)
          /\ (a \o b)[Len(a) + i] = b[i] /\ (a \o b)[Len(a) + j] = b[j]
      BY Cat
    <3>2. Len(a) + i < Len(a) + j
      BY Cat
    <3> QED BY <1>1, <3>1, <3>2 DEF InOrder
  <2>3. Before(a, b)
    <3> SUFFICES ASSUME NEW i \in DOMAIN a, NEW j \in DOMAIN b, a[i].to = b[j].to
                 PROVE  a[i].n < b[j].n
      BY DEF Before
    <3>1. /\ i \in DOMAIN (a \o b) /\ Len(a) + j \in DOMAIN (a \o b)
          /\ (a \o b)[i] = a[i] /\ (a \o b)[Len(a) + j] = b[j]
      BY Cat
    <3>2. i < Len(a) + j
      BY Cat
    <3> QED BY <1>1, <3>1, <3>2 DEF InOrder
  <2> QED BY <2>1, <2>2, <2>3
<1>2. ASSUME InOrder(a), InOrder(b), Before(a, b)
      PROVE  InOrder(a \o b)
  <2> SUFFICES ASSUME NEW i \in DOMAIN (a \o b), NEW j \in DOMAIN (a \o b), i < j,
                      (a \o b)[i].to = (a \o b)[j].to
               PROVE  (a \o b)[i].n < (a \o b)[j].n
    BY DEF InOrder
  <2>1. CASE i \in DOMAIN a /\ j \in DOMAIN a
    BY <1>2, <2>1, Cat DEF InOrder
  <2>2. CASE i \in DOMAIN a /\ j \notin DOMAIN a
    <3>1. j - Len(a) \in DOMAIN b /\ (a \o b)[j] = b[j - Len(a)] /\ (a \o b)[i] = a[i]
      BY <2>2, Cat
    <3> QED BY <1>2, <2>2, <3>1 DEF Before
  <2>3. CASE i \notin DOMAIN a
    <3>1. j \notin DOMAIN a
      BY <2>3, Cat
    <3>2. /\ i - Len(a) \in DOMAIN b /\ (a \o b)[i] = b[i - Len(a)]
          /\ j - Len(a) \in DOMAIN b /\ (a \o b)[j] = b[j - Len(a)]
      BY <2>3, <3>1, Cat
    <3>3. i - Len(a) < j - Len(a)
      BY Cat
    <3> QED BY <1>2, <3>2, <3>3 DEF InOrder
  <2> QED BY <2>1, <2>2, <2>3
<1> QED BY <1>1, <1>2

LEMMA BeforeCat ==
  ASSUME NEW a \in Seq(Mail), NEW b \in Seq(Mail), NEW c \in Seq(Mail)
  PROVE  /\ Before(a, c) /\ Before(b, c) => Before(a \o b, c)
         /\ Before(c, a) /\ Before(c, b) => Before(c, a \o b)
<1>1. \A i \in DOMAIN (a \o b) :
        \/ \E k \in DOMAIN a : (a \o b)[i] = a[k]
        \/ \E k \in DOMAIN b : (a \o b)[i] = b[k]
  BY Cat
<1> QED BY <1>1 DEF Before

LEMMA EmptyOrder ==
  ASSUME NEW a
  PROVE  Before(a, <<>>) /\ Before(<<>>, a) /\ InOrder(<<>>)
BY DEF Before, InOrder

LEMMA OneOrder ==
  ASSUME NEW m \in Mail
  PROVE  InOrder(<<m>>)
<1>1. DOMAIN <<m>> = {1}
  OBVIOUS
<1> QED BY <1>1 DEF InOrder

AllTo(a, x)  == \A i \in DOMAIN a : a[i].to = x
NoneTo(a, x) == \A i \in DOMAIN a : a[i].to # x

LEMMA CatTo ==
  ASSUME NEW a \in Seq(Mail), NEW b \in Seq(Mail), NEW x
  PROVE  /\ AllTo(a, x) /\ AllTo(b, x) => AllTo(a \o b, x)
         /\ NoneTo(a, x) /\ NoneTo(b, x) => NoneTo(a \o b, x)
<1>1. \A i \in DOMAIN (a \o b) :
        \/ \E k \in DOMAIN a : (a \o b)[i] = a[k]
        \/ \E k \in DOMAIN b : (a \o b)[i] = b[k]
  BY Cat
<1> QED BY <1>1 DEF AllTo, NoneTo

LEMMA OneTo ==
  ASSUME NEW m \in Mail, NEW x
  PROVE  /\ m.to = x => AllTo(<<m>>, x)
         /\ m.to # x => NoneTo(<<m>>, x)
         /\ AllTo(<<>>, x) /\ NoneTo(<<>>, x)
<1>1. DOMAIN <<m>> = {1} /\ <<m>>[1] = m
  OBVIOUS
<1> QED BY <1>1 DEF AllTo, NoneTo

LEMMA CopyKeeps ==
  ASSUME NEW a \in Seq(Mail), NEW b \in Seq(Mail), Copy(a, b), NEW x
  PROVE  /\ InOrder(a) => InOrder(b)
         /\ AllTo(a, x) => AllTo(b, x)
BY DEF Copy, InOrder, AllTo

\* Letters to different addresses may stand in any order.
LEMMA Apart ==
  ASSUME NEW a, NEW b, NEW x, AllTo(a, x), NoneTo(b, x)
  PROVE  Before(a, b) /\ Before(b, a)
BY DEF AllTo, NoneTo, Before

LEMMA ApartNames ==
  ASSUME NEW a, NEW x, NEW y, AllTo(a, x), x # y
  PROVE  NoneTo(a, y)
BY DEF AllTo, NoneTo

-----------------------------------------------------------------------------
(* The messages under way: nq those that wait for a name, q for a harbor,  *)
(* w those on a wire; v is what the names are known to be, k the messages  *)
(* sent, E those no longer under way.                                      *)

Keep(nq, q, w) ==
  [p \in Holders |-> IF p[2] = "name" THEN nq[p[1]]
                    ELSE IF p[2] = "queue" THEN q[p[1]]
                    ELSE w[p[1]]]

Under(nq, q, w, k, E) ==
  /\ nq \in [Names -> Seq(Mail)] /\ q \in [HarborIds -> Seq(Mail)] /\ w \in [HarborIds -> Seq(Mail)]
  /\ k \in Nat /\ E \subseteq 1..k
  /\ Distinct(Keep(nq, q, w)) /\ AllNumbers(Keep(nq, q, w)) = (1..k) \ E

Lines(q, w) ==
  \A r \in HarborIds : InOrder(w[r]) /\ InOrder(q[r]) /\ Before(w[r], q[r])

Named(nq, q, w, v) ==
  /\ v \in [Names -> HarborIds \cup {0}]
  /\ \A x \in Names :
       /\ InOrder(nq[x]) /\ AllTo(nq[x], x)
       /\ nq[x] # <<>> => v[x] = 0
       /\ v[x] = 0 => \A r \in HarborIds : NoneTo(q[r], x) /\ NoneTo(w[r], x)

Good(nq, q, w, v, k, E) == Under(nq, q, w, k, E) /\ Lines(q, w) /\ Named(nq, q, w, v)

LEMMA HolderKinds ==
  /\ \A x \in Names : <<x, "name">> \in Holders
  /\ \A r \in HarborIds : <<r, "queue">> \in Holders /\ <<r, "wire">> \in Holders
  /\ \A p \in Holders :
       \/ p[2] = "name" /\ p[1] \in Names /\ p = <<p[1], "name">>
       \/ p[2] = "queue" /\ p[1] \in HarborIds /\ p = <<p[1], "queue">>
       \/ p[2] = "wire" /\ p[1] \in HarborIds /\ p = <<p[1], "wire">>
BY DEF Holders

LEMMA KeepType ==
  ASSUME NEW nq \in [Names -> Seq(Mail)], NEW q \in [HarborIds -> Seq(Mail)],
         NEW w \in [HarborIds -> Seq(Mail)]
  PROVE  /\ Keep(nq, q, w) \in [Holders -> Seq(Mail)]
         /\ \A x \in Names : Keep(nq, q, w)[<<x, "name">>] = nq[x]
         /\ \A r \in HarborIds : /\ Keep(nq, q, w)[<<r, "queue">>] = q[r]
                                 /\ Keep(nq, q, w)[<<r, "wire">>] = w[r]
<1>1. \A p \in Holders : (IF p[2] = "name" THEN nq[p[1]]
                          ELSE IF p[2] = "queue" THEN q[p[1]]
                          ELSE w[p[1]]) \in Seq(Mail)
  BY HolderKinds
<1>2. Keep(nq, q, w) \in [Holders -> Seq(Mail)]
  BY <1>1 DEF Keep
<1>3. ASSUME NEW x \in Names
      PROVE  Keep(nq, q, w)[<<x, "name">>] = nq[x]
  BY HolderKinds DEF Keep
<1>4. ASSUME NEW r \in HarborIds
      PROVE  Keep(nq, q, w)[<<r, "queue">>] = q[r] /\ Keep(nq, q, w)[<<r, "wire">>] = w[r]
  BY HolderKinds DEF Keep
<1> QED BY <1>2, <1>3, <1>4

LEMMA KeepName ==
  ASSUME NEW nq, NEW q, NEW w, DOMAIN nq = Names, NEW x \in Names, NEW a,
         NEW nq2, PutAt(nq, nq2, x, a)
  PROVE  PutAt(Keep(nq, q, w), Keep(nq2, q, w), <<x, "name">>, a)
<1> DEFINE K == Keep(nq, q, w)
           H == Keep(nq2, q, w)
<1>0. nq2 = [nq EXCEPT ![x] = a]
  BY DEF PutAt
<1>1. K = [p \in Holders |-> K[p]] /\ H = [p \in Holders |-> H[p]]
  BY DEF Keep
<1>2. ASSUME NEW p \in Holders
      PROVE  H[p] = (IF p = <<x, "name">> THEN a ELSE K[p])
  <2>1. CASE p[2] = "name"
    BY <1>0, <2>1, HolderKinds DEF Keep
  <2>2. CASE p[2] = "queue"
    BY <1>0, <2>2, HolderKinds DEF Keep
  <2>3. CASE p[2] = "wire"
    BY <1>0, <2>3, HolderKinds DEF Keep
  <2> QED BY <2>1, <2>2, <2>3, HolderKinds
<1> HIDE DEF K, H
<1>3. H = [p \in Holders |-> IF p = <<x, "name">> THEN a ELSE K[p]]
  BY <1>1, <1>2
<1>4. DOMAIN K = Holders
  BY <1>1
<1>5. [K EXCEPT ![<<x, "name">>] = a] = [p \in Holders |-> IF p = <<x, "name">> THEN a ELSE K[p]]
  BY <1>4
<1> QED BY <1>3, <1>5 DEF K, H, PutAt

LEMMA KeepQueue ==
  ASSUME NEW nq, NEW q, NEW w, DOMAIN q = HarborIds, NEW r \in HarborIds, NEW a,
         NEW q2, PutAt(q, q2, r, a)
  PROVE  PutAt(Keep(nq, q, w), Keep(nq, q2, w), <<r, "queue">>, a)
<1> DEFINE K == Keep(nq, q, w)
           H == Keep(nq, q2, w)
<1>0. q2 = [q EXCEPT ![r] = a]
  BY DEF PutAt
<1>1. K = [p \in Holders |-> K[p]] /\ H = [p \in Holders |-> H[p]]
  BY DEF Keep
<1>2. ASSUME NEW p \in Holders
      PROVE  H[p] = (IF p = <<r, "queue">> THEN a ELSE K[p])
  <2>1. CASE p[2] = "name"
    BY <1>0, <2>1, HolderKinds DEF Keep
  <2>2. CASE p[2] = "queue"
    BY <1>0, <2>2, HolderKinds DEF Keep
  <2>3. CASE p[2] = "wire"
    BY <1>0, <2>3, HolderKinds DEF Keep
  <2> QED BY <2>1, <2>2, <2>3, HolderKinds
<1> HIDE DEF K, H
<1>3. H = [p \in Holders |-> IF p = <<r, "queue">> THEN a ELSE K[p]]
  BY <1>1, <1>2
<1>4. DOMAIN K = Holders
  BY <1>1
<1>5. [K EXCEPT ![<<r, "queue">>] = a] = [p \in Holders |-> IF p = <<r, "queue">> THEN a ELSE K[p]]
  BY <1>4
<1> QED BY <1>3, <1>5 DEF K, H, PutAt

LEMMA KeepWire ==
  ASSUME NEW nq, NEW q, NEW w, DOMAIN w = HarborIds, NEW r \in HarborIds, NEW a,
         NEW w2, PutAt(w, w2, r, a)
  PROVE  PutAt(Keep(nq, q, w), Keep(nq, q, w2), <<r, "wire">>, a)
<1> DEFINE K == Keep(nq, q, w)
           H == Keep(nq, q, w2)
<1>0. w2 = [w EXCEPT ![r] = a]
  BY DEF PutAt
<1>1. K = [p \in Holders |-> K[p]] /\ H = [p \in Holders |-> H[p]]
  BY DEF Keep
<1>2. ASSUME NEW p \in Holders
      PROVE  H[p] = (IF p = <<r, "wire">> THEN a ELSE K[p])
  <2>1. CASE p[2] = "name"
    BY <1>0, <2>1, HolderKinds DEF Keep
  <2>2. CASE p[2] = "queue"
    BY <1>0, <2>2, HolderKinds DEF Keep
  <2>3. CASE p[2] = "wire"
    BY <1>0, <2>3, HolderKinds DEF Keep
  <2> QED BY <2>1, <2>2, <2>3, HolderKinds
<1> HIDE DEF K, H
<1>3. H = [p \in Holders |-> IF p = <<r, "wire">> THEN a ELSE K[p]]
  BY <1>1, <1>2
<1>4. DOMAIN K = Holders
  BY <1>1
<1>5. [K EXCEPT ![<<r, "wire">>] = a] = [p \in Holders |-> IF p = <<r, "wire">> THEN a ELSE K[p]]
  BY <1>4
<1> QED BY <1>3, <1>5 DEF K, H, PutAt

\* Every message under way has been sent and is not among those of E.
LEMMA SentBefore ==
  ASSUME NEW nq, NEW q, NEW w, NEW k, NEW E, Under(nq, q, w, k, E)
  PROVE  /\ \A x \in Names : Numbers(nq[x]) \subseteq (1..k) \ E
         /\ \A r \in HarborIds : Numbers(q[r]) \cup Numbers(w[r]) \subseteq (1..k) \ E
<1> DEFINE F == Keep(nq, q, w)
<1>1. /\ F \in [Holders -> Seq(Mail)]
      /\ \A x \in Names : F[<<x, "name">>] = nq[x]
      /\ \A r \in HarborIds : F[<<r, "queue">>] = q[r] /\ F[<<r, "wire">>] = w[r]
  BY KeepType DEF Under
<1>2. AllNumbers(F) = (1..k) \ E
  BY DEF Under
<1>3. \A p \in Holders : Numbers(F[p]) \subseteq AllNumbers(F)
  <2> HIDE DEF F
  <2> QED BY <1>1, AllMember
<1> HIDE DEF F
<1> QED BY <1>1, <1>2, <1>3, HolderKinds

\* So a new one comes after all of them.
LEMMA NewIsLater ==
  ASSUME NEW a \in Seq(Mail), NEW k \in Nat, Numbers(a) \subseteq 1..k,
         NEW m \in Mail, m.n = k + 1
  PROVE  Before(a, <<m>>)
<1>1. \A i \in DOMAIN a : a[i].n \in 1..k
  BY NumbersMember
<1>2. DOMAIN <<m>> = {1} /\ <<m>>[1] = m
  OBVIOUS
<1> QED BY <1>1, <1>2 DEF Before

-----------------------------------------------------------------------------
(* What the steps do with them.                                            *)

LEMMA Adding ==
  ASSUME NEW nq, NEW q, NEW w, NEW k, NEW E, Under(nq, q, w, k, E),
         NEW p \in Holders, NEW m \in Mail, m.n = k + 1,
         NEW G, Added(Keep(nq, q, w), G, p, m)
  PROVE  Distinct(G) /\ AllNumbers(G) = (1..(k + 1)) \ E
<1>1. Keep(nq, q, w) \in [Holders -> Seq(Mail)]
  BY KeepType DEF Under
<1>2. k \in Nat /\ E \subseteq 1..k /\ Distinct(Keep(nq, q, w)) /\ AllNumbers(Keep(nq, q, w)) = (1..k) \ E
  BY DEF Under
<1>3. m.n \notin AllNumbers(Keep(nq, q, w))
  BY <1>2
<1>4. Distinct(G) /\ AllNumbers(G) = AllNumbers(Keep(nq, q, w)) \cup {m.n}
  BY <1>1, <1>2, <1>3, AddOne
<1> QED BY <1>2, <1>4

LEMMA Moving ==
  ASSUME NEW nq, NEW q, NEW w, NEW k, NEW E, Under(nq, q, w, k, E),
         NEW p \in Holders, NEW p2 \in Holders, p # p2,
         NEW b \in Seq(Mail), Copy(Keep(nq, q, w)[p], b), Numbers(b) = Numbers(Keep(nq, q, w)[p]),
         NEW G, Moved(Keep(nq, q, w), G, p, p2, b)
  PROVE  Distinct(G) /\ AllNumbers(G) = (1..k) \ E
<1>1. Keep(nq, q, w) \in [Holders -> Seq(Mail)]
  BY KeepType DEF Under
<1>2. Distinct(Keep(nq, q, w)) /\ AllNumbers(Keep(nq, q, w)) = (1..k) \ E
  BY DEF Under
<1>5. Distinct(G) /\ AllNumbers(G) = AllNumbers(Keep(nq, q, w))
  BY <1>1, <1>2, MoveAll
<1> QED BY <1>2, <1>5

LEMMA Dropping ==
  ASSUME NEW nq, NEW q, NEW w, NEW k, NEW E, Under(nq, q, w, k, E),
         NEW p \in Holders,
         NEW G, Dropped(Keep(nq, q, w), G, p)
  PROVE  Distinct(G) /\ AllNumbers(G) = (1..k) \ (E \cup Numbers(Keep(nq, q, w)[p]))
<1>1. Keep(nq, q, w) \in [Holders -> Seq(Mail)]
  BY KeepType DEF Under
<1>2. Distinct(Keep(nq, q, w)) /\ AllNumbers(Keep(nq, q, w)) = (1..k) \ E
  BY DEF Under
<1>3. Distinct(G) /\ AllNumbers(G) = AllNumbers(Keep(nq, q, w)) \ Numbers(Keep(nq, q, w)[p])
  BY <1>1, <1>2, DropAll
<1> QED BY <1>2, <1>3

\* A new message waits for a name.
LEMMA PutName ==
  ASSUME NEW nq, NEW q, NEW w, NEW v, NEW k, NEW E, Good(nq, q, w, v, k, E),
         NEW x \in Names, v[x] = 0, NEW m \in Mail, m.n = k + 1, m.to = x,
         NEW nq2, PutAt(nq, nq2, x, nq[x] \o <<m>>)
  PROVE  Good(nq2, q, w, v, k + 1, E)
<1>1. Under(nq, q, w, k, E) /\ Lines(q, w) /\ Named(nq, q, w, v)
  BY DEF Good
<1>2. /\ nq \in [Names -> Seq(Mail)] /\ q \in [HarborIds -> Seq(Mail)]
      /\ w \in [HarborIds -> Seq(Mail)] /\ k \in Nat /\ E \subseteq 1..k
  BY <1>1 DEF Under
<1>3. <<m>> \in Seq(Mail) /\ nq[x] \in Seq(Mail) /\ nq[x] \o <<m>> \in Seq(Mail)
  BY <1>2, One, Cat
<1>4. Under(nq2, q, w, k + 1, E)
  <2>0. nq2 \in [Names -> Seq(Mail)]
    BY <1>2, <1>3 DEF PutAt
  <2>1. Added(Keep(nq, q, w), Keep(nq2, q, w), <<x, "name">>, m)
    <3>1. PutAt(Keep(nq, q, w), Keep(nq2, q, w), <<x, "name">>, nq[x] \o <<m>>)
      BY <1>2, <2>0, KeepName
    <3>2. Keep(nq, q, w)[<<x, "name">>] = nq[x]
      BY <1>2, KeepType
    <3> QED BY <3>1, <3>2 DEF PutAt, Added
  <2>2. <<x, "name">> \in Holders
    BY HolderKinds
  <2>3. Distinct(Keep(nq2, q, w)) /\ AllNumbers(Keep(nq2, q, w)) = (1..(k + 1)) \ E
    BY <1>1, <2>1, <2>2, Adding
  <2>4. k + 1 \in Nat /\ E \subseteq 1..(k + 1)
    BY <1>2
  <2> QED BY <1>2, <2>0, <2>3, <2>4 DEF Under
<1>5. InOrder(nq[x] \o <<m>>) /\ AllTo(nq[x] \o <<m>>, x)
  <2>1. InOrder(nq[x]) /\ AllTo(nq[x], x)
    BY <1>1 DEF Named
  <2>2. Numbers(nq[x]) \subseteq 1..k
    BY <1>1, SentBefore
  <2>3. Before(nq[x], <<m>>) /\ InOrder(<<m>>) /\ AllTo(<<m>>, x)
    BY <1>2, <1>3, <2>2, NewIsLater, OneOrder, OneTo
  <2> QED BY <1>3, <2>1, <2>3, InOrderCat, CatTo
<1>6. Named(nq2, q, w, v)
  <2>1. nq2[x] = nq[x] \o <<m>> /\ \A y \in Names \ {x} : nq2[y] = nq[y]
    BY <1>2 DEF PutAt
  <2> QED BY <1>1, <1>5, <2>1 DEF Named
<1> QED BY <1>1, <1>4, <1>6 DEF Good

\* A new message is put at the end of a line to a harbor.
LEMMA PutQueue ==
  ASSUME NEW nq, NEW q, NEW w, NEW v, NEW k, NEW E, Good(nq, q, w, v, k, E),
         NEW r \in HarborIds, NEW m \in Mail, m.n = k + 1,
         \A x \in Names : m.to = x => v[x] # 0,
         NEW q2, PutAt(q, q2, r, q[r] \o <<m>>)
  PROVE  Good(nq, q2, w, v, k + 1, E)
<1>1. Under(nq, q, w, k, E) /\ Lines(q, w) /\ Named(nq, q, w, v)
  BY DEF Good
<1>2. /\ nq \in [Names -> Seq(Mail)] /\ q \in [HarborIds -> Seq(Mail)]
      /\ w \in [HarborIds -> Seq(Mail)] /\ k \in Nat /\ E \subseteq 1..k
  BY <1>1 DEF Under
<1>3. <<m>> \in Seq(Mail) /\ q[r] \in Seq(Mail) /\ w[r] \in Seq(Mail) /\ q[r] \o <<m>> \in Seq(Mail)
  BY <1>2, One, Cat
<1>4. Under(nq, q2, w, k + 1, E)
  <2>0. q2 \in [HarborIds -> Seq(Mail)]
    BY <1>2, <1>3 DEF PutAt
  <2>1. Added(Keep(nq, q, w), Keep(nq, q2, w), <<r, "queue">>, m)
    <3>1. PutAt(Keep(nq, q, w), Keep(nq, q2, w), <<r, "queue">>, q[r] \o <<m>>)
      BY <1>2, <2>0, KeepQueue
    <3>2. Keep(nq, q, w)[<<r, "queue">>] = q[r]
      BY <1>2, KeepType
    <3> QED BY <3>1, <3>2 DEF PutAt, Added
  <2>2. <<r, "queue">> \in Holders
    BY HolderKinds
  <2>3. Distinct(Keep(nq, q2, w)) /\ AllNumbers(Keep(nq, q2, w)) = (1..(k + 1)) \ E
    BY <1>1, <2>1, <2>2, Adding
  <2>4. k + 1 \in Nat /\ E \subseteq 1..(k + 1)
    BY <1>2
  <2> QED BY <1>2, <2>0, <2>3, <2>4 DEF Under
<1>5. q2[r] = q[r] \o <<m>> /\ \A r2 \in HarborIds \ {r} : q2[r2] = q[r2]
  BY <1>2 DEF PutAt
<1>6. Lines(q2, w)
  <2>1. InOrder(w[r]) /\ InOrder(q[r]) /\ Before(w[r], q[r])
    BY <1>1 DEF Lines
  <2>2. Numbers(q[r]) \subseteq 1..k /\ Numbers(w[r]) \subseteq 1..k
    BY <1>1, SentBefore
  <2>3. Before(q[r], <<m>>) /\ Before(w[r], <<m>>) /\ InOrder(<<m>>)
    BY <1>2, <1>3, <2>2, NewIsLater, OneOrder
  <2>4. InOrder(q[r] \o <<m>>) /\ Before(w[r], q[r] \o <<m>>)
    BY <1>3, <2>1, <2>3, InOrderCat, BeforeCat
  <2> QED BY <1>1, <1>5, <2>4 DEF Lines
<1>7. Named(nq, q2, w, v)
  <2>1. ASSUME NEW x \in Names, v[x] = 0
        PROVE  NoneTo(q[r] \o <<m>>, x)
    <3>1. NoneTo(q[r], x)
      BY <1>1, <2>1 DEF Named
    <3>2. NoneTo(<<m>>, x)
      BY <2>1, OneTo
    <3> QED BY <1>3, <3>1, <3>2, CatTo
  <2> QED BY <1>1, <1>5, <2>1 DEF Named
<1> QED BY <1>4, <1>6, <1>7 DEF Good

LEMMA PutWire ==
  ASSUME NEW nq, NEW q, NEW w, NEW v, NEW k, NEW E, Good(nq, q, w, v, k, E),
         NEW r \in HarborIds, q[r] = <<>>, NEW m \in Mail, m.n = k + 1,
         \A x \in Names : m.to = x => v[x] # 0,
         NEW w2, PutAt(w, w2, r, w[r] \o <<m>>)
  PROVE  Good(nq, q, w2, v, k + 1, E)
<1>1. Under(nq, q, w, k, E) /\ Lines(q, w) /\ Named(nq, q, w, v)
  BY DEF Good
<1>2. /\ nq \in [Names -> Seq(Mail)] /\ q \in [HarborIds -> Seq(Mail)]
      /\ w \in [HarborIds -> Seq(Mail)] /\ k \in Nat /\ E \subseteq 1..k
  BY <1>1 DEF Under
<1>3. <<m>> \in Seq(Mail) /\ w[r] \in Seq(Mail) /\ w[r] \o <<m>> \in Seq(Mail)
  BY <1>2, One, Cat
<1>4. Under(nq, q, w2, k + 1, E)
  <2>0. w2 \in [HarborIds -> Seq(Mail)]
    BY <1>2, <1>3 DEF PutAt
  <2>1. Added(Keep(nq, q, w), Keep(nq, q, w2), <<r, "wire">>, m)
    <3>1. PutAt(Keep(nq, q, w), Keep(nq, q, w2), <<r, "wire">>, w[r] \o <<m>>)
      BY <1>2, <2>0, KeepWire
    <3>2. Keep(nq, q, w)[<<r, "wire">>] = w[r]
      BY <1>2, KeepType
    <3> QED BY <3>1, <3>2 DEF PutAt, Added
  <2>2. <<r, "wire">> \in Holders
    BY HolderKinds
  <2>3. Distinct(Keep(nq, q, w2)) /\ AllNumbers(Keep(nq, q, w2)) = (1..(k + 1)) \ E
    BY <1>1, <2>1, <2>2, Adding
  <2>4. k + 1 \in Nat /\ E \subseteq 1..(k + 1)
    BY <1>2
  <2> QED BY <1>2, <2>0, <2>3, <2>4 DEF Under
<1>5. w2[r] = w[r] \o <<m>> /\ \A r2 \in HarborIds \ {r} : w2[r2] = w[r2]
  BY <1>2 DEF PutAt
<1>6. Lines(q, w2)
  <2>1. InOrder(w[r])
    BY <1>1 DEF Lines
  <2>2. Numbers(w[r]) \subseteq 1..k
    BY <1>1, SentBefore
  <2>3. Before(w[r], <<m>>) /\ InOrder(<<m>>)
    BY <1>2, <1>3, <2>2, NewIsLater, OneOrder
  <2>4. InOrder(w[r] \o <<m>>) /\ Before(w[r] \o <<m>>, q[r]) /\ InOrder(q[r])
    BY <1>3, <2>1, <2>3, InOrderCat, EmptyOrder
  <2> QED BY <1>1, <1>5, <2>4 DEF Lines
<1>7. Named(nq, q, w2, v)
  <2>1. ASSUME NEW x \in Names, v[x] = 0
        PROVE  NoneTo(w[r] \o <<m>>, x)
    <3>1. NoneTo(w[r], x)
      BY <1>1, <2>1 DEF Named
    <3>2. NoneTo(<<m>>, x)
      BY <2>1, OneTo
    <3> QED BY <1>3, <3>1, <3>2, CatTo
  <2> QED BY <1>1, <1>5, <2>1 DEF Named
<1> QED BY <1>4, <1>6, <1>7 DEF Good

\* A new message is not put anywhere.
LEMMA Spend ==
  ASSUME NEW nq, NEW q, NEW w, NEW v, NEW k, NEW E, Good(nq, q, w, v, k, E)
  PROVE  Good(nq, q, w, v, k + 1, E \cup {k + 1})
<1>1. Under(nq, q, w, k, E)
  BY DEF Good
<1>2. Under(nq, q, w, k + 1, E \cup {k + 1})
  <2>1. k \in Nat /\ E \subseteq 1..k
    BY <1>1 DEF Under
  <2>2. (1..(k + 1)) \ (E \cup {k + 1}) = (1..k) \ E
    BY <2>1
  <2> QED BY <1>1, <2>1, <2>2 DEF Under
<1> QED BY <1>2 DEF Good

\* No message to another name that is not known yet is on its way.
OthersWait(x, v, q, w) ==
  \A y \in Names : y # x /\ v[y] = 0 => \A r \in HarborIds : NoneTo(q[r], y) /\ NoneTo(w[r], y)

LEMMA NamedAs ==
  ASSUME NEW nq, NEW q, NEW w, NEW v, Named(nq, q, w, v), NEW x \in Names, NEW r \in HarborIds,
         NEW nq2, PutAt(nq, nq2, x, <<>>), NEW v2, PutAt(v, v2, x, r), nq \in [Names -> Seq(Mail)],
         NEW q2, NEW w2, OthersWait(x, v, q2, w2)
  PROVE  Named(nq2, q2, w2, v2)
<1>1. nq2[x] = <<>> /\ \A y \in Names \ {x} : nq2[y] = nq[y]
  BY DEF PutAt
<1>2. /\ v2 \in [Names -> HarborIds \cup {0}]
      /\ v2[x] = r /\ \A y \in Names \ {x} : v2[y] = v[y]
  BY DEF PutAt, Named
<1>3. r # 0
  BY HarborAssumption
<1>4. InOrder(<<>>) /\ AllTo(<<>>, x)
  BY DEF InOrder, AllTo
<1> QED BY <1>1, <1>2, <1>3, <1>4 DEF Named, OthersWait

\* The messages of a name that is now r go to its wire, or to its queue, or nowhere.
LEMMA NameToWire ==
  ASSUME NEW nq, NEW q, NEW w, NEW v, NEW k, NEW E, Good(nq, q, w, v, k, E),
         NEW x \in Names, NEW r \in HarborIds,
         NEW b \in Seq(Mail), Copy(nq[x], b), Numbers(b) = Numbers(nq[x]),
         NEW nq2, PutAt(nq, nq2, x, <<>>), NEW w2, PutAt(w, w2, r, w[r] \o b),
         NEW v2, PutAt(v, v2, x, r)
  PROVE  Good(nq2, q, w2, v2, k, E)
<1>1. Under(nq, q, w, k, E) /\ Lines(q, w) /\ Named(nq, q, w, v)
  BY DEF Good
<1>2. /\ nq \in [Names -> Seq(Mail)] /\ q \in [HarborIds -> Seq(Mail)]
      /\ w \in [HarborIds -> Seq(Mail)] /\ k \in Nat /\ E \subseteq 1..k
  BY <1>1 DEF Under
<1>3. /\ nq[x] \in Seq(Mail) /\ q[r] \in Seq(Mail) /\ w[r] \in Seq(Mail) /\ w[r] \o b \in Seq(Mail)
  BY <1>2, Cat
<1>4. /\ w2 \in [HarborIds -> Seq(Mail)]
      /\ w2[r] = w[r] \o b /\ \A r2 \in HarborIds \ {r} : w2[r2] = w[r2]
  BY <1>2, <1>3 DEF PutAt
<1>5. nq2 \in [Names -> Seq(Mail)]
  BY <1>2 DEF PutAt
<1>6. Under(nq2, q, w2, k, E)
  <2>1. PutAt(Keep(nq, q, w), Keep(nq, q, w2), <<r, "wire">>, w[r] \o b)
    BY <1>2, KeepWire
  <2>2. PutAt(Keep(nq, q, w2), Keep(nq2, q, w2), <<x, "name">>, <<>>)
    BY <1>2, KeepName
  <2>3. Keep(nq, q, w)[<<r, "wire">>] = w[r] /\ Keep(nq, q, w)[<<x, "name">>] = nq[x]
    BY <1>2, KeepType
  <2>4. Moved(Keep(nq, q, w), Keep(nq2, q, w2), <<x, "name">>, <<r, "wire">>, b)
    BY <2>1, <2>2, <2>3 DEF PutAt, Moved
  <2>5. <<x, "name">> \in Holders /\ <<r, "wire">> \in Holders /\ <<x, "name">> # <<r, "wire">>
    BY HolderKinds
  <2>6. Copy(Keep(nq, q, w)[<<x, "name">>], b) /\ Numbers(b) = Numbers(Keep(nq, q, w)[<<x, "name">>])
    BY <2>3
  <2>7. Distinct(Keep(nq2, q, w2)) /\ AllNumbers(Keep(nq2, q, w2)) = (1..k) \ E
    BY <1>1, <2>4, <2>5, <2>6, Moving
  <2> QED BY <1>2, <1>4, <1>5, <2>7 DEF Under
<1>7. /\ InOrder(b) /\ AllTo(b, x)
      /\ (NoneTo(w[r], x) /\ NoneTo(q[r], x)) \/ b = <<>>
  <2>1. /\ InOrder(nq[x]) /\ AllTo(nq[x], x) /\ (nq[x] # <<>> => v[x] = 0)
        /\ v[x] = 0 => NoneTo(q[r], x) /\ NoneTo(w[r], x)
    BY <1>1 DEF Named
  <2>2. InOrder(b) /\ AllTo(b, x)
    BY <1>3, <2>1, CopyKeeps
  <2>3. CASE nq[x] = <<>>
    <3>1. DOMAIN b = {}
      BY <2>3 DEF Copy
    <3>2. b = <<>>
      BY <3>1
    <3> QED BY <2>2, <3>2
  <2>4. CASE nq[x] # <<>>
    BY <2>1, <2>2, <2>4
  <2> QED BY <2>3, <2>4
<1>8. /\ Before(w[r], b) /\ Before(b, q[r]) /\ Before(q[r], b)
  BY <1>7, Apart, EmptyOrder
<1>9. Lines(q, w2)
  <2>1. InOrder(w[r]) /\ InOrder(q[r]) /\ Before(w[r], q[r])
    BY <1>1 DEF Lines
  <2>2. InOrder(w[r] \o b) /\ Before(w[r] \o b, q[r]) /\ InOrder(q[r])
    BY <1>3, <1>7, <1>8, <2>1, InOrderCat, BeforeCat
  <2> QED BY <1>1, <1>4, <2>2 DEF Lines
<1>10. Named(nq2, q, w2, v2)
  <2>1. ASSUME NEW y \in Names, y # x, v[y] = 0, NEW r2 \in HarborIds
        PROVE  NoneTo(w2[r2], y) /\ NoneTo(q[r2], y)
    <3>1. NoneTo(w[r2], y) /\ NoneTo(q[r2], y)
      BY <1>1, <2>1 DEF Named
    <3>2. NoneTo(b, y)
      BY <1>7, <2>1, ApartNames
    <3>3. CASE r2 = r
      BY <1>3, <1>4, <3>1, <3>2, <3>3, CatTo
    <3>4. CASE r2 # r
      BY <1>4, <3>1, <3>4
    <3> QED BY <3>3, <3>4
  <2>2. OthersWait(x, v, q, w2)
    BY <2>1 DEF OthersWait
  <2> QED BY <1>1, <1>2, <2>2, NamedAs
<1> QED BY <1>6, <1>9, <1>10 DEF Good

LEMMA NameToQueue ==
  ASSUME NEW nq, NEW q, NEW w, NEW v, NEW k, NEW E, Good(nq, q, w, v, k, E),
         NEW x \in Names, NEW r \in HarborIds,
         NEW b \in Seq(Mail), Copy(nq[x], b), Numbers(b) = Numbers(nq[x]),
         NEW nq2, PutAt(nq, nq2, x, <<>>), NEW q2, PutAt(q, q2, r, q[r] \o b),
         NEW v2, PutAt(v, v2, x, r)
  PROVE  Good(nq2, q2, w, v2, k, E)
<1>1. Under(nq, q, w, k, E) /\ Lines(q, w) /\ Named(nq, q, w, v)
  BY DEF Good
<1>2. /\ nq \in [Names -> Seq(Mail)] /\ q \in [HarborIds -> Seq(Mail)]
      /\ w \in [HarborIds -> Seq(Mail)] /\ k \in Nat /\ E \subseteq 1..k
  BY <1>1 DEF Under
<1>3. /\ nq[x] \in Seq(Mail) /\ q[r] \in Seq(Mail) /\ w[r] \in Seq(Mail) /\ q[r] \o b \in Seq(Mail)
  BY <1>2, Cat
<1>4. /\ q2 \in [HarborIds -> Seq(Mail)]
      /\ q2[r] = q[r] \o b /\ \A r2 \in HarborIds \ {r} : q2[r2] = q[r2]
  BY <1>2, <1>3 DEF PutAt
<1>5. nq2 \in [Names -> Seq(Mail)]
  BY <1>2 DEF PutAt
<1>6. Under(nq2, q2, w, k, E)
  <2>1. PutAt(Keep(nq, q, w), Keep(nq, q2, w), <<r, "queue">>, q[r] \o b)
    BY <1>2, KeepQueue
  <2>2. PutAt(Keep(nq, q2, w), Keep(nq2, q2, w), <<x, "name">>, <<>>)
    BY <1>2, KeepName
  <2>3. Keep(nq, q, w)[<<r, "queue">>] = q[r] /\ Keep(nq, q, w)[<<x, "name">>] = nq[x]
    BY <1>2, KeepType
  <2>4. Moved(Keep(nq, q, w), Keep(nq2, q2, w), <<x, "name">>, <<r, "queue">>, b)
    BY <2>1, <2>2, <2>3 DEF PutAt, Moved
  <2>5. <<x, "name">> \in Holders /\ <<r, "queue">> \in Holders /\ <<x, "name">> # <<r, "queue">>
    BY HolderKinds
  <2>6. Copy(Keep(nq, q, w)[<<x, "name">>], b) /\ Numbers(b) = Numbers(Keep(nq, q, w)[<<x, "name">>])
    BY <2>3
  <2>7. Distinct(Keep(nq2, q2, w)) /\ AllNumbers(Keep(nq2, q2, w)) = (1..k) \ E
    BY <1>1, <2>4, <2>5, <2>6, Moving
  <2> QED BY <1>2, <1>4, <1>5, <2>7 DEF Under
<1>7. /\ InOrder(b) /\ AllTo(b, x)
      /\ (NoneTo(w[r], x) /\ NoneTo(q[r], x)) \/ b = <<>>
  <2>1. /\ InOrder(nq[x]) /\ AllTo(nq[x], x) /\ (nq[x] # <<>> => v[x] = 0)
        /\ v[x] = 0 => NoneTo(q[r], x) /\ NoneTo(w[r], x)
    BY <1>1 DEF Named
  <2>2. InOrder(b) /\ AllTo(b, x)
    BY <1>3, <2>1, CopyKeeps
  <2>3. CASE nq[x] = <<>>
    <3>1. DOMAIN b = {}
      BY <2>3 DEF Copy
    <3>2. b = <<>>
      BY <3>1
    <3> QED BY <2>2, <3>2
  <2>4. CASE nq[x] # <<>>
    BY <2>1, <2>2, <2>4
  <2> QED BY <2>3, <2>4
<1>8. /\ Before(w[r], b) /\ Before(b, q[r]) /\ Before(q[r], b)
  BY <1>7, Apart, EmptyOrder
<1>9. Lines(q2, w)
  <2>1. InOrder(w[r]) /\ InOrder(q[r]) /\ Before(w[r], q[r])
    BY <1>1 DEF Lines
  <2>2. InOrder(q[r] \o b) /\ Before(w[r], q[r] \o b) /\ InOrder(w[r])
    BY <1>3, <1>7, <1>8, <2>1, InOrderCat, BeforeCat
  <2> QED BY <1>1, <1>4, <2>2 DEF Lines
<1>10. Named(nq2, q2, w, v2)
  <2>1. ASSUME NEW y \in Names, y # x, v[y] = 0, NEW r2 \in HarborIds
        PROVE  NoneTo(q2[r2], y) /\ NoneTo(w[r2], y)
    <3>1. NoneTo(q[r2], y) /\ NoneTo(w[r2], y)
      BY <1>1, <2>1 DEF Named
    <3>2. NoneTo(b, y)
      BY <1>7, <2>1, ApartNames
    <3>3. CASE r2 = r
      BY <1>3, <1>4, <3>1, <3>2, <3>3, CatTo
    <3>4. CASE r2 # r
      BY <1>4, <3>1, <3>4
    <3> QED BY <3>3, <3>4
  <2>2. OthersWait(x, v, q2, w)
    BY <2>1 DEF OthersWait
  <2> QED BY <1>1, <1>2, <2>2, NamedAs
<1> QED BY <1>6, <1>9, <1>10 DEF Good

LEMMA NameDropped ==
  ASSUME NEW nq, NEW q, NEW w, NEW v, NEW k, NEW E, Good(nq, q, w, v, k, E),
         NEW x \in Names, NEW r \in HarborIds,
         NEW nq2, PutAt(nq, nq2, x, <<>>), NEW v2, PutAt(v, v2, x, r)
  PROVE  Good(nq2, q, w, v2, k, E \cup Numbers(nq[x]))
<1>1. Under(nq, q, w, k, E) /\ Lines(q, w) /\ Named(nq, q, w, v)
  BY DEF Good
<1>2. /\ nq \in [Names -> Seq(Mail)] /\ q \in [HarborIds -> Seq(Mail)]
      /\ w \in [HarborIds -> Seq(Mail)] /\ k \in Nat /\ E \subseteq 1..k
  BY <1>1 DEF Under
<1>3. nq2 \in [Names -> Seq(Mail)]
  BY <1>2 DEF PutAt
<1>4. Under(nq2, q, w, k, E \cup Numbers(nq[x]))
  <2>1. PutAt(Keep(nq, q, w), Keep(nq2, q, w), <<x, "name">>, <<>>)
    BY <1>2, KeepName
  <2>2. Dropped(Keep(nq, q, w), Keep(nq2, q, w), <<x, "name">>)
    BY <2>1 DEF PutAt, Dropped
  <2>3. <<x, "name">> \in Holders /\ Keep(nq, q, w)[<<x, "name">>] = nq[x]
    BY <1>2, HolderKinds, KeepType
  <2>4. /\ Distinct(Keep(nq2, q, w))
        /\ AllNumbers(Keep(nq2, q, w)) = (1..k) \ (E \cup Numbers(nq[x]))
    BY <1>1, <2>2, <2>3, Dropping
  <2>5. Numbers(nq[x]) \subseteq 1..k
    BY <1>1, SentBefore
  <2> QED BY <1>2, <1>3, <2>4, <2>5 DEF Under
<1>5. Named(nq2, q, w, v2)
  <2>1. OthersWait(x, v, q, w)
    BY <1>1 DEF Named, OthersWait
  <2> QED BY <1>1, <1>2, <2>1, NamedAs
<1> QED BY <1>1, <1>4, <1>5 DEF Good

\* The queue of a harbor goes to its wire, or nowhere.
LEMMA QueueToWire ==
  ASSUME NEW nq, NEW q, NEW w, NEW v, NEW k, NEW E, Good(nq, q, w, v, k, E),
         NEW r \in HarborIds,
         NEW q2, PutAt(q, q2, r, <<>>), NEW w2, PutAt(w, w2, r, w[r] \o q[r])
  PROVE  Good(nq, q2, w2, v, k, E)
<1>1. Under(nq, q, w, k, E) /\ Lines(q, w) /\ Named(nq, q, w, v)
  BY DEF Good
<1>2. /\ nq \in [Names -> Seq(Mail)] /\ q \in [HarborIds -> Seq(Mail)]
      /\ w \in [HarborIds -> Seq(Mail)] /\ k \in Nat /\ E \subseteq 1..k
  BY <1>1 DEF Under
<1>3. q[r] \in Seq(Mail) /\ w[r] \in Seq(Mail) /\ w[r] \o q[r] \in Seq(Mail)
  BY <1>2, Cat
<1>4. /\ w2 \in [HarborIds -> Seq(Mail)]
      /\ w2[r] = w[r] \o q[r] /\ \A r2 \in HarborIds \ {r} : w2[r2] = w[r2]
  BY <1>2, <1>3 DEF PutAt
<1>5. /\ q2 \in [HarborIds -> Seq(Mail)]
      /\ q2[r] = <<>> /\ \A r2 \in HarborIds \ {r} : q2[r2] = q[r2]
  BY <1>2 DEF PutAt
<1>6. Under(nq, q2, w2, k, E)
  <2>1. PutAt(Keep(nq, q, w), Keep(nq, q, w2), <<r, "wire">>, w[r] \o q[r])
    BY <1>2, KeepWire
  <2>2. PutAt(Keep(nq, q, w2), Keep(nq, q2, w2), <<r, "queue">>, <<>>)
    BY <1>2, KeepQueue
  <2>3. Keep(nq, q, w)[<<r, "wire">>] = w[r] /\ Keep(nq, q, w)[<<r, "queue">>] = q[r]
    BY <1>2, KeepType
  <2>4. Moved(Keep(nq, q, w), Keep(nq, q2, w2), <<r, "queue">>, <<r, "wire">>, q[r])
    BY <2>1, <2>2, <2>3 DEF PutAt, Moved
  <2>5. <<r, "queue">> \in Holders /\ <<r, "wire">> \in Holders /\ <<r, "queue">> # <<r, "wire">>
    BY HolderKinds
  <2>6. /\ Copy(Keep(nq, q, w)[<<r, "queue">>], q[r])
        /\ Numbers(q[r]) = Numbers(Keep(nq, q, w)[<<r, "queue">>])
    BY <2>3, SameIsCopy
  <2>7. Distinct(Keep(nq, q2, w2)) /\ AllNumbers(Keep(nq, q2, w2)) = (1..k) \ E
    BY <1>1, <1>3, <2>4, <2>5, <2>6, Moving
  <2> QED BY <1>2, <1>4, <1>5, <2>7 DEF Under
<1>7. Lines(q2, w2)
  <2>1. InOrder(w[r]) /\ InOrder(q[r]) /\ Before(w[r], q[r])
    BY <1>1 DEF Lines
  <2>2. InOrder(w[r] \o q[r]) /\ Before(w[r] \o q[r], <<>>) /\ InOrder(<<>>)
    BY <1>3, <2>1, InOrderCat, EmptyOrder
  <2> QED BY <1>1, <1>4, <1>5, <2>2 DEF Lines
<1>8. Named(nq, q2, w2, v)
  <2>1. ASSUME NEW x \in Names, v[x] = 0, NEW r2 \in HarborIds
        PROVE  NoneTo(q2[r2], x) /\ NoneTo(w2[r2], x)
    <3>1. NoneTo(q[r2], x) /\ NoneTo(w[r2], x)
      BY <1>1, <2>1 DEF Named
    <3>2. CASE r2 = r
      <4>1. NoneTo(w[r] \o q[r], x)
        BY <1>3, <3>1, <3>2, CatTo
      <4>2. NoneTo(<<>>, x)
        BY DEF NoneTo
      <4> QED BY <1>4, <1>5, <3>2, <4>1, <4>2
    <3>3. CASE r2 # r
      BY <1>4, <1>5, <3>1, <3>3
    <3> QED BY <3>2, <3>3
  <2> QED BY <1>1, <2>1 DEF Named
<1> QED BY <1>6, <1>7, <1>8 DEF Good

LEMMA QueueDropped ==
  ASSUME NEW nq, NEW q, NEW w, NEW v, NEW k, NEW E, Good(nq, q, w, v, k, E),
         NEW r \in HarborIds, NEW q2, PutAt(q, q2, r, <<>>)
  PROVE  Good(nq, q2, w, v, k, E \cup Numbers(q[r]))
<1>1. Under(nq, q, w, k, E) /\ Lines(q, w) /\ Named(nq, q, w, v)
  BY DEF Good
<1>2. /\ nq \in [Names -> Seq(Mail)] /\ q \in [HarborIds -> Seq(Mail)]
      /\ w \in [HarborIds -> Seq(Mail)] /\ k \in Nat /\ E \subseteq 1..k
  BY <1>1 DEF Under
<1>3. /\ q2 \in [HarborIds -> Seq(Mail)]
      /\ q2[r] = <<>> /\ \A r2 \in HarborIds \ {r} : q2[r2] = q[r2]
  BY <1>2 DEF PutAt
<1>4. Under(nq, q2, w, k, E \cup Numbers(q[r]))
  <2>1. PutAt(Keep(nq, q, w), Keep(nq, q2, w), <<r, "queue">>, <<>>)
    BY <1>2, KeepQueue
  <2>2. Dropped(Keep(nq, q, w), Keep(nq, q2, w), <<r, "queue">>)
    BY <2>1 DEF PutAt, Dropped
  <2>3. <<r, "queue">> \in Holders /\ Keep(nq, q, w)[<<r, "queue">>] = q[r]
    BY <1>2, HolderKinds, KeepType
  <2>4. /\ Distinct(Keep(nq, q2, w))
        /\ AllNumbers(Keep(nq, q2, w)) = (1..k) \ (E \cup Numbers(q[r]))
    BY <1>1, <2>2, <2>3, Dropping
  <2>5. Numbers(q[r]) \subseteq 1..k
    BY <1>1, SentBefore
  <2> QED BY <1>2, <1>3, <2>4, <2>5 DEF Under
<1>5. Lines(q2, w)
  <2>1. InOrder(<<>>) /\ Before(w[r], <<>>)
    BY EmptyOrder
  <2> QED BY <1>1, <1>3, <2>1 DEF Lines
<1>6. Named(nq, q2, w, v)
  <2>1. \A x \in Names : NoneTo(<<>>, x)
    BY DEF NoneTo
  <2>2. \A x \in Names, r2 \in HarborIds : NoneTo(q[r2], x) => NoneTo(q2[r2], x)
    BY <1>3, <2>1
  <2> QED BY <1>1, <2>2 DEF Named
<1> QED BY <1>4, <1>5, <1>6 DEF Good

-----------------------------------------------------------------------------
(* The invariant.                                                          *)

NQ == [x \in Names |-> names[x].queue]
V  == [x \in Names |-> names[x].value]
Q  == [r \in HarborIds |-> slaves[r].queue]
Ended == home \cup gone \cup refused

IsSlave(s) == s \in [fd : BOOLEAN, queue : Seq(Mail), status : {s.status}, read : {s.read}]
IsName(s) == s \in [value : HarborIds \cup {0}, queue : Seq(Mail)]

Shapes ==
  /\ slaves = [r \in HarborIds |-> slaves[r]] /\ \A r \in HarborIds : IsSlave(slaves[r])
  /\ names = [x \in Names |-> names[x]] /\ \A x \in Names : IsName(names[x])
  /\ alive \in [HarborIds -> BOOLEAN]

Books ==
  /\ Good(NQ, Q, wire, V, sends, Ended)
  /\ home \cap gone = {} /\ refused \cap (home \cup gone) = {}

\* Only a harbor that is waited for has a queue; one without a socket waits, and
\* this process never has a socket to itself.
Waiting ==
  /\ ~slaves[Self].fd
  /\ \A r \in HarborIds : /\ ~slaves[r].fd => slaves[r].status = "WAIT"
                          /\ slaves[r].queue # <<>> => Waits(slaves[r])

HarborIInv == Shapes /\ Books /\ Waiting /\ ForCause

\* t is a slave with these fields.
Is(t, fd, kept, status) ==
  IsSlave(t) /\ t.fd = fd /\ t.queue = kept /\ t.status = status

LEMMA SlaveParts ==
  ASSUME NEW s, IsSlave(s), NEW a \in Seq(Mail), NEW st, NEW rd
  PROVE  /\ Is([s EXCEPT !.queue = a], s.fd, a, s.status)
         /\ Is([s EXCEPT !.fd = TRUE, !.status = st], TRUE, s.queue, st)
         /\ Is([s EXCEPT !.fd = TRUE, !.status = st, !.queue = a], TRUE, a, st)
         /\ Is([s EXCEPT !.status = st, !.read = rd], s.fd, s.queue, st)
         /\ Is([s EXCEPT !.status = st, !.queue = a], s.fd, a, st)
<1>1. Is([s EXCEPT !.queue = a], s.fd, a, s.status)
  BY DEF Is, IsSlave
<1>2. Is([s EXCEPT !.fd = TRUE, !.status = st], TRUE, s.queue, st)
  BY DEF Is, IsSlave
<1>3. Is([s EXCEPT !.fd = TRUE, !.status = st, !.queue = a], TRUE, a, st)
  BY DEF Is, IsSlave
<1>4. Is([s EXCEPT !.status = st, !.read = rd], s.fd, s.queue, st)
  BY DEF Is, IsSlave
<1>5. Is([s EXCEPT !.status = st, !.queue = a], s.fd, a, st)
  BY DEF Is, IsSlave
<1> QED BY <1>1, <1>2, <1>3, <1>4, <1>5

LEMMA SlaveChange ==
  ASSUME Shapes, NEW r \in HarborIds, NEW t, IsSlave(t), slaves' = [slaves EXCEPT ![r] = t]
  PROVE  /\ slaves' = [r2 \in HarborIds |-> slaves'[r2]]
         /\ \A r2 \in HarborIds : IsSlave(slaves'[r2])
         /\ slaves'[r] = t /\ \A r2 \in HarborIds \ {r} : slaves'[r2] = slaves[r2]
         /\ PutAt(Q, Q', r, t.queue)
<1>1. DOMAIN slaves = HarborIds
  BY DEF Shapes
<1>2. slaves' = [r2 \in HarborIds |-> IF r2 = r THEN t ELSE slaves[r2]]
  BY <1>1
<1>3. \A r2 \in HarborIds : slaves'[r2] = (IF r2 = r THEN t ELSE slaves[r2])
  BY <1>2
<1>4. slaves' = [r2 \in HarborIds |-> slaves'[r2]]
  BY <1>2, <1>3
<1>5. \A r2 \in HarborIds : IsSlave(slaves'[r2])
  BY <1>3 DEF Shapes
<1>6. Q' = [r2 \in HarborIds |-> IF r2 = r THEN t.queue ELSE Q[r2]]
  BY <1>3 DEF Q
<1>7. [Q EXCEPT ![r] = t.queue] = [r2 \in HarborIds |-> IF r2 = r THEN t.queue ELSE Q[r2]]
  BY DEF Q
<1>8. PutAt(Q, Q', r, t.queue)
  BY <1>6, <1>7 DEF PutAt
<1> QED BY <1>3, <1>4, <1>5, <1>8

LEMMA SlaveShapes ==
  ASSUME Shapes, NEW r \in HarborIds, NEW t, NEW fd, NEW kept, NEW status,
         Is(t, fd, kept, status), slaves' = [slaves EXCEPT ![r] = t],
         names' = names, alive' \in [HarborIds -> BOOLEAN]
  PROVE  /\ Shapes' /\ PutAt(Q, Q', r, kept)
         /\ Is(slaves'[r], fd, kept, status)
         /\ \A r2 \in HarborIds \ {r} : slaves'[r2] = slaves[r2]
<1>1. IsSlave(t) /\ t.queue = kept
  BY DEF Is
<1>2. /\ slaves' = [r2 \in HarborIds |-> slaves'[r2]]
      /\ \A r2 \in HarborIds : IsSlave(slaves'[r2])
      /\ slaves'[r] = t /\ \A r2 \in HarborIds \ {r} : slaves'[r2] = slaves[r2]
      /\ PutAt(Q, Q', r, t.queue)
  BY <1>1, SlaveChange
<1>3. Shapes'
  BY <1>2 DEF Shapes
<1> QED BY <1>1, <1>2, <1>3

LEMMA NameChange ==
  ASSUME Shapes, NEW x \in Names, NEW t, IsName(t), names' = [names EXCEPT ![x] = t]
  PROVE  /\ names' = [y \in Names |-> names'[y]]
         /\ \A y \in Names : IsName(names'[y])
         /\ names'[x] = t /\ \A y \in Names \ {x} : names'[y] = names[y]
         /\ PutAt(NQ, NQ', x, t.queue) /\ PutAt(V, V', x, t.value)
<1>1. DOMAIN names = Names
  BY DEF Shapes
<1>2. names' = [y \in Names |-> IF y = x THEN t ELSE names[y]]
  BY <1>1
<1>3. \A y \in Names : names'[y] = (IF y = x THEN t ELSE names[y])
  BY <1>2
<1>4. names' = [y \in Names |-> names'[y]]
  BY <1>2, <1>3
<1>5. \A y \in Names : IsName(names'[y])
  BY <1>3 DEF Shapes
<1>6. /\ NQ' = [y \in Names |-> IF y = x THEN t.queue ELSE NQ[y]]
      /\ V' = [y \in Names |-> IF y = x THEN t.value ELSE V[y]]
  BY <1>3 DEF NQ, V
<1>7. /\ [NQ EXCEPT ![x] = t.queue] = [y \in Names |-> IF y = x THEN t.queue ELSE NQ[y]]
      /\ [V EXCEPT ![x] = t.value] = [y \in Names |-> IF y = x THEN t.value ELSE V[y]]
  BY DEF NQ, V
<1>8. PutAt(NQ, NQ', x, t.queue) /\ PutAt(V, V', x, t.value)
  BY <1>6, <1>7 DEF PutAt
<1> QED BY <1>3, <1>4, <1>5, <1>8

\* What the invariant says of one state, without its definitions.
LEMMA BookFacts ==
  ASSUME Books
  PROVE  /\ sends \in Nat /\ Ended \subseteq 1..sends
         /\ wire \in [HarborIds -> Seq(Mail)]
         /\ \A x \in Names : /\ names[x].queue \in Seq(Mail) /\ NQ[x] = names[x].queue
                             /\ V[x] = names[x].value /\ V[x] \in HarborIds \cup {0}
                             /\ Numbers(names[x].queue) \subseteq (1..sends) \ Ended
         /\ \A r \in HarborIds : /\ slaves[r].queue \in Seq(Mail) /\ Q[r] = slaves[r].queue
                                 /\ wire[r] \in Seq(Mail)
                                 /\ Numbers(slaves[r].queue) \subseteq (1..sends) \ Ended
<1>1. Under(NQ, Q, wire, sends, Ended) /\ Named(NQ, Q, wire, V)
  BY DEF Books, Good
<1>2. /\ \A x \in Names : Numbers(NQ[x]) \subseteq (1..sends) \ Ended
      /\ \A r \in HarborIds : Numbers(Q[r]) \subseteq (1..sends) \ Ended
  BY <1>1, SentBefore
<1>3. /\ NQ \in [Names -> Seq(Mail)] /\ Q \in [HarborIds -> Seq(Mail)]
      /\ wire \in [HarborIds -> Seq(Mail)] /\ sends \in Nat /\ Ended \subseteq 1..sends
  BY <1>1 DEF Under
<1>4. V \in [Names -> HarborIds \cup {0}]
  BY <1>1 DEF Named
<1>5. \A x \in Names : NQ[x] = names[x].queue /\ V[x] = names[x].value
  BY DEF NQ, V
<1>6. \A r \in HarborIds : Q[r] = slaves[r].queue
  BY DEF Q
<1>7. ASSUME NEW x \in Names
      PROVE  /\ names[x].queue \in Seq(Mail) /\ V[x] \in HarborIds \cup {0}
             /\ Numbers(names[x].queue) \subseteq (1..sends) \ Ended
  <2>1. NQ[x] \in Seq(Mail) /\ V[x] \in HarborIds \cup {0}
    BY <1>3, <1>4
  <2> QED BY <1>2, <1>5, <2>1
<1>8. ASSUME NEW r \in HarborIds
      PROVE  /\ slaves[r].queue \in Seq(Mail) /\ wire[r] \in Seq(Mail)
             /\ Numbers(slaves[r].queue) \subseteq (1..sends) \ Ended
  <2>1. Q[r] \in Seq(Mail) /\ wire[r] \in Seq(Mail)
    BY <1>3
  <2> QED BY <1>2, <1>6, <2>1
<1> QED BY <1>3, <1>5, <1>6, <1>7, <1>8

-----------------------------------------------------------------------------
(* The actions.                                                            *)

LEMMA Sent ==
  ASSUME Books, NEW r \in HarborIds, NEW ms, SendRemote(r, ms)
  PROVE  \/ alive[r] /\ PutAt(wire, wire', r, wire[r] \o ms) /\ gone' = gone
         \/ ~alive[r] /\ wire' = wire /\ gone' = gone \cup Numbers(ms)
BY DEF SendRemote, PutAt

LEMMA Posted ==
  ASSUME Books, NEW to \in Names \cup HarborIds, NEW dest \in HarborIds \cup {0}
  PROVE  /\ Letter(to, dest) \in Mail
         /\ Letter(to, dest).n = sends + 1 /\ Letter(to, dest).to = to
         /\ Numbers(<<Letter(to, dest)>>) = {sends + 1}
<1>1. sends \in Nat
  BY BookFacts
<1>2. /\ Letter(to, dest) \in Mail
      /\ Letter(to, dest).n = sends + 1 /\ Letter(to, dest).to = to
  BY <1>1 DEF Letter, Mail
<1> QED BY <1>2, NumbersOne

\* A new message that is not stored.
LEMMA SpentNow ==
  ASSUME HarborIInv, sends' = sends + 1, UNCHANGED <<slaves, names, wire>>,
         \/ home' = home \cup {sends + 1} /\ UNCHANGED <<gone, refused>>
         \/ gone' = gone \cup {sends + 1} /\ UNCHANGED <<home, refused>>
         \/ refused' = refused \cup {sends + 1} /\ UNCHANGED <<home, gone>>
  PROVE  Books'
<1>1. NQ' = NQ /\ Q' = Q /\ V' = V
  BY DEF NQ, Q, V
<1>2. Ended' = Ended \cup {sends + 1}
  BY DEF Ended
<1>3. Good(NQ, Q, wire, V, sends, Ended)
  BY DEF HarborIInv, Books
<1>4. Good(NQ, Q, wire, V, sends + 1, Ended \cup {sends + 1})
  BY <1>3, Spend
<1>5. Good(NQ', Q', wire', V', sends', Ended')
  BY <1>1, <1>2, <1>4
<1>6. sends \in Nat /\ Ended \subseteq 1..sends
  BY BookFacts DEF HarborIInv
<1>7. sends + 1 \notin home \cup gone \cup refused
  BY <1>6 DEF Ended
<1> QED BY <1>5, <1>7 DEF HarborIInv, Books

LEMMA RemoteSendKeeps ==
  ASSUME HarborIInv, NEW to \in Names \cup HarborIds, NEW r \in HarborIds,
         to \in Names => V[to] # 0,
         RemoteSend(to, r), UNCHANGED <<names, alive, told>>
  PROVE  HarborIInv'
<1> DEFINE m == Letter(to, r)
<1>1. m \in Mail /\ m.n = sends + 1 /\ m.to = to /\ Numbers(<<m>>) = {sends + 1}
  BY Posted DEF HarborIInv
<1>2. Shapes /\ Books /\ Waiting /\ ForCause
  BY DEF HarborIInv
<1>3. NQ' = NQ /\ V' = V /\ sends' = sends + 1
  BY DEF NQ, V, RemoteSend
<1>4. Good(NQ, Q, wire, V, sends, Ended)
  BY <1>2 DEF Books
<1>5. \A x \in Names : m.to = x => V[x] # 0
  BY <1>1
<1>6. slaves[r].queue \in Seq(Mail) /\ Q[r] = slaves[r].queue /\ wire[r] \in Seq(Mail)
  BY <1>2, BookFacts
<1>7. CASE r = Self
  <2>1. home' = home \cup {sends + 1} /\ UNCHANGED <<slaves, wire, gone, refused>>
    BY <1>1, <1>7 DEF RemoteSend
  <2>2. Books'
    BY <1>3, <2>1, SpentNow
  <2> QED BY <1>2, <2>1, <2>2 DEF HarborIInv, Shapes, Waiting, ForCause, Waits
<1>8. CASE r # Self /\ Waits(slaves[r]) /\ slaves[r].status = "DOWN"
  <2>1. refused' = refused \cup {sends + 1} /\ UNCHANGED <<slaves, wire, gone, home>>
    BY <1>1, <1>8 DEF RemoteSend
  <2>2. Books'
    BY <1>3, <2>1, SpentNow
  <2> QED BY <1>2, <2>1, <2>2 DEF HarborIInv, Shapes, Waiting, ForCause, Waits
<1>9. CASE r # Self /\ Waits(slaves[r]) /\ slaves[r].status # "DOWN"
  <2> DEFINE t == [slaves[r] EXCEPT !.queue = slaves[r].queue \o <<m>>]
  <2>1. UNCHANGED <<wire, gone, home, refused>>
    BY <1>9 DEF RemoteSend
  <2>2. slaves' = [slaves EXCEPT ![r] = t]
    <3>1. slaves' = [slaves EXCEPT ![r] = [slaves[r] EXCEPT !.queue = Append(slaves[r].queue, m)]]
      BY <1>9 DEF RemoteSend
    <3> QED BY <1>1, <1>6, <3>1, One
  <2>3. slaves[r].queue \o <<m>> \in Seq(Mail)
    BY <1>1, <1>6, One, Cat
  <2>4. Is(t, slaves[r].fd, slaves[r].queue \o <<m>>, slaves[r].status)
    BY <1>2, <2>3, SlaveParts DEF Shapes
  <2> HIDE DEF t, m
  <2>5. /\ Shapes' /\ PutAt(Q, Q', r, Q[r] \o <<m>>)
        /\ Is(slaves'[r], slaves[r].fd, slaves[r].queue \o <<m>>, slaves[r].status)
        /\ \A r2 \in HarborIds \ {r} : slaves'[r2] = slaves[r2]
    <3>1. alive' \in [HarborIds -> BOOLEAN]
      BY <1>2 DEF Shapes
    <3>2. Is(t, slaves[r].fd, Q[r] \o <<m>>, slaves[r].status)
      BY <1>6, <2>4
    <3>3. names' = names
      OBVIOUS
    <3>4. /\ Shapes' /\ PutAt(Q, Q', r, Q[r] \o <<m>>)
          /\ Is(slaves'[r], slaves[r].fd, Q[r] \o <<m>>, slaves[r].status)
          /\ \A r2 \in HarborIds \ {r} : slaves'[r2] = slaves[r2]
      BY <1>2, <2>2, <3>1, <3>2, <3>3, SlaveShapes
    <3> QED BY <1>6, <3>4
  <2>6. Ended' = Ended
    BY <2>1 DEF Ended
  <2>7. Good(NQ', Q', wire', V', sends', Ended')
    BY <1>1, <1>3, <1>4, <1>5, <2>1, <2>5, <2>6, PutQueue
  <2>8. Books'
    BY <1>2, <2>1, <2>7 DEF Books
  <2>9. /\ Waits(slaves'[r]) /\ slaves'[r].status \in {"WAIT", "HANDSHAKE"}
        /\ slaves'[r].fd = slaves[r].fd /\ slaves'[r].status = slaves[r].status
    BY <1>2, <1>9, <2>5 DEF Is, Waits, Waiting
  <2>10. Waiting'
    BY <1>2, <1>9, <2>5, <2>9, HarborAssumption DEF Waiting
  <2>11. ForCause'
    BY <1>2, <2>1, <2>5, <2>9 DEF ForCause
  <2> QED BY <2>5, <2>8, <2>10, <2>11 DEF HarborIInv
<1>10. CASE r # Self /\ ~Waits(slaves[r])
  <2>1. SendRemote(r, <<m>>) /\ UNCHANGED <<slaves, home, refused>>
    BY <1>10 DEF RemoteSend
  <2>2. Shapes' /\ Waiting' /\ Q' = Q
    BY <1>2, <2>1 DEF Shapes, Waiting, Waits, Q
  <2>3. Q[r] = <<>>
    BY <1>2, <1>6, <1>10 DEF Waiting
  <2> HIDE DEF m
  <2>4. CASE alive[r] /\ PutAt(wire, wire', r, wire[r] \o <<m>>) /\ gone' = gone
    <3>1. Ended' = Ended
      BY <2>1, <2>4 DEF Ended
    <3>2. Good(NQ', Q', wire', V', sends', Ended')
      BY <1>1, <1>3, <1>4, <1>5, <2>2, <2>3, <2>4, <3>1, PutWire
    <3>3. Books'
      BY <1>2, <2>1, <2>4, <3>2 DEF Books
    <3>4. ForCause'
      BY <1>2, <2>1, <2>4 DEF ForCause
    <3> QED BY <2>2, <3>3, <3>4 DEF HarborIInv
  <2>5. CASE ~alive[r] /\ wire' = wire /\ gone' = gone \cup Numbers(<<m>>)
    <3>1. Books'
      BY <1>1, <1>3, <2>1, <2>5, SpentNow
    <3>2. ForCause'
      BY <1>2, <1>10, <2>1, <2>5 DEF ForCause, Peers
    <3> QED BY <2>2, <3>1, <3>2 DEF HarborIInv
  <2> QED BY <1>2, <2>1, <2>4, <2>5, Sent
<1> QED BY <1>7, <1>8, <1>9, <1>10

LEMMA SendHandleKeeps ==
  ASSUME HarborIInv, NEW r \in Peers, SendHandle(r)
  PROVE  HarborIInv'
<1>1. r \in HarborIds /\ r \notin Names
  BY HarborAssumption DEF Peers
<1>2. RemoteSend(r, r) /\ UNCHANGED <<names, alive, told>>
  BY DEF SendHandle
<1> QED BY <1>1, <1>2, RemoteSendKeeps

LEMMA SendNameKeeps ==
  ASSUME HarborIInv, NEW x \in Names, SendName(x)
  PROVE  HarborIInv'
<1>1. Shapes /\ Books /\ Waiting /\ ForCause
  BY DEF HarborIInv
<1>2. V[x] = names[x].value /\ V[x] \in HarborIds \cup {0}
  BY <1>1, BookFacts
<1>3. CASE names[x].value # 0
  <2>1. RemoteSend(x, names[x].value) /\ UNCHANGED <<names, alive, told>>
    BY <1>3 DEF SendName
  <2> QED BY <1>2, <1>3, <2>1, RemoteSendKeeps
<1>4. CASE names[x].value = 0
  <2> DEFINE m == Letter(x, 0)
             t == [names[x] EXCEPT !.queue = names[x].queue \o <<m>>]
  <2>1. m \in Mail /\ m.n = sends + 1 /\ m.to = x
    BY <1>1, Posted
  <2>2. names[x].queue \in Seq(Mail) /\ NQ[x] = names[x].queue
    BY <1>1, BookFacts
  <2>3. /\ names' = [names EXCEPT ![x] = [names[x] EXCEPT !.queue = Append(names[x].queue, m)]]
        /\ sends' = sends + 1 /\ told' = told \cup {<<"Q", x>>}
        /\ UNCHANGED <<slaves, wire, gone, home, refused, alive>>
    BY <1>4 DEF SendName
  <2>4. names' = [names EXCEPT ![x] = t]
    BY <2>1, <2>2, <2>3, One
  <2>5. names[x].queue \o <<m>> \in Seq(Mail)
    BY <2>1, <2>2, One, Cat
  <2>6. IsName(t) /\ t.value = names[x].value /\ t.queue = names[x].queue \o <<m>>
    BY <1>1, <2>5 DEF Shapes, IsName
  <2> HIDE DEF m, t
  <2>7. /\ names' = [y \in Names |-> names'[y]] /\ \A y \in Names : IsName(names'[y])
        /\ names'[x] = t /\ \A y \in Names \ {x} : names'[y] = names[y]
        /\ PutAt(NQ, NQ', x, t.queue) /\ PutAt(V, V', x, t.value)
    BY <1>1, <2>4, <2>6, NameChange
  <2>8. PutAt(NQ, NQ', x, NQ[x] \o <<m>>)
    BY <2>2, <2>6, <2>7
  <2>9. V' = V
    BY <2>6, <2>7 DEF V
  <2>10. Q' = Q /\ Ended' = Ended
    BY <2>3 DEF Q, Ended
  <2>11. Good(NQ, Q, wire, V, sends, Ended)
    BY <1>1 DEF Books
  <2>12. Good(NQ', Q, wire, V, sends + 1, Ended)
    BY <1>2, <1>4, <2>1, <2>8, <2>11, PutName
  <2>13. Good(NQ', Q', wire', V', sends', Ended')
    BY <2>3, <2>9, <2>10, <2>12
  <2>14. Books'
    BY <1>1, <2>3, <2>13 DEF Books
  <2>15. Shapes'
    BY <1>1, <2>3, <2>7 DEF Shapes
  <2>16. Waiting'
    BY <1>1, <2>3 DEF Waiting, Waits
  <2>17. ForCause'
    BY <1>1, <1>4, <2>3, <2>6, <2>7 DEF ForCause
  <2> QED BY <2>14, <2>15, <2>16, <2>17 DEF HarborIInv
<1> QED BY <1>3, <1>4

\* The harbor r has a socket, and its queue is empty unless it waits.
LEMMA Settled ==
  ASSUME Waiting, ForCause, NEW r \in Peers, NEW kept, NEW status,
         Is(slaves'[r], TRUE, kept, status),
         kept # <<>> => status = "HANDSHAKE",
         \A r2 \in HarborIds \ {r} : slaves'[r2] = slaves[r2],
         names' = names, told \subseteq told',
         alive \in [HarborIds -> BOOLEAN],
         \A r2 \in HarborIds : alive'[r2] => alive[r2],
         gone' = gone \/ ~alive'[r]
  PROVE  Waiting' /\ ForCause'
<1>1. r \in HarborIds /\ Self \in HarborIds /\ r # Self
  BY HarborAssumption DEF Peers
<1>2. /\ slaves'[r].fd = TRUE /\ slaves'[r].queue = kept /\ slaves'[r].status = status
      /\ kept # <<>> => Waits(slaves'[r])
  BY DEF Is, Waits
<1>3. Waiting'
  BY <1>1, <1>2 DEF Waiting
<1>4. ForCause'
  <2>1. \A x \in Names : names'[x].queue # <<>> => names'[x].value = 0 /\ <<"Q", x>> \in told'
    BY DEF ForCause
  <2>2. \A r2 \in HarborIds : slaves'[r2].queue # <<>> => slaves'[r2].status \in {"WAIT", "HANDSHAKE"}
    BY <1>1, <1>2 DEF ForCause
  <2>3. gone' # {} => \E r2 \in Peers : ~alive'[r2]
    BY DEF ForCause, Peers
  <2> QED BY <2>1, <2>2, <2>3 DEF ForCause
<1> QED BY <1>3, <1>4

LEMMA QueueSent ==
  ASSUME HarborIInv, NEW r \in Peers, SendRemote(r, slaves[r].queue), PutAt(Q, Q', r, <<>>),
         UNCHANGED <<names, sends, home, refused>>
  PROVE  Books' /\ (gone' = gone \/ ~alive[r])
<1>1. Books /\ Good(NQ, Q, wire, V, sends, Ended)
  BY DEF HarborIInv, Books
<1>2. r \in HarborIds /\ Q[r] = slaves[r].queue /\ Numbers(Q[r]) \subseteq (1..sends) \ Ended
  BY <1>1, BookFacts DEF Peers
<1>3. NQ' = NQ /\ V' = V
  BY DEF NQ, V
<1>4. CASE alive[r] /\ PutAt(wire, wire', r, wire[r] \o slaves[r].queue) /\ gone' = gone
  <2>1. Ended' = Ended
    BY <1>4 DEF Ended
  <2>2. PutAt(wire, wire', r, wire[r] \o Q[r])
    BY <1>2, <1>4
  <2>3. Good(NQ, Q', wire', V, sends, Ended)
    BY <1>1, <1>2, <2>2, QueueToWire
  <2> QED BY <1>1, <1>3, <1>4, <2>1, <2>3 DEF Books
<1>5. CASE ~alive[r] /\ wire' = wire /\ gone' = gone \cup Numbers(slaves[r].queue)
  <2>1. Ended' = Ended \cup Numbers(Q[r])
    BY <1>2, <1>5 DEF Ended
  <2>2. Good(NQ, Q', wire, V, sends, Ended \cup Numbers(Q[r]))
    BY <1>1, <1>2, QueueDropped
  <2>3. Good(NQ', Q', wire', V', sends', Ended')
    BY <1>3, <1>5, <2>1, <2>2
  <2>4. home' \cap gone' = {} /\ refused' \cap (home' \cup gone') = {}
    BY <1>1, <1>2, <1>5 DEF Books, Ended
  <2> QED BY <1>5, <2>3, <2>4 DEF Books
<1> QED BY <1>1, <1>2, <1>4, <1>5, Sent

\* Nothing is put anywhere.
LEMMA BooksIdle ==
  ASSUME Books, NQ' = NQ, V' = V, Q' = Q, UNCHANGED <<wire, sends, home, gone, refused>>
  PROVE  Books'
BY DEF Books, Ended

LEMMA UpdateNameKeeps ==
  ASSUME HarborIInv, NEW x \in Names, NEW r \in HarborIds, UpdateName(x, r)
  PROVE  HarborIInv'
<1> DEFINE ms == names[x].queue
           b == [i \in DOMAIN ms |-> [ms[i] EXCEPT !.dest = r]]
<1>1. Shapes /\ Books /\ Waiting /\ ForCause
  BY DEF HarborIInv
<1>2. Good(NQ, Q, wire, V, sends, Ended)
  BY <1>1 DEF Books
<1>3. /\ ms \in Seq(Mail) /\ NQ[x] = ms /\ Numbers(ms) \subseteq (1..sends) \ Ended
      /\ slaves[r].queue \in Seq(Mail) /\ Q[r] = slaves[r].queue /\ wire[r] \in Seq(Mail)
  BY <1>1, BookFacts
<1>4. /\ names' = [names EXCEPT ![x] = [value |-> r, queue |-> <<>>]]
      /\ DispatchNameQueue(r, ms)
      /\ UNCHANGED <<sends, alive, home, refused, told>>
  BY DEF UpdateName
<1>5. /\ names' = [y \in Names |-> names'[y]] /\ \A y \in Names : IsName(names'[y])
      /\ names'[x] = [value |-> r, queue |-> <<>>] /\ \A y \in Names \ {x} : names'[y] = names[y]
      /\ PutAt(NQ, NQ', x, <<>>) /\ PutAt(V, V', x, r)
  <2> DEFINE t == [value |-> r, queue |-> <<>>]
  <2>1. IsName(t) /\ t.queue = <<>> /\ t.value = r
    BY DEF IsName
  <2> HIDE DEF t
  <2>2. /\ names' = [y \in Names |-> names'[y]] /\ \A y \in Names : IsName(names'[y])
        /\ names'[x] = t /\ \A y \in Names \ {x} : names'[y] = names[y]
        /\ PutAt(NQ, NQ', x, t.queue) /\ PutAt(V, V', x, t.value)
    BY <1>1, <1>4, <2>1, NameChange DEF t
  <2> QED BY <2>1, <2>2 DEF t
<1>6. \A y \in Names : names'[y].queue # <<>> => names'[y].value = 0 /\ <<"Q", y>> \in told'
  BY <1>1, <1>4, <1>5 DEF ForCause
<1>7. b \in Seq(Mail) /\ Copy(ms, b) /\ Numbers(b) = Numbers(ms)
  BY <1>3, Relabel
<1> HIDE DEF ms, b
<1>8. CASE slaves[r].fd
  <2>1. SendRemote(r, b) /\ UNCHANGED slaves
    BY <1>4, <1>8 DEF DispatchNameQueue, b
  <2>2. Q' = Q /\ r \in Peers
    BY <1>1, <1>8, <2>1 DEF Q, Waiting, Peers
  <2>3. Shapes' /\ Waiting'
    BY <1>1, <1>4, <1>5, <2>1 DEF Shapes, Waiting, Waits
  <2>4. CASE alive[r] /\ PutAt(wire, wire', r, wire[r] \o b) /\ gone' = gone
    <3>1. Ended' = Ended
      BY <1>4, <2>4 DEF Ended
    <3>2. Good(NQ', Q, wire', V', sends, Ended)
      BY <1>2, <1>3, <1>5, <1>7, <2>4, NameToWire
    <3>3. Books'
      BY <1>1, <1>4, <2>2, <2>4, <3>1, <3>2 DEF Books
    <3>4. ForCause'
      BY <1>1, <1>4, <1>6, <2>1, <2>4 DEF ForCause
    <3> QED BY <2>3, <3>3, <3>4 DEF HarborIInv
  <2>5. CASE ~alive[r] /\ wire' = wire /\ gone' = gone \cup Numbers(b)
    <3>1. Ended' = Ended \cup Numbers(ms)
      BY <1>4, <1>7, <2>5 DEF Ended
    <3>2. Good(NQ', Q, wire, V', sends, Ended \cup Numbers(NQ[x]))
      BY <1>2, <1>5, NameDropped
    <3>3. Good(NQ', Q', wire', V', sends', Ended')
      BY <1>3, <1>4, <2>2, <2>5, <3>1, <3>2
    <3>4. home' \cap gone' = {} /\ refused' \cap (home' \cup gone') = {}
      BY <1>1, <1>3, <1>4, <1>7, <2>5 DEF Books, Ended
    <3>5. ForCause'
      BY <1>1, <1>4, <1>6, <2>1, <2>2, <2>5 DEF ForCause
    <3> QED BY <2>3, <3>3, <3>4, <3>5 DEF HarborIInv, Books
  <2> QED BY <1>1, <2>1, <2>4, <2>5, Sent
<1>9. CASE ~slaves[r].fd
  <2> DEFINE t == [slaves[r] EXCEPT !.queue = slaves[r].queue \o ms]
  <2>1. slaves[r].status = "WAIT"
    BY <1>1, <1>9 DEF Waiting
  <2>2. slaves' = [slaves EXCEPT ![r] = t] /\ UNCHANGED <<wire, gone>>
    BY <1>4, <1>9, <2>1 DEF DispatchNameQueue
  <2>3. slaves[r].queue \o ms \in Seq(Mail)
    BY <1>3, Cat
  <2>4. Is(t, slaves[r].fd, slaves[r].queue \o ms, slaves[r].status)
    BY <1>1, <2>3, SlaveParts DEF Shapes
  <2> HIDE DEF t
  <2>5. PutAt(Q, Q', r, slaves[r].queue \o ms) /\ slaves'[r] = t
        /\ slaves' = [r2 \in HarborIds |-> slaves'[r2]]
        /\ (\A r2 \in HarborIds : IsSlave(slaves'[r2]))
        /\ \A r2 \in HarborIds \ {r} : slaves'[r2] = slaves[r2]
    <3>1. IsSlave(t) /\ t.queue = slaves[r].queue \o ms
      BY <2>4 DEF Is
    <3> QED BY <1>1, <2>2, <3>1, SlaveChange
  <2>6. Ended' = Ended
    BY <1>4, <2>2 DEF Ended
  <2>7. PutAt(Q, Q', r, Q[r] \o ms) /\ Copy(NQ[x], ms) /\ Numbers(ms) = Numbers(NQ[x])
    BY <1>3, <2>5, SameIsCopy
  <2>8. Good(NQ', Q', wire, V', sends, Ended)
    BY <1>2, <1>3, <1>5, <2>7, NameToQueue
  <2>9. Books'
    BY <1>1, <1>4, <2>2, <2>6, <2>8 DEF Books
  <2>10. Shapes'
    BY <1>1, <1>4, <1>5, <2>5 DEF Shapes
  <2>11. slaves'[r].fd = FALSE /\ slaves'[r].status = "WAIT"
    BY <1>1, <1>9, <2>1, <2>4, <2>5 DEF Is
  <2>12. Waiting'
    BY <1>1, <2>5, <2>11, HarborAssumption DEF Waiting, Waits
  <2>13. ForCause'
    BY <1>1, <1>4, <1>6, <2>2, <2>5, <2>11 DEF ForCause
  <2> QED BY <2>9, <2>10, <2>12, <2>13 DEF HarborIInv
<1> QED BY <1>8, <1>9

LEMMA ConnectToKeeps ==
  ASSUME HarborIInv, NEW r \in Peers, ConnectTo(r)
  PROVE  HarborIInv'
<1> DEFINE t == [slaves[r] EXCEPT !.fd = TRUE, !.status = "HANDSHAKE"]
<1>1. Shapes /\ Books /\ Waiting /\ ForCause /\ alive \in [HarborIds -> BOOLEAN]
  BY DEF HarborIInv, Shapes
<1>2. r \in HarborIds /\ slaves[r].queue \in Seq(Mail) /\ Q[r] = slaves[r].queue
  BY <1>1, BookFacts DEF Peers
<1>3. /\ slaves' = [slaves EXCEPT ![r] = t]
      /\ UNCHANGED <<names, sends, wire, alive, home, gone, refused, told>>
  BY DEF ConnectTo, outside
<1>4. Is(t, TRUE, slaves[r].queue, "HANDSHAKE")
  BY <1>1, <1>2, SlaveParts DEF Shapes
<1> HIDE DEF t
<1>5. /\ Shapes' /\ PutAt(Q, Q', r, slaves[r].queue)
      /\ Is(slaves'[r], TRUE, slaves[r].queue, "HANDSHAKE")
      /\ \A r2 \in HarborIds \ {r} : slaves'[r2] = slaves[r2]
  BY <1>1, <1>2, <1>3, <1>4, SlaveShapes
<1>6. Q' = Q
  BY <1>2, <1>5 DEF PutAt, Q
<1>7. NQ' = NQ /\ V' = V
  BY <1>3 DEF NQ, V
<1>8. Books'
  BY <1>1, <1>3, <1>6, <1>7, BooksIdle
<1>9. Waiting' /\ ForCause'
  BY <1>1, <1>3, <1>5, Settled
<1> QED BY <1>5, <1>8, <1>9 DEF HarborIInv

LEMMA AcceptKeeps ==
  ASSUME HarborIInv, NEW r \in Peers, Accept(r)
  PROVE  HarborIInv'
<1> DEFINE t == [slaves[r] EXCEPT !.fd = TRUE, !.status = "HEADER", !.queue = <<>>]
<1>1. Shapes /\ Books /\ Waiting /\ ForCause /\ alive \in [HarborIds -> BOOLEAN]
  BY DEF HarborIInv, Shapes
<1>2. r \in HarborIds /\ <<>> \in Seq(Mail)
  BY DEF Peers
<1>3. /\ slaves' = [slaves EXCEPT ![r] = t] /\ SendRemote(r, slaves[r].queue)
      /\ UNCHANGED <<names, sends, alive, home, refused, told>>
  BY DEF Accept
<1>4. Is(t, TRUE, <<>>, "HEADER")
  BY <1>1, <1>2, SlaveParts DEF Shapes
<1> HIDE DEF t
<1>5. /\ Shapes' /\ PutAt(Q, Q', r, <<>>)
      /\ Is(slaves'[r], TRUE, <<>>, "HEADER")
      /\ \A r2 \in HarborIds \ {r} : slaves'[r2] = slaves[r2]
  BY <1>1, <1>2, <1>3, <1>4, SlaveShapes
<1>6. Books' /\ (gone' = gone \/ ~alive[r])
  BY <1>3, <1>5, QueueSent
<1>7. Waiting' /\ ForCause'
  BY <1>1, <1>3, <1>5, <1>6, Settled
<1> QED BY <1>5, <1>6, <1>7 DEF HarborIInv

\* Whatever the parser finds, the socket stays and the queue does too, unless the
\* harbor is closed.
LEMMA Parsed ==
  ASSUME Shapes, NEW r \in HarborIds, NEW s, NEW fd, NEW kept, NEW st0, Is(s, fd, kept, st0),
         NEW size, ParseInto(r, s, size)
  PROVE  \E t, st :
           /\ slaves' = [slaves EXCEPT ![r] = t]
           /\ \/ Is(t, fd, <<>>, st) /\ alive' = [alive EXCEPT ![r] = FALSE]
              \/ Is(t, fd, kept, st) /\ alive' = alive
<1> DEFINE x == [status |-> s.status, read |-> s.read, count |-> forwarded[r]]
           p == Parse(Inbound[r])[<<x, size>>]
           t == [s EXCEPT !.status = p.status, !.read = p.read]
           u == [t EXCEPT !.status = "DOWN", !.queue = <<>>]
<1>1. IF p.status = "DOWN" THEN Close(r, t)
      ELSE slaves' = [slaves EXCEPT ![r] = t] /\ UNCHANGED alive
  BY DEF ParseInto
<1> HIDE DEF p
<1>2. IsSlave(s) /\ s.fd = fd /\ s.queue = kept /\ <<>> \in Seq(Mail)
  BY DEF Is
<1>3. Is(t, fd, kept, p.status)
  BY <1>2, SlaveParts
<1>4. Is(u, fd, <<>>, "DOWN")
  <2> HIDE DEF t
  <2>1. IsSlave(t) /\ t.fd = fd
    BY <1>3 DEF Is
  <2> QED BY <1>2, <2>1, SlaveParts
<1>5. CASE p.status = "DOWN"
  <2>1. slaves' = [slaves EXCEPT ![r] = u] /\ alive' = [alive EXCEPT ![r] = FALSE]
    BY <1>1, <1>5 DEF Close
  <2> HIDE DEF u
  <2> QED BY <1>4, <2>1
<1>6. CASE p.status # "DOWN"
  <2>1. slaves' = [slaves EXCEPT ![r] = t] /\ alive' = alive
    BY <1>1, <1>6
  <2> HIDE DEF t
  <2> QED BY <1>3, <2>1
<1> QED BY <1>5, <1>6

LEMMA Falls ==
  ASSUME alive \in [HarborIds -> BOOLEAN], NEW r \in HarborIds,
         alive' = alive \/ alive' = [alive EXCEPT ![r] = FALSE]
  PROVE  /\ alive' \in [HarborIds -> BOOLEAN]
         /\ \A r2 \in HarborIds : alive'[r2] => alive[r2]
OBVIOUS

LEMMA RightIdKeeps ==
  ASSUME HarborIInv, NEW r \in Peers, slaves[r].fd, NEW size, RightId(r, size),
         UNCHANGED <<names, sends, home, refused, told>>
  PROVE  HarborIInv'
<1> DEFINE s == [slaves[r] EXCEPT !.status = "HEADER", !.queue = <<>>]
<1>1. Shapes /\ Books /\ Waiting /\ ForCause /\ alive \in [HarborIds -> BOOLEAN]
  BY DEF HarborIInv, Shapes
<1>2. r \in HarborIds /\ <<>> \in Seq(Mail)
  BY DEF Peers
<1>3. SendRemote(r, slaves[r].queue) /\ ParseInto(r, s, size)
  BY DEF RightId
<1>4. Is(s, slaves[r].fd, <<>>, "HEADER")
  BY <1>1, <1>2, SlaveParts DEF Shapes
<1> HIDE DEF s
<1>5. slaves[r].fd = TRUE
  BY <1>1, <1>2 DEF Shapes, IsSlave
<1>6. PICK t, st : /\ slaves' = [slaves EXCEPT ![r] = t] /\ Is(t, TRUE, <<>>, st)
                   /\ alive' = alive \/ alive' = [alive EXCEPT ![r] = FALSE]
  BY <1>1, <1>2, <1>3, <1>4, <1>5, Parsed
<1>7. alive' \in [HarborIds -> BOOLEAN] /\ \A r2 \in HarborIds : alive'[r2] => alive[r2]
  BY <1>1, <1>2, <1>6, Falls
<1>8. /\ Shapes' /\ PutAt(Q, Q', r, <<>>)
      /\ Is(slaves'[r], TRUE, <<>>, st)
      /\ \A r2 \in HarborIds \ {r} : slaves'[r2] = slaves[r2]
  BY <1>1, <1>2, <1>6, <1>7, SlaveShapes
<1>9. Books' /\ (gone' = gone \/ ~alive[r])
  BY <1>3, <1>8, QueueSent
<1>10. gone' = gone \/ ~alive'[r]
  BY <1>2, <1>7, <1>9
<1>11. Waiting' /\ ForCause'
  BY <1>1, <1>7, <1>8, <1>10, Settled
<1> QED BY <1>8, <1>9, <1>11 DEF HarborIInv

LEMMA WrongIdKeeps ==
  ASSUME HarborIInv, NEW r \in Peers, slaves[r].fd, WrongId(r),
         UNCHANGED <<names, sends, home, refused, told>>
  PROVE  HarborIInv'
<1> DEFINE t == [slaves[r] EXCEPT !.status = "DOWN", !.queue = <<>>]
<1>1. Shapes /\ Books /\ Waiting /\ ForCause /\ alive \in [HarborIds -> BOOLEAN]
  BY DEF HarborIInv, Shapes
<1>2. /\ r \in HarborIds /\ <<>> \in Seq(Mail)
      /\ Q[r] = slaves[r].queue /\ Numbers(Q[r]) \subseteq (1..sends) \ Ended
  BY <1>1, BookFacts DEF Peers
<1>3. /\ slaves' = [slaves EXCEPT ![r] = t] /\ alive' = [alive EXCEPT ![r] = FALSE]
      /\ gone' = gone \cup Numbers(slaves[r].queue) /\ wire' = wire
  BY DEF WrongId, Close
<1>4. Is(t, slaves[r].fd, <<>>, "DOWN")
  BY <1>1, <1>2, SlaveParts DEF Shapes
<1> HIDE DEF t
<1>5. slaves[r].fd = TRUE
  BY <1>1, <1>2 DEF Shapes, IsSlave
<1>6. alive' \in [HarborIds -> BOOLEAN] /\ \A r2 \in HarborIds : alive'[r2] => alive[r2]
  BY <1>1, <1>2, <1>3, Falls
<1>7. /\ Shapes' /\ PutAt(Q, Q', r, <<>>)
      /\ Is(slaves'[r], TRUE, <<>>, "DOWN")
      /\ \A r2 \in HarborIds \ {r} : slaves'[r2] = slaves[r2]
  BY <1>1, <1>2, <1>3, <1>4, <1>5, <1>6, SlaveShapes
<1>8. Books'
  <2>1. Good(NQ, Q, wire, V, sends, Ended)
    BY <1>1 DEF Books
  <2>2. Good(NQ, Q', wire, V, sends, Ended \cup Numbers(Q[r]))
    BY <1>2, <1>7, <2>1, QueueDropped
  <2>3. NQ' = NQ /\ V' = V /\ Ended' = Ended \cup Numbers(Q[r])
    BY <1>2, <1>3 DEF NQ, V, Ended
  <2>4. Good(NQ', Q', wire', V', sends', Ended')
    BY <1>3, <2>2, <2>3
  <2>5. home' \cap gone' = {} /\ refused' \cap (home' \cup gone') = {}
    BY <1>1, <1>2, <1>3 DEF Books, Ended
  <2> QED BY <2>4, <2>5 DEF Books
<1>9. ~alive'[r]
  BY <1>1, <1>2, <1>3
<1>10. Waiting' /\ ForCause'
  BY <1>1, <1>6, <1>7, <1>9, Settled
<1> QED BY <1>7, <1>8, <1>10 DEF HarborIInv

LEMMA ReadOnKeeps ==
  ASSUME HarborIInv, NEW r \in Peers, slaves[r].fd, NEW size, ReadOn(r, size),
         UNCHANGED <<names, sends, home, refused, told>>
  PROVE  HarborIInv'
<1>1. Shapes /\ Books /\ Waiting /\ ForCause /\ alive \in [HarborIds -> BOOLEAN]
  BY DEF HarborIInv, Shapes
<1>2. r \in HarborIds /\ <<>> \in Seq(Mail) /\ Q[r] = slaves[r].queue
  BY <1>1, BookFacts DEF Peers
<1>3. /\ slaves[r].status \in {"HEADER", "CONTENT"} /\ ParseInto(r, slaves[r], size)
      /\ gone' = gone \cup (IF slaves'[r].status = "DOWN" THEN Numbers(slaves[r].queue) ELSE {})
      /\ wire' = wire
  BY DEF ReadOn
<1>4. slaves[r].queue = <<>> /\ Numbers(slaves[r].queue) = {}
  <2>1. slaves[r].queue = <<>>
    BY <1>1, <1>2, <1>3 DEF ForCause
  <2>2. Numbers(<<>>) = {}
    BY DEF Numbers, Range
  <2> QED BY <2>1, <2>2
<1>5. gone' = gone
  BY <1>3, <1>4
<1>6. Is(slaves[r], TRUE, <<>>, slaves[r].status)
  BY <1>1, <1>2, <1>4 DEF Shapes, IsSlave, Is
<1>7. PICK t, st : /\ slaves' = [slaves EXCEPT ![r] = t] /\ Is(t, TRUE, <<>>, st)
                   /\ alive' = alive \/ alive' = [alive EXCEPT ![r] = FALSE]
  <2>1. \E t, st :
          /\ slaves' = [slaves EXCEPT ![r] = t]
          /\ \/ Is(t, TRUE, <<>>, st) /\ alive' = [alive EXCEPT ![r] = FALSE]
             \/ Is(t, TRUE, <<>>, st) /\ alive' = alive
    BY <1>1, <1>2, <1>3, <1>6, Parsed
  <2> QED BY <2>1
<1>8. alive' \in [HarborIds -> BOOLEAN] /\ \A r2 \in HarborIds : alive'[r2] => alive[r2]
  BY <1>1, <1>2, <1>7, Falls
<1>9. /\ Shapes' /\ PutAt(Q, Q', r, <<>>)
      /\ Is(slaves'[r], TRUE, <<>>, st)
      /\ \A r2 \in HarborIds \ {r} : slaves'[r2] = slaves[r2]
  BY <1>1, <1>2, <1>7, <1>8, SlaveShapes
<1>10. NQ' = NQ /\ V' = V
  BY DEF NQ, V
<1>11. Q' = Q
  BY <1>2, <1>4, <1>9 DEF PutAt, Q
<1>12. Books'
  BY <1>1, <1>3, <1>5, <1>10, <1>11, BooksIdle
<1>13. Waiting' /\ ForCause'
  BY <1>1, <1>5, <1>8, <1>9, Settled
<1> QED BY <1>9, <1>12, <1>13 DEF HarborIInv

\* Steps that only open or close a socket, or tell the slave service.
LEMMA OutsideKeeps ==
  ASSUME HarborIInv, UNCHANGED <<slaves, names, sends, wire, home, gone, refused>>,
         told \subseteq told', NEW r \in HarborIds,
         alive' = alive \/ alive' = [alive EXCEPT ![r] = FALSE]
  PROVE  HarborIInv'
<1>1. Shapes /\ Books /\ Waiting /\ ForCause /\ alive \in [HarborIds -> BOOLEAN]
  BY DEF HarborIInv, Shapes
<1>2. alive' \in [HarborIds -> BOOLEAN] /\ \A r2 \in HarborIds : alive'[r2] => alive[r2]
  BY <1>1, Falls
<1>3. Q' = Q /\ NQ' = NQ /\ V' = V
  BY DEF Q, NQ, V
<1>4. Books'
  BY <1>1, <1>3, BooksIdle
<1>5. Shapes' /\ Waiting'
  BY <1>1, <1>2 DEF Shapes, Waiting, Waits
<1>6. ForCause'
  BY <1>1, <1>2 DEF ForCause, Peers
<1> QED BY <1>4, <1>5, <1>6 DEF HarborIInv

-----------------------------------------------------------------------------
(* The theorems.                                                           *)

LEMMA HarborStarts == HarborInit => HarborIInv
<1> SUFFICES ASSUME HarborInit PROVE HarborIInv
  OBVIOUS
<1>1. Self \in HarborIds /\ <<>> \in Seq(Mail)
  BY HarborAssumption
<1>2. /\ \A r \in HarborIds : slaves[r] = [fd |-> FALSE, queue |-> <<>>, status |-> "WAIT", read |-> 0]
      /\ \A x \in Names : names[x] = [value |-> 0, queue |-> <<>>]
  BY DEF HarborInit
<1>3. Shapes
  <2>1. \A r \in HarborIds : IsSlave(slaves[r])
    <3>1. IsSlave([fd |-> FALSE, queue |-> <<>>, status |-> "WAIT", read |-> 0])
      BY <1>1 DEF IsSlave
    <3> QED BY <1>2, <3>1
  <2>2. \A x \in Names : IsName(names[x])
    <3>1. IsName([value |-> 0, queue |-> <<>>])
      BY <1>1 DEF IsName
    <3> QED BY <1>2, <3>1
  <2>3. slaves = [r \in HarborIds |-> slaves[r]] /\ names = [x \in Names |-> names[x]]
    BY DEF HarborInit
  <2>4. alive \in [HarborIds -> BOOLEAN]
    BY DEF HarborInit
  <2> QED BY <2>1, <2>2, <2>3, <2>4 DEF Shapes
<1>4. /\ NQ = [x \in Names |-> <<>>] /\ Q = [r \in HarborIds |-> <<>>] /\ V = [x \in Names |-> 0]
      /\ wire = [r \in HarborIds |-> <<>>] /\ sends = 0 /\ Ended = {}
  BY <1>2 DEF HarborInit, NQ, Q, V, Ended
<1>5. Under(NQ, Q, wire, sends, Ended)
  <2>1. /\ NQ \in [Names -> Seq(Mail)] /\ Q \in [HarborIds -> Seq(Mail)]
        /\ wire \in [HarborIds -> Seq(Mail)]
    BY <1>1, <1>4
  <2>2. /\ DOMAIN Keep(NQ, Q, wire) = Holders
        /\ \A p \in Holders : Keep(NQ, Q, wire)[p] = <<>>
    <3>1. ASSUME NEW p \in Holders
          PROVE  Keep(NQ, Q, wire)[p] = <<>>
      BY <1>4, HolderKinds DEF Keep
    <3> QED BY <3>1 DEF Keep
  <2>3. Distinct(Keep(NQ, Q, wire))
    BY <2>2 DEF Distinct
  <2>4. AllNumbers(Keep(NQ, Q, wire)) = {}
    <3>1. Numbers(<<>>) = {}
      BY DEF Numbers, Range
    <3> QED BY <2>2, <3>1 DEF AllNumbers
  <2>5. (1..sends) \ Ended = {} /\ sends \in Nat /\ Ended \subseteq 1..sends
    BY <1>4
  <2> QED BY <2>1, <2>3, <2>4, <2>5 DEF Under
<1>6. Lines(Q, wire)
  BY <1>4, EmptyOrder DEF Lines
<1>7. Named(NQ, Q, wire, V)
  <2>1. \A x : InOrder(<<>>) /\ AllTo(<<>>, x) /\ NoneTo(<<>>, x)
    BY DEF InOrder, AllTo, NoneTo
  <2> QED BY <1>4, <2>1 DEF Named
<1>8. Books
  BY <1>5, <1>6, <1>7 DEF Books, Good, HarborInit
<1>9. Waiting /\ ForCause
  BY <1>1, <1>2 DEF Waiting, ForCause, HarborInit
<1> QED BY <1>3, <1>8, <1>9 DEF HarborIInv

LEMMA HarborSteps == HarborIInv /\ [HarborNext]_harborVars => HarborIInv'
<1> SUFFICES ASSUME HarborIInv, [HarborNext]_harborVars PROVE HarborIInv'
  OBVIOUS
<1>1. Self \in HarborIds /\ Peers \subseteq HarborIds
  BY HarborAssumption DEF Peers
<1>2. CASE UNCHANGED harborVars
  BY <1>1, <1>2, OutsideKeeps DEF harborVars, outside
<1>3. ASSUME NEW r \in Peers, SendHandle(r) \/ ConnectTo(r) \/ Accept(r)
      PROVE  HarborIInv'
  BY <1>3, SendHandleKeeps, ConnectToKeeps, AcceptKeeps
<1>4. ASSUME NEW r \in Peers, PushSocketData(r)
      PROVE  HarborIInv'
  <2>1. slaves[r].fd /\ UNCHANGED <<names, sends, home, refused, told>>
    BY <1>4 DEF PushSocketData
  <2>2. CASE \E size \in 0..MaxPiece : RightId(r, size) \/ ReadOn(r, size)
    BY <2>1, <2>2, RightIdKeeps, ReadOnKeeps
  <2>3. CASE WrongId(r)
    BY <2>1, <2>3, WrongIdKeeps
  <2> QED BY <1>4, <2>2, <2>3 DEF PushSocketData
<1>5. ASSUME NEW r \in Peers, SocketClosed(r) \/ Break(r)
      PROVE  HarborIInv'
  <2>1. /\ UNCHANGED <<slaves, names, sends, wire, home, gone, refused>>
        /\ told \subseteq told'
        /\ alive' = alive \/ alive' = [alive EXCEPT ![r] = FALSE]
    BY <1>5 DEF SocketClosed, Break
  <2> QED BY <1>1, <2>1, OutsideKeeps
<1>6. ASSUME NEW x \in Names, SendName(x) \/ \E r \in HarborIds : UpdateName(x, r)
      PROVE  HarborIInv'
  BY <1>6, SendNameKeeps, UpdateNameKeeps
<1> QED BY <1>2, <1>3, <1>4, <1>5, <1>6 DEF HarborNext

LEMMA HarborInvariant == HarborSpec => []HarborIInv
BY HarborStarts, HarborSteps, PTL DEF HarborSpec

\* Every message is in exactly one place and waits or is dropped for cause,
\* whatever the order of sending, naming, connecting, checking and breaking:
\* remote_send_handle, remote_send_name, dispatch_name_queue, dispatch_queue and
\* close_harbor hand the queues over whole.
THEOREM NothingForgotten == HarborSpec => []NoneForgotten
<1>1. HarborIInv => NoneForgotten
  <2> SUFFICES ASSUME HarborIInv PROVE NoneForgotten
    OBVIOUS
  <2>1. Books /\ ForCause
    BY DEF HarborIInv
  <2>2. Under(NQ, Q, wire, sends, Ended)
    BY <2>1 DEF Books, Good
  <2>3. Stores = Keep(NQ, Q, wire)
    BY HolderKinds DEF Stores, Keep, NQ, Q
  <2>4. DOMAIN Stores = Holders
    BY DEF Stores
  <2>5. /\ Distinct(Stores)
        /\ UNION {Numbers(Stores[p]) : p \in Holders} = (1..sends) \ Ended
    BY <2>2, <2>3, <2>4 DEF Under, AllNumbers
  <2> QED BY <2>1, <2>5 DEF NoneForgotten, OnePlace, Books, Ended
<1> QED BY <1>1, HarborInvariant, PTL

\* What was sent to one address goes out to a harbor in the order it was sent,
\* through the queues and past them.
THEOREM OrderIsKept == HarborSpec => []OrderKept
<1>1. HarborIInv => OrderKept
  BY DEF HarborIInv, Books, Good, Lines, OrderKept
<1> QED BY <1>1, HarborInvariant, PTL

-----------------------------------------------------------------------------
(* Incoming streams (Harbor).                                              *)

\* Induction, of a set of numbers.
LEMMA SetInduction ==
  ASSUME NEW S, 0 \in S, \A k \in Nat : k \in S => k + 1 \in S
  PROVE  \A k \in Nat : k \in S
<1> DEFINE T == {k \in Nat : k \notin S}
<1> SUFFICES ASSUME T # {} PROVE FALSE
  OBVIOUS
<1>1. IsWellFoundedOn(OpToRel(<, Nat), Nat)
  BY NatLessThanWellFounded
<1>2. PICK x \in T : \A y \in T : ~ (<<y, x>> \in OpToRel(<, Nat))
  BY <1>1, WFMin
<1>3. x # 0 /\ x \in Nat
  OBVIOUS
<1>4. x - 1 \in Nat /\ x - 1 \notin T
  <2>1. x - 1 \in Nat /\ x - 1 < x
    BY <1>3
  <2>2. <<x - 1, x>> \in OpToRel(<, Nat)
    BY <2>1, <1>3 DEF OpToRel
  <2> QED BY <2>1, <2>2, <1>2
<1>5. x - 1 \in S
  BY <1>4
<1> QED BY <1>3, <1>4, <1>5

\* The lengths of a stream.
Lengths == Seq(Nat \ {0})

\* Where its messages end: e[k] is the end of the first k.
EndStep(e, s, k) == IF k = 0 THEN 0 ELSE e[k - 1] + 4 + s[k]
IsEnds(e, s) == e = [k \in 0..Len(s) |-> EndStep(e, s, k)]

LEMMA EndsExist ==
  ASSUME NEW s \in Lengths
  PROVE  \E e : IsEnds(e, s)
<1> DEFINE D == 0..Len(s)
           P(m, e) == /\ e = [k \in D |-> e[k]]
                      /\ \A k \in D : k < m => e[k] = EndStep(e, s, k)
           S == {m \in Nat : \E e : P(m, e)}
<1>1. 0 \in S
  <2> DEFINE e == [k \in D |-> 0]
  <2>1. P(0, e)
    OBVIOUS
  <2> QED BY <2>1
<1>2. ASSUME NEW m \in Nat, m \in S
      PROVE  m + 1 \in S
  <2>1. PICK d : P(m, d)
    BY <1>2
  <2> DEFINE e == [k \in D |-> IF k < m THEN d[k] ELSE EndStep(d, s, k)]
  <2>2. \A k \in D : e[k] = EndStep(d, s, k)
    BY <2>1
  <2>3. \A k \in D : k < m => e[k] = d[k]
    OBVIOUS
  <2>4. e = [k \in D |-> e[k]]
    OBVIOUS
  <2> HIDE DEF e
  <2>5. ASSUME NEW k \in D, k < m + 1
        PROVE  e[k] = EndStep(e, s, k)
    <3>1. CASE k = 0
      BY <2>2, <3>1 DEF EndStep
    <3>2. CASE k # 0
      <4>1. k - 1 \in D /\ k - 1 < m
        BY <2>5, <3>2
      <4> QED BY <2>2, <2>3, <3>2, <4>1 DEF EndStep
    <3> QED BY <3>1, <3>2
  <2>6. P(m + 1, e)
    BY <2>4, <2>5
  <2> QED BY <2>6
<1> HIDE DEF S
<1>3. Len(s) + 1 \in S
  BY <1>1, <1>2, SetInduction DEF Lengths
<1>4. PICK e : P(Len(s) + 1, e)
  BY <1>3 DEF S
<1>5. \A k \in D : e[k] = EndStep(e, s, k)
  BY <1>4 DEF Lengths
<1>6. e = [k \in D |-> EndStep(e, s, k)]
  BY <1>4, <1>5
<1> QED BY <1>6 DEF IsEnds

\* The end of the first k messages of stream s.
End(s) == CHOOSE e : IsEnds(e, s)

LEMMA EndFacts ==
  ASSUME NEW s \in Lengths
  PROVE  /\ End(s)[0] = 0
         /\ \A k \in 1..Len(s) : End(s)[k] = End(s)[k - 1] + 4 + s[k]
         /\ \A k \in 0..Len(s) : End(s)[k] \in Nat
<1>1. PICK e : e = End(s)
  OBVIOUS
<1>2. IsEnds(e, s)
  BY <1>1, EndsExist DEF End
<1>3. \A k \in 0..Len(s) : e[k] = EndStep(e, s, k)
  BY <1>2 DEF IsEnds
<1>4. e[0] = 0 /\ \A k \in 1..Len(s) : e[k] = e[k - 1] + 4 + s[k]
  BY <1>3 DEF EndStep, Lengths
<1> DEFINE S == {k \in Nat : k <= Len(s) => e[k] \in Nat}
<1>5. 0 \in S
  BY <1>4
<1>6. ASSUME NEW k \in Nat, k \in S
      PROVE  k + 1 \in S
  <2>1. CASE k + 1 <= Len(s)
    <3>1. e[k] \in Nat /\ k + 1 \in 1..Len(s) /\ s[k + 1] \in Nat
      BY <1>6, <2>1 DEF Lengths
    <3>2. e[k + 1] = e[k] + 4 + s[k + 1]
      BY <1>4, <3>1
    <3> QED BY <3>1, <3>2
  <2>2. CASE ~(k + 1 <= Len(s))
    BY <2>2
  <2> QED BY <2>1, <2>2
<1> HIDE DEF S
<1>7. \A k \in Nat : k \in S
  BY <1>5, <1>6, SetInduction
<1>8. \A k \in 0..Len(s) : e[k] \in Nat
  BY <1>7 DEF S, Lengths
<1> QED BY <1>1, <1>4, <1>8

\* Later messages end later.
LEMMA EndsGrow ==
  ASSUME NEW s \in Lengths, NEW n \in 0..Len(s), NEW m \in 0..n
  PROVE  End(s)[m] <= End(s)[n]
<1>1. PICK e : e = End(s)
  OBVIOUS
<1>2. /\ \A k \in 1..Len(s) : e[k] = e[k - 1] + 4 + s[k]
      /\ \A k \in 0..Len(s) : e[k] \in Nat
  BY <1>1, EndFacts
<1> DEFINE S == {d \in Nat : m + d <= Len(s) => e[m] <= e[m + d]}
<1>3. 0 \in S
  <2>1. m + 0 = m /\ m \in 0..Len(s)
    BY DEF Lengths
  <2> QED BY <1>2, <2>1
<1>4. ASSUME NEW d \in Nat, d \in S
      PROVE  d + 1 \in S
  <2>1. CASE m + (d + 1) <= Len(s)
    <3>1. /\ m + d \in 0..Len(s) /\ m + (d + 1) \in 1..Len(s) /\ (m + (d + 1)) - 1 = m + d
          /\ s[m + (d + 1)] \in Nat /\ m \in 0..Len(s)
      BY <2>1 DEF Lengths
    <3>2. e[m] <= e[m + d]
      BY <1>4, <3>1
    <3>3. e[m + (d + 1)] = e[m + d] + 4 + s[m + (d + 1)]
      BY <1>2, <3>1
    <3>4. e[m] \in Nat /\ e[m + d] \in Nat
      BY <1>2, <3>1
    <3> QED BY <3>1, <3>2, <3>3, <3>4
  <2>2. CASE ~(m + (d + 1) <= Len(s))
    BY <2>2
  <2> QED BY <2>1, <2>2
<1> HIDE DEF S
<1>5. n - m \in S
  <2>1. n - m \in Nat
    BY DEF Lengths
  <2> QED BY <1>3, <1>4, <2>1, SetInduction
<1>6. m + (n - m) = n /\ n <= Len(s) /\ n - m \in Nat
  BY DEF Lengths
<1> QED BY <1>1, <1>5, <1>6 DEF S

LEMMA ExtentIs ==
  ASSUME NEW r \in HarborIds, NEW n
  PROVE  Inbound[r] \in Lengths /\ Extent(r, n) = End(Inbound[r])[n]
<1>1. Inbound[r] \in Lengths
  BY HarborAssumption DEF Lengths
<1>2. Extent(r, n) = End(Inbound[r])[n]
  BY DEF Extent, End, IsEnds, EndStep
<1> QED BY <1>1, <1>2

-----------------------------------------------------------------------------
(* What the parser makes of a piece of the stream.                         *)

\* One round of the loop in push_socket_data, q for the others.
Inputs == Parsers \X Nat

Round(q, s, u) ==
  LET p      == u[1]
      size   == u[2]
      length == s[p.count + 1]
      need   == (IF p.status = "HEADER" THEN 4 ELSE length) - p.read
  IN  IF size = 0 \/ p.status = "DOWN" \/ p.count >= Len(s) THEN p
      ELSE IF size < need THEN [p EXCEPT !.read = @ + size]
      ELSE q[<<Complete(p, length), size - need>>]

\* The rounds that may be left: two for each message.
Rounds(s, u) == 2 * (Len(s) - u[1].count) + (IF u[1].status = "HEADER" THEN 1 ELSE 0)

LEMMA CompleteFacts ==
  ASSUME NEW p \in Parsers, NEW length
  PROVE  /\ Complete(p, length) \in Parsers
         /\ p.status = "CONTENT" => Complete(p, length).status = "HEADER"
                                    /\ Complete(p, length).count = p.count + 1
                                    /\ Complete(p, length).read = 0
         /\ p.status # "CONTENT" =>
              /\ Complete(p, length).status = IF length > MaxFrame THEN "DOWN" ELSE "CONTENT"
              /\ Complete(p, length).count = p.count
              /\ Complete(p, length).read = 0
<1>1. CASE p.status = "CONTENT"
  BY <1>1 DEF Complete, Parsers
<1>2. CASE p.status # "CONTENT"
  <2>1. PICK st \in {"DOWN", "CONTENT"} : st = IF length > MaxFrame THEN "DOWN" ELSE "CONTENT"
    OBVIOUS
  <2>2. Complete(p, length) = [p EXCEPT !.status = st, !.read = 0]
    BY <1>2, <2>1 DEF Complete
  <2>3. /\ [p EXCEPT !.status = st, !.read = 0] \in Parsers
        /\ [p EXCEPT !.status = st, !.read = 0].status = st
        /\ [p EXCEPT !.status = st, !.read = 0].count = p.count
        /\ [p EXCEPT !.status = st, !.read = 0].read = 0
    BY DEF Parsers
  <2> QED BY <1>2, <2>1, <2>2, <2>3
<1> QED BY <1>1, <1>2

\* A round looks at inputs with fewer rounds left only.
LEMMA RoundSmaller ==
  ASSUME NEW s \in Lengths, NEW u \in Inputs, NEW q, NEW f,
         \A v \in Inputs : Rounds(s, v) < Rounds(s, u) => q[v] = f[v]
  PROVE  Round(q, s, u) = Round(f, s, u)
<1>1. PICK p \in Parsers, size \in Nat : u = <<p, size>>
  BY DEF Inputs
<1>2. u[1] = p /\ u[2] = size
  BY <1>1
<1>3. CASE size = 0 \/ p.status = "DOWN" \/ p.count >= Len(s)
  BY <1>2, <1>3 DEF Round
<1>4. CASE ~(size = 0 \/ p.status = "DOWN" \/ p.count >= Len(s))
  <2>0. p.count \in Nat /\ p.read \in Nat /\ p.status \in {"HEADER", "CONTENT", "DOWN"} /\ Len(s) \in Nat
    BY DEF Parsers, Lengths
  <2>1. PICK length : length = s[p.count + 1]
    OBVIOUS
  <2>2. length \in Nat
    BY <1>4, <2>0, <2>1 DEF Lengths
  <2>3. PICK need : need = (IF p.status = "HEADER" THEN 4 ELSE length) - p.read
    OBVIOUS
  <2>4. need \in Int
    BY <2>0, <2>2, <2>3
  <2>5. CASE size < need
    BY <1>2, <1>4, <2>1, <2>3, <2>5 DEF Round
  <2>6. CASE ~(size < need)
    <3>1. PICK c : c = Complete(p, length)
      OBVIOUS
    <3>2. c \in Parsers /\ size - need \in Nat
      BY <2>4, <2>6, <3>1, CompleteFacts
    <3>3. PICK v : v = <<c, size - need>>
      OBVIOUS
    <3>4. v \in Inputs /\ v[1] = c
      BY <3>2, <3>3 DEF Inputs
    <3>5. Rounds(s, v) < Rounds(s, u)
      <4>1. CASE p.status = "CONTENT"
        BY <1>2, <2>0, <3>1, <3>4, <4>1, CompleteFacts DEF Rounds
      <4>2. CASE p.status = "HEADER"
        <5>1. c.status # "HEADER" /\ c.count = p.count
          BY <3>1, <4>2, CompleteFacts
        <5> QED BY <1>2, <2>0, <3>4, <4>2, <5>1 DEF Rounds
      <4> QED BY <1>4, <2>0, <4>1, <4>2
    <3>6. q[v] = f[v]
      BY <3>4, <3>5
    <3> QED BY <1>2, <1>4, <2>1, <2>3, <2>6, <3>1, <3>3, <3>6 DEF Round
  <2> QED BY <2>5, <2>6
<1> QED BY <1>3, <1>4

LEMMA RoundsExist ==
  ASSUME NEW s \in Lengths
  PROVE  \E q : q = [u \in Inputs |-> Round(q, s, u)]
<1> DEFINE P(m, q) == /\ q = [u \in Inputs |-> q[u]]
                      /\ \A u \in Inputs : Rounds(s, u) < m => q[u] = Round(q, s, u)
           S == {m \in Nat : \E q : P(m, q)}
<1>0. \A u \in Inputs : /\ u[1].count \in Nat /\ Len(s) \in Nat /\ Rounds(s, u) \in Int
                        /\ Rounds(s, u) < 2 * Len(s) + 2
                        /\ Rounds(s, u) < 0 => u[1].count >= Len(s)
  BY DEF Inputs, Parsers, Lengths, Rounds
<1>1. 0 \in S
  <2> DEFINE q == [u \in Inputs |-> u[1]]
  <2>1. ASSUME NEW u \in Inputs, Rounds(s, u) < 0
        PROVE  q[u] = Round(q, s, u)
    BY <1>0, <2>1 DEF Round
  <2>2. q = [u \in Inputs |-> q[u]]
    OBVIOUS
  <2> QED BY <2>1, <2>2
<1>2. ASSUME NEW m \in Nat, m \in S
      PROVE  m + 1 \in S
  <2>1. PICK f : P(m, f)
    BY <1>2
  <2> DEFINE q == [u \in Inputs |-> IF Rounds(s, u) < m THEN f[u] ELSE Round(f, s, u)]
  <2>2. \A u \in Inputs : q[u] = Round(f, s, u)
    BY <2>1
  <2>3. \A u \in Inputs : Rounds(s, u) < m => q[u] = f[u]
    OBVIOUS
  <2>4. q = [u \in Inputs |-> q[u]]
    OBVIOUS
  <2> HIDE DEF q
  <2>5. ASSUME NEW u \in Inputs, Rounds(s, u) < m + 1
        PROVE  q[u] = Round(q, s, u)
    <3>1. ASSUME NEW v \in Inputs, Rounds(s, v) < Rounds(s, u) PROVE f[v] = q[v]
      <4>1. Rounds(s, v) < m
        BY <1>0, <2>5, <3>1
      <4> QED BY <2>3, <4>1
    <3>2. Round(f, s, u) = Round(q, s, u)
      BY <3>1, RoundSmaller
    <3> QED BY <2>2, <3>2
  <2>6. P(m + 1, q)
    BY <2>4, <2>5
  <2> QED BY <2>6
<1> HIDE DEF S
<1>3. 2 * Len(s) + 2 \in S
  <2>1. 2 * Len(s) + 2 \in Nat
    BY DEF Lengths
  <2> QED BY <1>1, <1>2, <2>1, SetInduction
<1>4. PICK q : P(2 * Len(s) + 2, q)
  BY <1>3 DEF S
<1>5. \A u \in Inputs : q[u] = Round(q, s, u)
  BY <1>0, <1>4
<1>6. q = [u \in Inputs |-> Round(q, s, u)]
  BY <1>4, <1>5
<1> QED BY <1>6

LEMMA ParseIs ==
  ASSUME NEW s \in Lengths
  PROVE  \A u \in Inputs : Parse(s)[u] = Round(Parse(s), s, u)
<1>1. PICK q : q = CHOOSE f : f = [u \in Inputs |-> Round(f, s, u)]
  OBVIOUS
<1>2. q = [u \in Inputs |-> Round(q, s, u)]
  BY <1>1, RoundsExist
<1>3. Parse(s) = q
  BY <1>1 DEF Parse, Round, Inputs
<1>4. \A u \in Inputs : q[u] = Round(q, s, u)
  BY <1>2
<1> QED BY <1>3, <1>4

-----------------------------------------------------------------------------
(* So it passes on the messages that are complete.                         *)

\* How far in the stream a parser is, and what is right for it then.
At(s, p) == End(s)[p.count] + (IF p.status = "CONTENT" THEN 4 ELSE 0) + p.read

Short(s, n) == \A k \in 1..n : s[k] <= MaxFrame

Reading(s, p) ==
  /\ p \in Parsers /\ p.status \in {"HEADER", "CONTENT"}
  /\ p.count <= Len(s) /\ Short(s, p.count)
  /\ p.status = "HEADER" => p.read < 4
  /\ p.status = "CONTENT" => /\ p.count < Len(s) /\ s[p.count + 1] <= MaxFrame
                             /\ p.read < s[p.count + 1]

\* The parser has met a message that is too long, at h or before.
Stuck(s, p, h) ==
  /\ p.status = "DOWN" /\ p.count \in Nat
  /\ p.count < Len(s) /\ Short(s, p.count) /\ s[p.count + 1] > MaxFrame
  /\ End(s)[p.count] <= h

Passed(s, p, h) == (Reading(s, p) /\ At(s, p) = h) \/ Stuck(s, p, h)

LEMMA ParseRight ==
  ASSUME NEW s \in Lengths, NEW p, Reading(s, p), NEW size \in Nat,
         At(s, p) + size <= End(s)[Len(s)]
  PROVE  Passed(s, Parse(s)[<<p, size>>], At(s, p) + size)
<1> DEFINE Right(x, z) == Reading(s, x) /\ At(s, x) + z <= End(s)[Len(s)] =>
                            Passed(s, Parse(s)[<<x, z>>], At(s, x) + z)
           S == {m \in Nat : \A x \in Parsers, z \in Nat : Rounds(s, <<x, z>>) < m => Right(x, z)}
<1>0. /\ Len(s) \in Nat /\ MaxFrame \in Nat
      /\ \A k \in 1..Len(s) : s[k] \in Nat \ {0} /\ End(s)[k] = End(s)[k - 1] + 4 + s[k]
      /\ \A k \in 0..Len(s) : End(s)[k] \in Nat
  BY EndFacts, HarborAssumption DEF Lengths
<1> HIDE DEF Right, S
<1>1. ASSUME NEW x \in Parsers, NEW z \in Nat, Reading(s, x), At(s, x) + z <= End(s)[Len(s)],
             \A y \in Parsers, w \in Nat : Rounds(s, <<y, w>>) < Rounds(s, <<x, z>>) => Right(y, w)
      PROVE  Passed(s, Parse(s)[<<x, z>>], At(s, x) + z)
  <2>1. <<x, z>> \in Inputs /\ <<x, z>>[1] = x /\ <<x, z>>[2] = z
    BY DEF Inputs
  <2>2. Parse(s)[<<x, z>>] = Round(Parse(s), s, <<x, z>>)
    BY <2>1, ParseIs
  <2>3. PICK h : h = At(s, x)
    OBVIOUS
  <2>4. /\ x.count \in Nat /\ x.read \in Nat /\ x.status \in {"HEADER", "CONTENT"}
        /\ x.count <= Len(s) /\ x.count \in 0..Len(s)
    BY <1>0, <1>1 DEF Reading, Parsers
  <2>5. PICK b : b = End(s)[x.count]
    OBVIOUS
  <2>6. b \in Nat /\ h = b + (IF x.status = "CONTENT" THEN 4 ELSE 0) + x.read /\ h \in Nat
    BY <1>0, <2>3, <2>4, <2>5 DEF At
  <2>7. CASE z = 0
    <3>1. Parse(s)[<<x, z>>] = x
      BY <2>1, <2>2, <2>7 DEF Round
    <3>2. h + 0 = h
      BY <2>6
    <3> QED BY <1>1, <2>3, <2>7, <3>1, <3>2 DEF Passed
  <2>8. CASE z # 0 /\ x.count = Len(s)
    <3>1. h + z <= b
      BY <1>1, <2>3, <2>5, <2>8
    <3> QED BY <2>4, <2>6, <2>8, <3>1
  <2>9. CASE z # 0 /\ x.count < Len(s)
    <3>1. PICK length \in Nat \ {0} : length = s[x.count + 1]
      BY <1>0, <2>4, <2>9
    <3>2. End(s)[x.count + 1] = b + 4 + length
      <4>1. x.count + 1 \in 1..Len(s) /\ (x.count + 1) - 1 = x.count
        BY <1>0, <2>4, <2>9
      <4> QED BY <1>0, <2>5, <3>1, <4>1
    <3>3. PICK need \in Nat \ {0} : need = (IF x.status = "HEADER" THEN 4 ELSE length) - x.read
      BY <1>1, <2>4, <3>1 DEF Reading
    <3>4. ~(z = 0 \/ x.status = "DOWN" \/ x.count >= Len(s))
      BY <1>0, <2>4, <2>9
    <3>5. CASE z < need
      <4>1. PICK y : y = [x EXCEPT !.read = @ + z]
        OBVIOUS
      <4>2. Parse(s)[<<x, z>>] = y
        BY <2>1, <2>2, <3>1, <3>3, <3>4, <3>5, <4>1 DEF Round
      <4>3. /\ y \in Parsers /\ y.status = x.status /\ y.count = x.count
            /\ y.read = x.read + z
        BY <2>4, <4>1 DEF Parsers
      <4>4. At(s, y) = h + z
        BY <2>4, <2>5, <2>6, <4>3 DEF At
      <4>5. Reading(s, y)
        BY <1>1, <2>4, <3>1, <3>3, <3>5, <4>3 DEF Reading
      <4> QED BY <2>3, <4>2, <4>4, <4>5 DEF Passed
    <3>6. CASE ~(z < need)
      <4>1. PICK y : y = Complete(x, length)
        OBVIOUS
      <4>2. PICK w \in Nat : w = z - need
        BY <3>3, <3>6
      <4>3. Parse(s)[<<x, z>>] = Parse(s)[<<y, w>>]
        BY <2>1, <2>2, <3>1, <3>3, <3>4, <3>6, <4>1, <4>2 DEF Round
      <4>4. y \in Parsers
        BY <4>1, CompleteFacts
      <4>5. <<y, w>> \in Inputs /\ <<y, w>>[1] = y /\ <<y, w>>[2] = w
        BY <4>4 DEF Inputs
      <4>6. CASE x.status = "CONTENT"
        <5>1. y.status = "HEADER" /\ y.count = x.count + 1 /\ y.read = 0
          BY <4>1, <4>6, CompleteFacts
        <5>2. At(s, y) + w = h + z
          <6>1. At(s, y) = b + 4 + length
            BY <2>6, <3>1, <3>2, <5>1 DEF At
          <6>2. w = z - (length - x.read) /\ h = b + 4 + x.read
            BY <2>6, <3>3, <4>2, <4>6
          <6>3. b \in Nat /\ x.read \in Nat /\ length \in Nat
            BY <2>4, <2>6, <3>1
          <6>4. (b + 4 + length) + (z - (length - x.read)) = (b + 4 + x.read) + z
            BY <6>3
          <6> QED BY <6>1, <6>2, <6>4
        <5>3. Reading(s, y)
          <6>1. Short(s, x.count) /\ length <= MaxFrame
            BY <1>1, <3>1, <4>6 DEF Reading
          <6>2. Short(s, x.count + 1)
            BY <2>4, <3>1, <6>1 DEF Short
          <6> QED BY <1>0, <2>4, <2>9, <4>4, <5>1, <6>2 DEF Reading
        <5>4. Rounds(s, <<y, w>>) < Rounds(s, <<x, z>>)
          <6>1. Rounds(s, <<y, w>>) = 2 * (Len(s) - (x.count + 1)) + 1
            BY <4>5, <5>1 DEF Rounds
          <6>2. Rounds(s, <<x, z>>) = 2 * (Len(s) - x.count) + 0
            BY <2>1, <4>6 DEF Rounds
          <6>3. Len(s) \in Nat /\ x.count \in Nat
            BY <1>0, <2>4
          <6> QED BY <6>1, <6>2, <6>3
        <5>5. Right(y, w)
          BY <1>1, <4>4, <5>4
        <5> QED BY <1>1, <2>3, <4>3, <5>2, <5>3, <5>5 DEF Right
      <4>7. CASE x.status = "HEADER" /\ length <= MaxFrame
        <5>1. y.status = "CONTENT" /\ y.count = x.count /\ y.read = 0
          BY <1>0, <3>1, <4>1, <4>7, CompleteFacts
        <5>2. At(s, y) + w = h + z
          <6>1. At(s, y) = b + 4
            BY <2>5, <2>6, <5>1 DEF At
          <6>2. w = z - (4 - x.read) /\ h = b + x.read
            BY <2>6, <3>3, <4>2, <4>7
          <6>3. (b + 4) + (z - (4 - x.read)) = (b + x.read) + z
            BY <2>4, <2>6
          <6> QED BY <6>1, <6>2, <6>3
        <5>3. Reading(s, y)
          BY <1>1, <2>9, <3>1, <4>4, <4>7, <5>1 DEF Reading
        <5>4. Rounds(s, <<y, w>>) < Rounds(s, <<x, z>>)
          <6>1. Rounds(s, <<y, w>>) = 2 * (Len(s) - x.count) + 0
            BY <4>5, <5>1 DEF Rounds
          <6>2. Rounds(s, <<x, z>>) = 2 * (Len(s) - x.count) + 1
            BY <2>1, <4>7 DEF Rounds
          <6>3. Len(s) \in Nat /\ x.count \in Nat
            BY <1>0, <2>4
          <6> QED BY <6>1, <6>2, <6>3
        <5>5. Right(y, w)
          BY <1>1, <4>4, <5>4
        <5> QED BY <1>1, <2>3, <4>3, <5>2, <5>3, <5>5 DEF Right
      <4>8. CASE x.status = "HEADER" /\ ~(length <= MaxFrame)
        <5>1. y.status = "DOWN" /\ y.count = x.count
          BY <1>0, <3>1, <4>1, <4>8, CompleteFacts
        <5>2. Parse(s)[<<y, w>>] = y
          <6>1. Parse(s)[<<y, w>>] = Round(Parse(s), s, <<y, w>>)
            BY <4>5, ParseIs
          <6> QED BY <4>5, <5>1, <6>1 DEF Round
        <5>3. Stuck(s, y, h + z)
          <6>1. Short(s, y.count) /\ s[y.count + 1] > MaxFrame
            BY <1>0, <1>1, <3>1, <4>8, <5>1 DEF Reading
          <6>2. End(s)[y.count] <= h + z
            BY <2>4, <2>5, <2>6, <5>1
          <6> QED BY <2>4, <2>9, <5>1, <6>1, <6>2 DEF Stuck
        <5> QED BY <2>3, <4>3, <5>2, <5>3 DEF Passed
      <4> QED BY <2>4, <4>6, <4>7, <4>8
    <3> QED BY <3>5, <3>6
  <2> QED BY <1>0, <2>4, <2>7, <2>8, <2>9
<1>2. \A x \in Parsers, z \in Nat :
        Rounds(s, <<x, z>>) \in Int /\ (Reading(s, x) => Rounds(s, <<x, z>>) \in Nat)
  <2> SUFFICES ASSUME NEW x \in Parsers, NEW z \in Nat
               PROVE  Rounds(s, <<x, z>>) \in Int /\ (Reading(s, x) => Rounds(s, <<x, z>>) \in Nat)
    OBVIOUS
  <2>1. <<x, z>>[1] = x /\ x.count \in Nat
    BY DEF Parsers
  <2> QED BY <1>0, <2>1 DEF Rounds, Reading
<1>3. 0 \in S
  BY <1>2 DEF S, Right
<1>4. ASSUME NEW m \in Nat, m \in S
      PROVE  m + 1 \in S
  <2>1. ASSUME NEW x \in Parsers, NEW z \in Nat, Rounds(s, <<x, z>>) < m + 1
        PROVE  Right(x, z)
    <3>1. ASSUME NEW y \in Parsers, NEW w \in Nat, Rounds(s, <<y, w>>) < Rounds(s, <<x, z>>)
          PROVE  Right(y, w)
      <4>1. Rounds(s, <<y, w>>) < m
        BY <1>2, <2>1, <3>1
      <4> QED BY <1>4, <4>1 DEF S
    <3>2. Reading(s, x) /\ At(s, x) + z <= End(s)[Len(s)] =>
            Passed(s, Parse(s)[<<x, z>>], At(s, x) + z)
      BY <1>1, <3>1
    <3> QED BY <3>2 DEF Right
  <2> QED BY <2>1 DEF S
<1>5. p \in Parsers /\ Rounds(s, <<p, size>>) \in Nat
  BY <1>2 DEF Reading
<1>6. Rounds(s, <<p, size>>) + 1 \in S
  <2>1. Rounds(s, <<p, size>>) + 1 \in Nat
    BY <1>5
  <2> QED BY <1>3, <1>4, <2>1, SetInduction
<1>7. Right(p, size)
  <2>1. Rounds(s, <<p, size>>) < Rounds(s, <<p, size>>) + 1
    BY <1>5
  <2> QED BY <1>5, <1>6, <2>1 DEF S
<1> QED BY <1>7 DEF Right

-----------------------------------------------------------------------------
(* The invariant of the streams.                                           *)

\* The parser of harbor r.
Stage(r) == [status |-> slaves[r].status, read |-> slaves[r].read, count |-> forwarded[r]]

\* Nothing is read before the id is checked; then the parser is where the bytes that
\* were heard have got it to.
Framed(r) ==
  /\ slaves[r].status \in {"WAIT", "HANDSHAKE", "HEADER", "CONTENT", "DOWN"}
  /\ slaves[r].status \in {"WAIT", "HANDSHAKE"} =>
       heard[r] = 0 /\ forwarded[r] = 0 /\ slaves[r].read = 0
  /\ slaves[r].status \in {"HEADER", "CONTENT"} =>
       Reading(Inbound[r], Stage(r)) /\ At(Inbound[r], Stage(r)) = heard[r]
  /\ slaves[r].status = "DOWN" =>
       Stuck(Inbound[r], Stage(r), heard[r]) \/ (heard[r] = 0 /\ forwarded[r] = 0)

Framing ==
  /\ heard \in [HarborIds -> Nat] /\ forwarded \in [HarborIds -> Nat]
  /\ \A r \in HarborIds : Framed(r)

\* The parser, and what it has read, is what it was.
SameStage(r) ==
  /\ slaves'[r].status = slaves[r].status /\ slaves'[r].read = slaves[r].read
  /\ heard'[r] = heard[r] /\ forwarded'[r] = forwarded[r]

LEMMA FramedKept ==
  ASSUME NEW r, Framed(r), SameStage(r)
  PROVE  Framed(r)'
<1>1. Stage(r)' = Stage(r)
  BY DEF SameStage, Stage
<1> QED BY <1>1 DEF Framed, SameStage

\* One of the harbors, with the others as they were.
LEMMA FramingStep ==
  ASSUME Framing, NEW r \in HarborIds, Framed(r)',
         heard' \in [HarborIds -> Nat], forwarded' \in [HarborIds -> Nat],
         \A r2 \in HarborIds \ {r} : SameStage(r2)
  PROVE  Framing'
BY FramedKept DEF Framing

LEMMA FramingKept ==
  ASSUME Framing, UNCHANGED <<heard, forwarded>>,
         \A r \in HarborIds : slaves'[r].status = slaves[r].status
                              /\ slaves'[r].read = slaves[r].read
  PROVE  Framing'
BY FramedKept DEF Framing, SameStage

\* A parser at the beginning of the stream.
LEMMA Begins ==
  ASSUME NEW s \in Lengths, NEW p, p.status = "HEADER", p.read = 0, p.count = 0, p \in Parsers
  PROVE  Reading(s, p) /\ At(s, p) = 0
<1>1. End(s)[0] = 0 /\ Len(s) \in Nat
  BY EndFacts DEF Lengths
<1> QED BY <1>1 DEF Reading, At, Short

\* A piece of the stream is read.
LEMMA PieceRead ==
  ASSUME Framing, NEW r \in HarborIds, slaves = [x \in HarborIds |-> slaves[x]],
         NEW s, IsSlave(s), NEW size \in Nat, ParseInto(r, s, size),
         heard[r] + size <= Extent(r, Len(Inbound[r])),
         NEW at, at = [status |-> s.status, read |-> s.read, count |-> forwarded[r]],
         Reading(Inbound[r], at), At(Inbound[r], at) = heard[r]
  PROVE  Framing'
<1>1. PICK p : p = Parse(Inbound[r])[<<at, size>>]
  OBVIOUS
<1>2. Inbound[r] \in Lengths /\ Extent(r, Len(Inbound[r])) = End(Inbound[r])[Len(Inbound[r])]
  BY ExtentIs
<1>3. Passed(Inbound[r], p, heard[r] + size)
  BY <1>1, <1>2, ParseRight
<1>4. PICK t : t = [s EXCEPT !.status = p.status, !.read = p.read]
  OBVIOUS
<1>5. /\ forwarded' = [forwarded EXCEPT ![r] = p.count]
      /\ heard' = [heard EXCEPT ![r] = @ + size]
      /\ IF p.status = "DOWN" THEN Close(r, t)
         ELSE slaves' = [slaves EXCEPT ![r] = t] /\ UNCHANGED alive
  BY <1>1, <1>4 DEF ParseInto
<1>6. t.status = p.status /\ t.read = p.read /\ IsSlave(t)
  BY <1>4 DEF IsSlave
<1>7. /\ slaves'[r].status = p.status /\ slaves'[r].read = p.read
      /\ \A r2 \in HarborIds \ {r} : slaves'[r2] = slaves[r2]
  <2>1. PICK u : u = [t EXCEPT !.status = "DOWN", !.queue = <<>>]
    OBVIOUS
  <2>2. u.status = "DOWN" /\ u.read = t.read
    BY <1>6, <2>1 DEF IsSlave
  <2>3. slaves' = [slaves EXCEPT ![r] = IF p.status = "DOWN" THEN u ELSE t]
    BY <1>5, <2>1 DEF Close
  <2> QED BY <1>6, <2>2, <2>3
<1>8. p.count \in Nat
  BY <1>3 DEF Passed, Reading, Parsers, Stuck
<1>9. /\ heard' \in [HarborIds -> Nat] /\ forwarded' \in [HarborIds -> Nat]
      /\ heard'[r] = heard[r] + size /\ forwarded'[r] = p.count
      /\ \A r2 \in HarborIds \ {r} : heard'[r2] = heard[r2] /\ forwarded'[r2] = forwarded[r2]
  BY <1>5, <1>8 DEF Framing
<1>10. PICK q : q = Stage(r)'
  OBVIOUS
<1>11. q = [status |-> p.status, read |-> p.read, count |-> p.count]
  BY <1>7, <1>9, <1>10 DEF Stage
<1>12. q.status = p.status /\ q.read = p.read /\ q.count = p.count
  BY <1>11
<1>13. CASE Reading(Inbound[r], p) /\ At(Inbound[r], p) = heard[r] + size
  <2>1. q \in Parsers
    BY <1>11, <1>13 DEF Reading, Parsers
  <2>2. Reading(Inbound[r], q) /\ At(Inbound[r], q) = heard[r] + size
    BY <1>12, <1>13, <2>1 DEF Reading, At
  <2>3. p.status \in {"HEADER", "CONTENT"}
    BY <1>13 DEF Reading
  <2>4. Framed(r)'
    BY <1>7, <1>9, <1>10, <2>2, <2>3 DEF Framed
  <2> QED BY <1>7, <1>9, <2>4, FramingStep DEF SameStage
<1>14. CASE Stuck(Inbound[r], p, heard[r] + size)
  <2>1. Stuck(Inbound[r], q, heard[r] + size) /\ p.status = "DOWN"
    BY <1>12, <1>14 DEF Stuck
  <2>2. Framed(r)'
    BY <1>7, <1>9, <1>10, <2>1 DEF Framed
  <2> QED BY <1>7, <1>9, <2>2, FramingStep DEF SameStage
<1> QED BY <1>3, <1>13, <1>14 DEF Passed

\* Only queues change.
LEMMA QueueOnly ==
  ASSUME Shapes, \/ slaves' = slaves
                 \/ \E r \in HarborIds : \E ms : slaves' = [slaves EXCEPT ![r].queue = ms]
  PROVE  \A r \in HarborIds : slaves'[r].status = slaves[r].status
                              /\ slaves'[r].read = slaves[r].read
<1>1. CASE slaves' = slaves
  BY <1>1
<1>2. ASSUME NEW r \in HarborIds, NEW ms, slaves' = [slaves EXCEPT ![r].queue = ms],
             NEW r2 \in HarborIds
      PROVE  slaves'[r2].status = slaves[r2].status /\ slaves'[r2].read = slaves[r2].read
  <2>1. PICK s : s = slaves[r]
    OBVIOUS
  <2>2. IsSlave(s)
    BY <2>1 DEF Shapes
  <2>3. [s EXCEPT !.queue = ms].status = s.status /\ [s EXCEPT !.queue = ms].read = s.read
    BY <2>2 DEF IsSlave
  <2>4. slaves' = [slaves EXCEPT ![r] = [s EXCEPT !.queue = ms]]
    BY <1>2, <2>1
  <2> QED BY <2>1, <2>3, <2>4 DEF Shapes
<1> QED BY <1>1, <1>2

LEMMA FramingSends ==
  ASSUME Shapes, Framing, NEW to, NEW r \in HarborIds, RemoteSend(to, r),
         UNCHANGED <<heard, forwarded>>
  PROVE  Framing'
<1>1. \/ slaves' = slaves
      \/ \E ms : slaves' = [slaves EXCEPT ![r].queue = ms]
  <2>1. CASE r # Self /\ Waits(slaves[r]) /\ slaves[r].status # "DOWN"
    BY <2>1 DEF RemoteSend
  <2>2. CASE ~(r # Self /\ Waits(slaves[r]) /\ slaves[r].status # "DOWN")
    BY <2>2 DEF RemoteSend
  <2> QED BY <2>1, <2>2
<1> QED BY <1>1, QueueOnly, FramingKept

\* A harbor that was waited for is connected, or its connection is refused.
LEMMA FramingConnects ==
  ASSUME Shapes, Waiting, Framing, NEW r \in HarborIds, ~slaves[r].fd, ConnectTo(r) \/ Accept(r)
  PROVE  Framing'
<1>1. PICK s : s = slaves[r]
  OBVIOUS
<1>2. /\ IsSlave(s) /\ s.status = "WAIT" /\ slaves = [x \in HarborIds |-> slaves[x]]
      /\ heard[r] = 0 /\ forwarded[r] = 0 /\ s.read = 0
  BY <1>1 DEF Shapes, Waiting, Framing, Framed
<1>3. /\ heard' = heard /\ forwarded' = forwarded
      /\ \E t : /\ slaves' = [slaves EXCEPT ![r] = t] /\ t.read = 0
                /\ t.status \in {"HANDSHAKE", "HEADER"}
  <2>1. CASE ConnectTo(r)
    <3>1. PICK t : t = [s EXCEPT !.fd = TRUE, !.status = "HANDSHAKE"]
      OBVIOUS
    <3>2. t.read = 0 /\ t.status = "HANDSHAKE"
      BY <1>2, <3>1 DEF IsSlave
    <3>3. slaves' = [slaves EXCEPT ![r] = t] /\ heard' = heard /\ forwarded' = forwarded
      BY <1>1, <2>1, <3>1 DEF ConnectTo
    <3> QED BY <3>2, <3>3
  <2>2. CASE Accept(r)
    <3>1. PICK t : t = [s EXCEPT !.fd = TRUE, !.status = "HEADER", !.queue = <<>>]
      OBVIOUS
    <3>2. t.read = 0 /\ t.status = "HEADER"
      BY <1>2, <3>1 DEF IsSlave
    <3>3. slaves' = [slaves EXCEPT ![r] = t] /\ heard' = heard /\ forwarded' = forwarded
      BY <1>1, <2>2, <3>1 DEF Accept
    <3> QED BY <3>2, <3>3
  <2> QED BY <2>1, <2>2
<1>4. PICK t : /\ slaves' = [slaves EXCEPT ![r] = t] /\ t.read = 0
               /\ t.status \in {"HANDSHAKE", "HEADER"}
  BY <1>3
<1>5. slaves'[r] = t /\ \A r2 \in HarborIds \ {r} : slaves'[r2] = slaves[r2]
  BY <1>2, <1>4
<1>6. PICK q : q = Stage(r)'
  OBVIOUS
<1>7. q = [status |-> t.status, read |-> 0, count |-> 0]
  BY <1>2, <1>3, <1>4, <1>5, <1>6 DEF Stage
<1>8. q.status = t.status /\ q.read = 0 /\ q.count = 0
  BY <1>7
<1>9. Framed(r)'
  <2>1. CASE t.status = "HEADER"
    <3>1. q \in Parsers
      BY <1>7, <2>1 DEF Parsers
    <3>2. Reading(Inbound[r], q) /\ At(Inbound[r], q) = 0
      BY <1>8, <2>1, <3>1, Begins, ExtentIs
    <3> QED BY <1>2, <1>3, <1>5, <1>6, <2>1, <3>2 DEF Framed
  <2>2. CASE t.status = "HANDSHAKE"
    BY <1>2, <1>3, <1>4, <1>5, <2>2 DEF Framed
  <2> QED BY <1>4, <2>1, <2>2
<1> QED BY <1>3, <1>5, <1>9, FramingStep DEF Framing, SameStage

LEMMA FramingReads ==
  ASSUME Shapes, Framing, NEW r \in HarborIds, PushSocketData(r)
  PROVE  Framing'
<1>0. /\ slaves = [x \in HarborIds |-> slaves[x]] /\ IsSlave(slaves[r])
      /\ heard[r] \in Nat /\ heard \in [HarborIds -> Nat] /\ Framed(r)
  BY DEF Shapes, Framing
<1>1. ASSUME NEW size \in 0..MaxPiece, heard[r] + size <= Extent(r, Len(Inbound[r])), RightId(r, size)
      PROVE  Framing'
  <2>1. PICK s : s = [slaves[r] EXCEPT !.status = "HEADER", !.queue = <<>>]
    OBVIOUS
  <2>2. slaves[r].read = 0 /\ heard[r] = 0 /\ forwarded[r] = 0 /\ ParseInto(r, s, size)
    BY <1>0, <1>1, <2>1 DEF RightId, Framed
  <2>3. s.status = "HEADER" /\ s.read = 0
    BY <1>0, <2>1, <2>2 DEF IsSlave
  <2>4. IsSlave(s)
    <3>1. <<>> \in Seq(Mail)
      OBVIOUS
    <3> QED BY <1>0, <2>1, <2>3, <3>1 DEF IsSlave
  <2>5. PICK at : at = [status |-> s.status, read |-> s.read, count |-> forwarded[r]]
    OBVIOUS
  <2>6. at \in Parsers /\ at.status = "HEADER" /\ at.read = 0 /\ at.count = 0
    BY <2>2, <2>3, <2>5 DEF Parsers
  <2>7. Reading(Inbound[r], at) /\ At(Inbound[r], at) = heard[r]
    BY <2>2, <2>6, Begins, ExtentIs
  <2>8. size \in Nat
    OBVIOUS
  <2> QED BY <1>0, <1>1, <2>2, <2>4, <2>5, <2>7, <2>8, PieceRead
<1>2. ASSUME NEW size \in 0..MaxPiece, heard[r] + size <= Extent(r, Len(Inbound[r])), ReadOn(r, size)
      PROVE  Framing'
  <2>1. /\ slaves[r].status \in {"HEADER", "CONTENT"} /\ ParseInto(r, slaves[r], size)
        /\ size \in Nat
    BY <1>2 DEF ReadOn
  <2>2. Reading(Inbound[r], Stage(r)) /\ At(Inbound[r], Stage(r)) = heard[r]
    BY <1>0, <2>1 DEF Framed
  <2> QED BY <1>0, <1>2, <2>1, <2>2, PieceRead DEF Stage
<1>3. CASE WrongId(r)
  <2>1. PICK t : t = [slaves[r] EXCEPT !.status = "DOWN", !.queue = <<>>]
    OBVIOUS
  <2>2. t.status = "DOWN"
    BY <1>0, <2>1 DEF IsSlave
  <2>3. /\ slaves' = [slaves EXCEPT ![r] = t] /\ heard' = heard /\ forwarded' = forwarded
        /\ slaves[r].status = "HANDSHAKE"
    BY <1>3, <2>1 DEF WrongId, Close
  <2>4. slaves'[r] = t /\ \A r2 \in HarborIds \ {r} : slaves'[r2] = slaves[r2]
    BY <1>0, <2>3
  <2>5. Framed(r)'
    BY <1>0, <2>2, <2>3, <2>4 DEF Framed
  <2> QED BY <2>3, <2>4, <2>5, FramingStep DEF Framing, SameStage
<1> QED BY <1>1, <1>2, <1>3 DEF PushSocketData

LEMMA FramingSteps == HarborIInv /\ Framing /\ [HarborNext]_harborVars => Framing'
<1> SUFFICES ASSUME HarborIInv, Framing, [HarborNext]_harborVars PROVE Framing'
  OBVIOUS
<1>1. Shapes /\ Waiting /\ Peers \subseteq HarborIds
  BY DEF HarborIInv, Peers
<1>2. CASE UNCHANGED harborVars
  BY <1>2, FramingKept DEF harborVars
<1>3. ASSUME NEW r \in Peers, SendHandle(r)
      PROVE  Framing'
  BY <1>1, <1>3, FramingSends DEF SendHandle
<1>4. ASSUME NEW r \in Peers, ConnectTo(r) \/ Accept(r)
      PROVE  Framing'
  <2>1. ~slaves[r].fd
    BY <1>4 DEF ConnectTo, Accept
  <2> QED BY <1>1, <1>4, <2>1, FramingConnects
<1>5. ASSUME NEW r \in Peers, PushSocketData(r)
      PROVE  Framing'
  BY <1>1, <1>5, FramingReads
<1>6. ASSUME NEW r \in Peers, SocketClosed(r) \/ Break(r)
      PROVE  Framing'
  BY <1>6, FramingKept DEF SocketClosed, Break
<1>7. ASSUME NEW x \in Names, SendName(x)
      PROVE  Framing'
  <2>0. heard' = heard /\ forwarded' = forwarded
    BY <1>7 DEF SendName
  <2>1. CASE names[x].value = 0
    BY <1>7, <2>0, <2>1, FramingKept DEF SendName
  <2>2. CASE names[x].value # 0
    <3>1. RemoteSend(x, names[x].value)
      BY <1>7, <2>2 DEF SendName
    <3>2. names[x].value \in HarborIds
      BY <1>1, <2>2 DEF Shapes, IsName
    <3> QED BY <1>1, <2>0, <3>1, <3>2, FramingSends
  <2> QED BY <2>1, <2>2
<1>8. ASSUME NEW x \in Names, NEW r \in HarborIds, UpdateName(x, r)
      PROVE  Framing'
  <2>1. heard' = heard /\ forwarded' = forwarded /\ DispatchNameQueue(r, names[x].queue)
    BY <1>8 DEF UpdateName
  <2>2. slaves' = slaves \/ \E ms : slaves' = [slaves EXCEPT ![r].queue = ms]
    <3>1. CASE slaves[r].fd \/ slaves[r].status = "DOWN"
      BY <2>1, <3>1 DEF DispatchNameQueue
    <3>2. CASE ~(slaves[r].fd \/ slaves[r].status = "DOWN")
      BY <2>1, <3>2 DEF DispatchNameQueue
    <3> QED BY <3>1, <3>2
  <2> QED BY <1>1, <2>1, <2>2, QueueOnly, FramingKept
<1> QED BY <1>2, <1>3, <1>4, <1>5, <1>6, <1>7, <1>8 DEF HarborNext

LEMMA FramingStarts == HarborInit => Framing
BY DEF HarborInit, Framing, Framed

\* What the parser has passed on is what is complete.
LEMMA WholeFrames ==
  ASSUME Framing, NEW r \in HarborIds
  PROVE  forwarded[r] = Cardinality({n \in DOMAIN Inbound[r] :
                                       /\ Extent(r, n) <= heard[r]
                                       /\ \A k \in 1..n : Inbound[r][k] <= MaxFrame})
<1> DEFINE s == Inbound[r]
           c == forwarded[r]
           K == {n \in DOMAIN s : /\ Extent(r, n) <= heard[r]
                                  /\ \A k \in 1..n : s[k] <= MaxFrame}
<1>1. s \in Lengths /\ Len(s) \in Nat /\ DOMAIN s = 1..Len(s)
  BY ExtentIs DEF Lengths
<1>2. \A n : Extent(r, n) = End(s)[n]
  BY ExtentIs
<1>3. c \in Nat /\ heard[r] \in Nat /\ Framed(r) /\ Stage(r).count = c
  BY DEF Framing, Stage
<1>4. /\ End(s)[0] = 0
      /\ \A k \in 1..Len(s) : End(s)[k] = End(s)[k - 1] + 4 + s[k] /\ s[k] \in Nat \ {0}
      /\ \A k \in 0..Len(s) : End(s)[k] \in Nat
  BY <1>1, EndFacts DEF Lengths
<1> HIDE DEF s, c, K
<1>5. /\ c <= Len(s) /\ Short(s, c) /\ End(s)[c] <= heard[r]
      /\ c < Len(s) => heard[r] < End(s)[c + 1] \/ s[c + 1] > MaxFrame
  <2>1. CASE slaves[r].status \in {"WAIT", "HANDSHAKE"} \/ (heard[r] = 0 /\ c = 0)
    <3>1. heard[r] = 0 /\ c = 0
      BY <1>3, <2>1 DEF Framed, c
    <3>2. c < Len(s) => heard[r] < End(s)[c + 1]
      BY <1>1, <1>4, <3>1
    <3> QED BY <1>1, <1>4, <3>1, <3>2 DEF Short
  <2>2. CASE slaves[r].status \in {"HEADER", "CONTENT"}
    <3>1. PICK p : p = Stage(r)
      OBVIOUS
    <3>2. Reading(s, p) /\ At(s, p) = heard[r] /\ p.count = c
      BY <1>3, <2>2, <3>1 DEF Framed, s
    <3>3. c <= Len(s) /\ Short(s, c) /\ End(s)[c] \in Nat /\ p.read \in Nat
      BY <1>3, <1>4, <3>2 DEF Reading, Parsers
    <3>4. ASSUME c < Len(s) PROVE End(s)[c + 1] = End(s)[c] + 4 + s[c + 1] /\ s[c + 1] \in Nat \ {0}
      <4>1. c + 1 \in 1..Len(s) /\ (c + 1) - 1 = c
        BY <1>1, <1>3, <3>4
      <4> QED BY <1>4, <4>1
    <3>5. CASE p.status = "HEADER"
      BY <3>2, <3>3, <3>4, <3>5 DEF Reading, At
    <3>6. CASE p.status = "CONTENT"
      BY <3>2, <3>3, <3>4, <3>6 DEF Reading, At
    <3> QED BY <3>2, <3>5, <3>6 DEF Reading
  <2>3. CASE Stuck(s, Stage(r), heard[r])
    BY <1>3, <2>3 DEF Stuck
  <2> QED BY <1>3, <2>1, <2>2, <2>3 DEF Framed, s, c
<1>6. K = 1..c
  <2>1. ASSUME NEW n \in 1..c
        PROVE  n \in K
    <3>1. n \in 1..Len(s) /\ c \in 0..Len(s) /\ n \in 0..c
      BY <1>1, <1>3, <1>5
    <3>2. End(s)[n] <= End(s)[c] /\ End(s)[n] \in Nat /\ End(s)[c] \in Nat
      BY <1>1, <1>4, <3>1, EndsGrow
    <3>3. End(s)[n] <= heard[r]
      BY <1>3, <1>5, <3>2
    <3>4. \A k \in 1..n : s[k] <= MaxFrame
      BY <1>5, <3>1 DEF Short
    <3> QED BY <1>1, <1>2, <3>1, <3>3, <3>4 DEF K
  <2>2. ASSUME NEW n \in K
        PROVE  n \in 1..c
    <3>1. n \in 1..Len(s) /\ End(s)[n] <= heard[r] /\ \A k \in 1..n : s[k] <= MaxFrame
      BY <1>1, <1>2 DEF K
    <3> SUFFICES ASSUME ~(n <= c) PROVE FALSE
      BY <1>3, <3>1
    <3>2. c < Len(s) /\ c + 1 \in 1..n /\ c + 1 \in 0..n /\ n \in 0..Len(s) /\ c + 1 \in 1..Len(s)
      BY <1>1, <1>3, <3>1
    <3>3. s[c + 1] <= MaxFrame /\ s[c + 1] \in Nat /\ MaxFrame \in Nat
      BY <1>4, <3>1, <3>2, HarborAssumption
    <3>4. heard[r] < End(s)[c + 1]
      BY <1>5, <3>2, <3>3
    <3>5. End(s)[c + 1] <= End(s)[n] /\ End(s)[c + 1] \in Nat /\ End(s)[n] \in Nat
      BY <1>1, <1>4, <3>2, EndsGrow
    <3> QED BY <1>3, <3>1, <3>4, <3>5
  <2> QED BY <2>1, <2>2
<1>7. Cardinality(1..c) = c
  <2>1. 1 \in Int /\ c \in Int /\ ~(1 > c + 1)
    BY <1>3
  <2>2. Cardinality(1..c) = IF 1 > c THEN 0 ELSE c - 1 + 1
    BY <2>1, FS_Interval
  <2> QED BY <1>3, <2>2
<1> QED BY <1>6, <1>7 DEF K, s, c

\* However the stream of a harbor is cut into socket messages, push_socket_data has
\* passed on exactly the messages that are complete, up to one that is too long: for
\* any number of messages of any lengths and pieces of any size.
THEOREM StreamsAreWhole == HarborSpec => []FramesWhole
<1>1. Framing => FramesWhole
  BY WholeFrames DEF FramesWhole
<1> QED BY <1>1, FramingStarts, FramingSteps, HarborInvariant, PTL DEF HarborSpec
=============================================================================
