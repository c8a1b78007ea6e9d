------------------------- MODULE SkynetActors_proofs -------------------------
(***************************************************************************)
(* Every mailbox is in one place, no wakeup is lost, no mailbox is used    *)
(* after it is freed, and no service runs twice at once; the scheduler     *)
(* implements the actors of module ActorMailbox, services are dispatched   *)
(* only when initialised, and the count of the contexts that CHECK_ABORT   *)
(* tests is right: for any number of services, workers and clients.        *)
(***************************************************************************)
EXTENDS SkynetRefs_proofs

-----------------------------------------------------------------------------
(* The global queue.                                                       *)

NoDup == \A i, j \in 1..Len(globalQ) : globalQ[i] = globalQ[j] => i = j

\* skynet_globalmq_push
LEMMA Pushed ==
  ASSUME globalQ \in Seq(Services), NEW x \in Services,
         globalQ' = Append(globalQ, x)
  PROVE  /\ \A s : InGlobalQ(s)' <=> InGlobalQ(s) \/ s = x
         /\ NoDup /\ ~InGlobalQ(x) => NoDup'
<1>1. /\ Len(globalQ) \in Nat /\ Len(globalQ') = Len(globalQ) + 1
      /\ globalQ'[Len(globalQ) + 1] = x
      /\ \A i \in 1..Len(globalQ) : globalQ'[i] = globalQ[i]
  OBVIOUS
<1>2. ASSUME NEW s
      PROVE  InGlobalQ(s)' <=> InGlobalQ(s) \/ s = x
  <2>1. ASSUME InGlobalQ(s)'
        PROVE  InGlobalQ(s) \/ s = x
    BY <1>1, <2>1 DEF InGlobalQ
  <2>2. ASSUME InGlobalQ(s)
        PROVE  InGlobalQ(s)'
    <3>1. PICK i \in 1..Len(globalQ) : globalQ[i] = s
      BY <2>2 DEF InGlobalQ
    <3>2. i \in 1..Len(globalQ') /\ globalQ'[i] = s
      BY <1>1, <3>1
    <3> QED BY <3>2 DEF InGlobalQ
  <2>3. ASSUME s = x
        PROVE  InGlobalQ(s)'
    <3>1. Len(globalQ) + 1 \in 1..Len(globalQ') /\ globalQ'[Len(globalQ) + 1] = s
      BY <1>1, <2>3
    <3> QED BY <3>1 DEF InGlobalQ
  <2> QED BY <2>1, <2>2, <2>3
<1>3. ASSUME NoDup, ~InGlobalQ(x)
      PROVE  NoDup'
  BY <1>1, <1>3 DEF NoDup, InGlobalQ
<1> QED BY <1>2, <1>3

\* skynet_globalmq_pop
LEMMA Popped ==
  ASSUME globalQ \in Seq(Services), globalQ # <<>>, globalQ' = Tail(globalQ)
  PROVE  /\ Head(globalQ) \in Services
         /\ \A s : InGlobalQ(s) <=> InGlobalQ(s)' \/ s = Head(globalQ)
         /\ NoDup => /\ NoDup'
                     /\ \A s : s = Head(globalQ) => ~InGlobalQ(s)'
<1>1. /\ Len(globalQ) \in Nat /\ Len(globalQ) > 0
      /\ Len(globalQ') = Len(globalQ) - 1
      /\ Head(globalQ) = globalQ[1] /\ Head(globalQ) \in Services
      /\ \A i \in 1..Len(globalQ') : globalQ'[i] = globalQ[i + 1]
  OBVIOUS
<1>2. ASSUME NEW s
      PROVE  InGlobalQ(s) <=> InGlobalQ(s)' \/ s = Head(globalQ)
  <2>1. ASSUME InGlobalQ(s)
        PROVE  InGlobalQ(s)' \/ s = Head(globalQ)
    <3>1. PICK i \in 1..Len(globalQ) : globalQ[i] = s
      BY <2>1 DEF InGlobalQ
    <3>2. CASE i = 1
      BY <1>1, <3>1, <3>2
    <3>3. CASE i # 1
      <4>1. i - 1 \in 1..Len(globalQ') /\ globalQ'[i - 1] = s
        BY <1>1, <3>1, <3>3
      <4> QED BY <4>1 DEF InGlobalQ
    <3> QED BY <3>2, <3>3
  <2>2. ASSUME InGlobalQ(s)'
        PROVE  InGlobalQ(s)
    <3>1. PICK i \in 1..Len(globalQ') : globalQ'[i] = s
      BY <2>2 DEF InGlobalQ
    <3>2. i + 1 \in 1..Len(globalQ) /\ globalQ[i + 1] = s
      BY <1>1, <3>1
    <3> QED BY <3>2 DEF InGlobalQ
  <2>3. ASSUME s = Head(globalQ)
        PROVE  InGlobalQ(s)
    <3>1. 1 \in 1..Len(globalQ) /\ globalQ[1] = s
      BY <1>1, <2>3
    <3> QED BY <3>1 DEF InGlobalQ
  <2> QED BY <2>1, <2>2, <2>3
<1>3. ASSUME NoDup
      PROVE  NoDup' /\ \A s : s = Head(globalQ) => ~InGlobalQ(s)'
  <2>1. NoDup'
    BY <1>1, <1>3 DEF NoDup
  <2>2. ASSUME NEW s, s = Head(globalQ), InGlobalQ(s)'
        PROVE  FALSE
    <3>1. PICK i \in 1..Len(globalQ') : globalQ'[i] = s
      BY <2>2 DEF InGlobalQ
    <3>2. i + 1 \in 1..Len(globalQ) /\ globalQ[i + 1] = globalQ[1] /\ i + 1 # 1
          /\ 1 \in 1..Len(globalQ)
      BY <1>1, <2>2, <3>1
    <3> QED BY <1>3, <3>2 DEF NoDup
  <2> QED BY <2>1, <2>2
<1> QED BY <1>1, <1>2, <1>3

-----------------------------------------------------------------------------
(* Where a mailbox is, seen from the thread t that moves.                  *)

\* The other threads keep what they have in hand.
OthersKeep(t) ==
  \A u \in Threads \ {t} :
    pc'[u] = pc[u] /\ q'[u] = q[u] /\ nq'[u] = nq[u] /\ new'[u] = new[u]

\* The mailbox of s is in the global queue or with t, or with another thread.
Mine(t, s)   == InGlobalQ(s) \/ Holds(t, s)
Theirs(t, s) == \E u \in Threads \ {t} : Holds(u, s)

\* The mailbox of s is in one place.
OnePlace(s) ==
  /\ InGlobalQ(s) => \A w \in Threads : ~Holds(w, s)
  /\ \A v, w \in Threads : Holds(v, s) /\ Holds(w, s) => v = w

\* It is flagged exactly while it is placed, and it is there while it is placed.
FlagOK(s) ==
  /\ mem[s] = "live" => (Placed(s) <=> inGlobal[s] = 1 \/ release[s] = 1)
  /\ Placed(s) => mem[s] = "live"

\* What keeps the mailbox of s in one place when t moves.
Moves(t, s) ==
  /\ ~(InGlobalQ(s)' /\ Holds(t, s)')
  /\ Mine(t, s)' => Mine(t, s) \/ ~Placed(s)

LEMMA PlaceMoves ==
  ASSUME NEW t \in Threads, OthersKeep(t), NEW s \in Services, OnePlace(s),
         Moves(t, s)
  PROVE  /\ OnePlace(s)'
         /\ Placed(s) <=> Mine(t, s) \/ Theirs(t, s)
         /\ Placed(s)' <=> Mine(t, s)' \/ Theirs(t, s)
         /\ ~(Mine(t, s) /\ Theirs(t, s))
<1>1. \A u \in Threads \ {t} : Holds(u, s)' <=> Holds(u, s)
  BY DEF OthersKeep, Holds
<1>2. Placed(s) <=> Mine(t, s) \/ Theirs(t, s)
  BY DEF Placed, Mine, Theirs
<1>3. Placed(s)' <=> Mine(t, s)' \/ Theirs(t, s)
  BY <1>1 DEF Placed, Mine, Theirs
<1>4. ~(Mine(t, s) /\ Theirs(t, s))
  BY DEF OnePlace, Mine, Theirs
<1>5. Mine(t, s)' => ~Theirs(t, s)
  BY <1>2, <1>4 DEF Moves
<1>6. OnePlace(s)'
  <2>1. ASSUME InGlobalQ(s)', NEW w \in Threads
        PROVE  ~Holds(w, s)'
    <3>1. CASE w = t
      BY <2>1, <3>1 DEF Moves
    <3>2. CASE w # t
      BY <1>1, <1>5, <2>1, <3>2 DEF Mine, Theirs
    <3> QED BY <3>1, <3>2
  <2>2. ASSUME NEW v \in Threads, NEW w \in Threads, Holds(v, s)', Holds(w, s)'
        PROVE  v = w
    <3>1. CASE v = t \/ w = t
      BY <1>1, <1>5, <2>2, <3>1 DEF Mine, Theirs
    <3>2. CASE v # t /\ w # t
      BY <1>1, <2>2, <3>2 DEF OnePlace
    <3> QED BY <3>1, <3>2
  <2> QED BY <2>1, <2>2 DEF OnePlace
<1> QED BY <1>2, <1>3, <1>4, <1>6

\* A step of t that leaves the mailbox of s where it is, or moves it between the
\* global queue and the hands of t.
Shifts(t, s) ==
  /\ ~(InGlobalQ(s)' /\ Holds(t, s)')
  /\ Mine(t, s)' <=> Mine(t, s)
  /\ mem'[s] = mem[s] /\ inGlobal'[s] = inGlobal[s] /\ release'[s] = release[s]

LEMMA ShiftKeeps ==
  ASSUME NEW t \in Threads, OthersKeep(t), NEW s \in Services, OnePlace(s),
         FlagOK(s), Shifts(t, s)
  PROVE  OnePlace(s)' /\ FlagOK(s)'
<1>1. Moves(t, s)
  BY DEF Shifts, Moves
<1>2. Placed(s)' <=> Placed(s)
  BY <1>1, PlaceMoves DEF Shifts
<1> QED BY <1>1, <1>2, PlaceMoves DEF Shifts, FlagOK

\* No mailbox is twice in a thread's hands.
HandsApart == \A w \in Threads : q[w] # NoOne => q[w] \notin {nq[w], new[w]}

\* The mailboxes are in order.
PlaceInv ==
  /\ NoDup /\ HandsApart
  /\ \A s \in Services : OnePlace(s) /\ FlagOK(s)

LEMMA PlaceIs ==
  MqInv => /\ PlaceInv
           /\ \A s \in Services : \A t \in Threads :
                op[t] \in {"push", "mark"} /\ arg[t] = s => mem[s] = "live"
BY DEF MqInv, PlaceInv, NoDup, HandsApart, OnePlace, FlagOK, ScheduledOnce,
   FlagMeansPlaced, MailboxSafe

\* A step that touches no flag and leaves everything where it is.
Still(t) ==
  /\ OthersKeep(t)
  /\ UNCHANGED <<mem, inGlobal, release, globalQ>>
  /\ \A s \in Services : Holds(t, s)' <=> Holds(t, s)

LEMMA StillKeeps ==
  ASSUME PlaceInv, NEW t \in Threads, Still(t), HandsApart'
  PROVE  PlaceInv'
<1>1. NoDup'
  BY DEF PlaceInv, NoDup, Still
<1>2. ASSUME NEW s \in Services
      PROVE  OnePlace(s)' /\ FlagOK(s)'
  <2>1. InGlobalQ(s)' <=> InGlobalQ(s)
    BY DEF Still, InGlobalQ
  <2>2. Shifts(t, s)
    BY <2>1 DEF Still, Shifts, Mine, PlaceInv, OnePlace
  <2> QED BY <2>2, ShiftKeeps DEF PlaceInv, Still
<1> QED BY <1>1, <1>2 DEF PlaceInv

\* The steps that leave every mailbox in its place.
LEMMA StillSteps ==
  ASSUME ThreadInv, HandsApart, NEW t \in Threads,
         \/ ContextRelease(t) \/ DeleteContext(t) \/ InitReturns(t)
         \/ InitFails(t) \/ SetInit(t) \/ Report(t) \/ FailRelease(t)
         \/ FailRetire(t) \/ Take(t) \/ CallbackReturns(t) \/ SizeBatch(t)
         \/ Return(t)
         \/ Bounce(t) \/ PopMessage(t) \/ DropMessage(t) \/ Publish(t)
         \/ (\E d \in Services : Send(t, d) \/ Kill(t, d))
  PROVE  Still(t) /\ HandsApart'
<1> USE DEF Still, OthersKeep, Holds, HandsApart, InLaunch
<1>0. RunTypeOK /\ OpTypeOK
  BY DEF ThreadInv, TypeOK
<1>1. CASE ContextRelease(t)
  BY <1>0, <1>1 DEF ContextRelease, mqVars, RunTypeOK
<1>2. CASE DeleteContext(t)
  BY <1>0, <1>2 DEF DeleteContext, mqVars, runVars, RunTypeOK
<1>3. CASE InitReturns(t)
  BY <1>0, <1>3 DEF InitReturns, Free, svcVars, mqVars, RunTypeOK
<1>4. CASE InitFails(t)
  BY <1>0, <1>4 DEF InitFails, Free, mqVars, RunTypeOK
<1>5. CASE SetInit(t)
  BY <1>0, <1>5 DEF SetInit, Free, mqVars, opVars, RunTypeOK
<1>6. CASE Report(t)
  BY <1>0, <1>6 DEF Report, mqVars, RunTypeOK
<1>7. CASE FailRelease(t)
  BY <1>0, <1>7 DEF FailRelease, Free, svcVars, mqVars, RunTypeOK
<1>8. CASE FailRetire(t)
  BY <1>0, <1>8 DEF FailRetire, Free, Retire, svcVars, mqVars, RunTypeOK
<1>9. CASE Take(t)
  BY <1>0, <1>9 DEF Take, mqVars, RunTypeOK
<1>10. CASE CallbackReturns(t) \/ SizeBatch(t)
  BY <1>0, <1>10 DEF CallbackReturns, SizeBatch, Free, svcVars, mqVars, opVars, RunTypeOK
<1>11. CASE Return(t)
  BY <1>0, <1>11 DEF Return, Free, svcVars, mqVars, opVars, RunTypeOK
<1>12. CASE Bounce(t)
  BY <1>0, <1>12 DEF Bounce, mqVars, RunTypeOK
<1>13. CASE PopMessage(t)
  BY <1>0, <1>13 DEF PopMessage, svcVars, opVars, RunTypeOK
<1>14. CASE DropMessage(t)
  BY <1>0, <1>14 DEF DropMessage, Free, svcVars, opVars, RunTypeOK
<1>15. CASE Publish(t)
  BY <1>0, <1>15 DEF Publish, mqVars, opVars, RunTypeOK
<1>16. CASE \E d \in Services : Send(t, d)
  BY <1>16 DEF Send, GrabToPush, mqVars, runVars
<1>17. CASE \E d \in Services : Kill(t, d)
  BY <1>17 DEF Kill, Retire, mqVars, runVars
<1> QED BY <1>1, <1>2, <1>3, <1>4, <1>5, <1>6, <1>7, <1>8, <1>9, <1>10, <1>11,
   <1>12, <1>13, <1>14, <1>15, <1>16, <1>17

\* A mailbox is marked only after everybody has let go of its service.
LEMMA Unsealed ==
  ASSUME MqInv, NEW s \in Services,
         Referenced(s) \/ \E t \in Threads : op[t] = "mark" /\ arg[t] = s
  PROVE  release[s] = 0 /\ ctx[s] = "live"
<1>1. ContextSafe /\ Seals /\ release[s] \in {0, 1}
  BY DEF MqInv, RefInv, ThreadInv, TypeOK, MqTypeOK
<1>2. ctx[s] = "live"
  BY <1>1 DEF ContextSafe, Deletes
<1>3. ASSUME NEW u \in Threads, op[u] = "free", arg[u] = s
      PROVE  FALSE
  BY <1>1, <1>3 DEF ContextSafe, Deletes
<1> QED BY <1>1, <1>2, <1>3 DEF Seals

\* skynet_mq_push: an unscheduled mailbox goes into the global queue, flagged.
LEMMA PushPlaces ==
  ASSUME MqInv, PlaceInv, NEW t \in Threads, MqPush(t)
  PROVE  PlaceInv'
<1>0. MqTypeOK /\ ThreadInv
  BY DEF MqInv, RefInv, ThreadInv, TypeOK
<1>1. PICK x \in Services : x = arg[t]
  BY <1>0, Local DEF MqPush
<1>2. mem[x] = "live"
  BY <1>1, PlaceIs DEF MqPush
<1>3. release[x] = 0
  <2>1. Referenced(x)
    BY <1>1 DEF MqPush, Referenced, Callers
  <2> QED BY <2>1, Unsealed
<1>4. /\ OthersKeep(t) /\ HandsApart'
      /\ \A s \in Services : Holds(t, s)' <=> Holds(t, s)
      /\ UNCHANGED <<mem, release>>
  BY DEF MqPush, runVars, OthersKeep, HandsApart, PlaceInv, Holds
<1>5. CASE inGlobal[x] # 0
  <2>1. Still(t)
    BY <1>1, <1>4, <1>5 DEF MqPush, Still
  <2> QED BY <1>4, <2>1, StillKeeps
<1>6. CASE inGlobal[x] = 0
  <2>1. globalQ' = Append(globalQ, x) /\ inGlobal' = [inGlobal EXCEPT ![x] = 1]
    BY <1>1, <1>6 DEF MqPush
  <2>2. ~Placed(x)
    BY <1>2, <1>3, <1>6 DEF PlaceInv, FlagOK
  <2>3. /\ \A s : InGlobalQ(s)' <=> InGlobalQ(s) \/ s = x
        /\ NoDup'
    BY <1>0, <2>1, <2>2, Pushed DEF MqTypeOK, PlaceInv, Placed
  <2>4. ASSUME NEW s \in Services, s # x
        PROVE  OnePlace(s)' /\ FlagOK(s)'
    <3>1. Shifts(t, s)
      BY <1>0, <1>4, <2>1, <2>3, <2>4 DEF Shifts, Mine, PlaceInv, OnePlace, MqTypeOK
    <3> QED BY <1>4, <3>1, ShiftKeeps DEF PlaceInv
  <2>5. OnePlace(x)' /\ FlagOK(x)'
    <3>1. Moves(t, x)
      BY <1>4, <2>2, <2>3 DEF Moves, Placed
    <3>2. OnePlace(x)' /\ Placed(x)'
      BY <1>4, <2>3, <3>1, PlaceMoves DEF PlaceInv, Mine
    <3> QED BY <1>0, <1>2, <1>4, <2>1, <3>2 DEF FlagOK, MqTypeOK
  <2> QED BY <1>4, <2>3, <2>4, <2>5 DEF PlaceInv
<1> QED BY <1>5, <1>6

\* skynet_mq_mark_release: an unscheduled mailbox goes into the global queue, to
\* be found and freed there.
LEMMA MarkPlaces ==
  ASSUME MqInv, PlaceInv, NEW t \in Threads, MarkRelease(t)
  PROVE  PlaceInv'
<1>0. MqTypeOK /\ ThreadInv
  BY DEF MqInv, RefInv, ThreadInv, TypeOK
<1>1. PICK x \in Services : x = arg[t]
  BY <1>0, Local DEF MarkRelease
<1>2. mem[x] = "live" /\ release[x] = 0
  BY <1>1, PlaceIs, Unsealed DEF MarkRelease
<1>3. /\ OthersKeep(t) /\ HandsApart'
      /\ \A s \in Services : Holds(t, s)' <=> Holds(t, s)
      /\ UNCHANGED <<mem, inGlobal>> /\ release' = [release EXCEPT ![x] = 1]
  BY <1>1 DEF MarkRelease, runVars, OthersKeep, HandsApart, PlaceInv, Holds
<1>4. CASE inGlobal[x] # 0
  <2>1. \A s : InGlobalQ(s)' <=> InGlobalQ(s)
    BY <1>1, <1>4 DEF MarkRelease, InGlobalQ
  <2>2. NoDup'
    BY <1>1, <1>4 DEF MarkRelease, PlaceInv, NoDup
  <2>3. ASSUME NEW s \in Services, s # x
        PROVE  OnePlace(s)' /\ FlagOK(s)'
    <3>1. Shifts(t, s)
      BY <1>0, <1>3, <2>1, <2>3 DEF Shifts, Mine, PlaceInv, OnePlace, MqTypeOK
    <3> QED BY <1>3, <3>1, ShiftKeeps DEF PlaceInv
  <2>4. OnePlace(x)' /\ FlagOK(x)'
    <3>1. Placed(x)
      BY <1>0, <1>2, <1>4 DEF PlaceInv, FlagOK, MqTypeOK
    <3>2. Moves(t, x)
      BY <1>3, <2>1 DEF Moves, Mine, PlaceInv, OnePlace
    <3>3. OnePlace(x)' /\ Placed(x)'
      BY <1>3, <2>1, <3>1, <3>2, PlaceMoves DEF PlaceInv, Mine
    <3> QED BY <1>0, <1>2, <1>3, <3>3 DEF FlagOK, MqTypeOK
  <2> QED BY <1>3, <2>2, <2>3, <2>4 DEF PlaceInv
<1>5. CASE inGlobal[x] = 0
  <2>1. globalQ' = Append(globalQ, x)
    BY <1>1, <1>5 DEF MarkRelease
  <2>2. ~Placed(x)
    BY <1>2, <1>5 DEF PlaceInv, FlagOK
  <2>3. /\ \A s : InGlobalQ(s)' <=> InGlobalQ(s) \/ s = x
        /\ NoDup'
    BY <1>0, <2>1, <2>2, Pushed DEF MqTypeOK, PlaceInv, Placed
  <2>4. ASSUME NEW s \in Services, s # x
        PROVE  OnePlace(s)' /\ FlagOK(s)'
    <3>1. Shifts(t, s)
      BY <1>0, <1>3, <2>3, <2>4 DEF Shifts, Mine, PlaceInv, OnePlace, MqTypeOK
    <3> QED BY <1>3, <3>1, ShiftKeeps DEF PlaceInv
  <2>5. OnePlace(x)' /\ FlagOK(x)'
    <3>1. Moves(t, x)
      BY <1>3, <2>2, <2>3 DEF Moves, Placed
    <3>2. OnePlace(x)' /\ Placed(x)'
      BY <1>3, <2>3, <3>1, PlaceMoves DEF PlaceInv, Mine
    <3> QED BY <1>0, <1>2, <1>3, <3>2 DEF FlagOK, MqTypeOK
  <2> QED BY <1>3, <2>3, <2>4, <2>5 DEF PlaceInv
<1> QED BY <1>4, <1>5

\* skynet_mq_create: the new mailbox is flagged and with the thread that launches.
LEMMA CreatePlaces ==
  ASSUME MqInv, PlaceInv, NEW t \in Threads, MqCreate(t)
  PROVE  PlaceInv'
<1>0. MqTypeOK /\ RunTypeOK /\ ThreadInv /\ Births
  BY DEF MqInv, RefInv, ThreadInv, TypeOK
<1>1. PICK x \in Services : x = new[t]
  BY <1>0, Local DEF MqCreate, InLaunch
<1>2. mem[x] = "none"
  BY <1>0, <1>1 DEF MqCreate, Births
<1>3. ~Placed(x)
  BY <1>2 DEF PlaceInv, FlagOK
<1>4. /\ OthersKeep(t) /\ HandsApart' /\ NoDup'
      /\ \A s : InGlobalQ(s)' <=> InGlobalQ(s)
  BY <1>0 DEF MqCreate, OthersKeep, HandsApart, PlaceInv, NoDup, RunTypeOK,
     InGlobalQ
<1>5. /\ Holds(t, x)' /\ \A s \in Services : s # x => (Holds(t, s)' <=> Holds(t, s))
      /\ release' = release
  BY <1>0, <1>1 DEF MqCreate, Holds, RunTypeOK
<1>6. ASSUME NEW s \in Services, s # x
      PROVE  OnePlace(s)' /\ FlagOK(s)'
  <2>1. mem'[s] = mem[s] /\ inGlobal'[s] = inGlobal[s]
    BY <1>0, <1>1, <1>6 DEF MqCreate, MqTypeOK
  <2>2. Shifts(t, s)
    BY <1>4, <1>5, <1>6, <2>1 DEF Shifts, Mine, PlaceInv, OnePlace
  <2> QED BY <1>4, <2>2, ShiftKeeps DEF PlaceInv
<1>7. OnePlace(x)' /\ FlagOK(x)'
  <2>1. Moves(t, x)
    BY <1>3, <1>4 DEF Moves, Placed
  <2>2. OnePlace(x)' /\ Placed(x)'
    BY <1>4, <1>5, <2>1, PlaceMoves DEF PlaceInv, Mine
  <2>3. mem'[x] = "live" /\ inGlobal'[x] = 1
    BY <1>0, <1>1 DEF MqCreate, MqTypeOK
  <2> QED BY <2>2, <2>3 DEF FlagOK
<1> QED BY <1>4, <1>6, <1>7 DEF PlaceInv

\* A step of t that moves the mailbox of x from its hands into the global queue.
LEMMA GiveAway ==
  ASSUME MqTypeOK, PlaceInv, NEW t \in Threads, OthersKeep(t), HandsApart',
         NEW x \in Services, Holds(t, x), globalQ' = Append(globalQ, x),
         \A s \in Services : Holds(t, s)' <=> Holds(t, s) /\ s # x,
         UNCHANGED <<mem, inGlobal, release>>
  PROVE  PlaceInv'
<1>1. ~InGlobalQ(x)
  BY DEF PlaceInv, OnePlace
<1>2. /\ \A s : InGlobalQ(s)' <=> InGlobalQ(s) \/ s = x
      /\ NoDup'
  BY <1>1, Pushed DEF MqTypeOK, PlaceInv
<1>3. ASSUME NEW s \in Services
      PROVE  OnePlace(s)' /\ FlagOK(s)'
  <2>1. Shifts(t, s)
    BY <1>2 DEF Shifts, Mine, PlaceInv, OnePlace
  <2> QED BY <2>1, ShiftKeeps DEF PlaceInv
<1> QED BY <1>2, <1>3 DEF PlaceInv

\* A step of t that takes the first mailbox of the global queue.
LEMMA TakeUp ==
  ASSUME MqTypeOK, PlaceInv, NEW t \in Threads, OthersKeep(t), HandsApart',
         globalQ # <<>>, globalQ' = Tail(globalQ),
         \A s \in Services : Holds(t, s)' <=> Holds(t, s) \/ s = Head(globalQ),
         UNCHANGED <<mem, inGlobal, release>>
  PROVE  PlaceInv'
<1>1. /\ \A s : InGlobalQ(s) <=> InGlobalQ(s)' \/ s = Head(globalQ)
      /\ NoDup' /\ \A s : s = Head(globalQ) => ~InGlobalQ(s)'
  BY Popped DEF MqTypeOK, PlaceInv
<1>2. ASSUME NEW s \in Services
      PROVE  OnePlace(s)' /\ FlagOK(s)'
  <2>1. Shifts(t, s)
    BY <1>1 DEF Shifts, Mine, PlaceInv, OnePlace
  <2> QED BY <2>1, ShiftKeeps DEF PlaceInv
<1> QED BY <1>1, <1>2 DEF PlaceInv

LEMMA EnqueuePlaces ==
  ASSUME MqInv, PlaceInv, NEW t \in Threads, Enqueue(t)
  PROVE  PlaceInv'
<1>0. MqTypeOK /\ RunTypeOK /\ ThreadInv
  BY DEF MqInv, RefInv, ThreadInv, TypeOK
<1>1. PICK x \in Services : x = new[t]
  BY <1>0, Local DEF Enqueue, InLaunch
<1>2. nq[t] = NoOne /\ q[t] \in Services /\ q[t] # x /\ NoOne \notin Services
  BY <1>0, <1>1, HandFacts, DispatchAssumption DEF Enqueue, ThreadInv, Hands, PlaceInv,
     HandsApart
<1>3. /\ Holds(t, x) /\ globalQ' = Append(globalQ, x)
      /\ OthersKeep(t) /\ HandsApart' /\ UNCHANGED <<mem, inGlobal, release>>
      /\ \A s \in Services : Holds(t, s)' <=> Holds(t, s) /\ s # x
  BY <1>0, <1>1, <1>2 DEF Enqueue, OthersKeep, HandsApart, PlaceInv, RunTypeOK, Holds
<1> QED BY <1>0, <1>3, GiveAway

LEMMA GlobalPopPlaces ==
  ASSUME MqInv, PlaceInv, NEW t \in Threads, GlobalPop(t)
  PROVE  PlaceInv'
<1>0. MqTypeOK /\ RunTypeOK /\ ThreadInv
  BY DEF MqInv, RefInv, ThreadInv, TypeOK
<1>1. /\ q[t] = NoOne /\ nq[t] = NoOne /\ new[t] = NoOne /\ NoOne \notin Services
  BY <1>0, DispatchAssumption DEF GlobalPop, ThreadInv, Hands, InLaunch, InRelease
<1>2. Head(globalQ) \in Services
  BY <1>0 DEF GlobalPop, MqTypeOK
<1>3. /\ OthersKeep(t) /\ HandsApart' /\ UNCHANGED <<mem, inGlobal, release>>
      /\ globalQ # <<>> /\ globalQ' = Tail(globalQ)
      /\ \A s \in Services : Holds(t, s)' <=> Holds(t, s) \/ s = Head(globalQ)
  BY <1>0, <1>1, <1>2 DEF GlobalPop, OthersKeep, HandsApart, PlaceInv, RunTypeOK, Holds
<1> QED BY <1>0, <1>3, TakeUp

LEMMA RotatePlaces ==
  ASSUME MqInv, PlaceInv, NEW t \in Threads, Rotate(t)
  PROVE  PlaceInv'
<1>0. MqTypeOK /\ RunTypeOK /\ ThreadInv
  BY DEF MqInv, RefInv, ThreadInv, TypeOK
<1>1. /\ q[t] \in Services /\ nq[t] = NoOne /\ new[t] = NoOne /\ NoOne \notin Services
  BY <1>0, HandFacts, DispatchAssumption DEF Rotate, ThreadInv, Hands, InLaunch, InRelease
<1>2. CASE globalQ = <<>>
  <2>1. Still(t) /\ HandsApart'
    BY <1>0, <1>1, <1>2 DEF Rotate, ReleaseCur, Still, OthersKeep, HandsApart, PlaceInv,
       RunTypeOK, Holds
  <2> QED BY <2>1, StillKeeps
<1>3. CASE globalQ # <<>>
  <2>1. Head(globalQ) \in Services /\ Head(globalQ) # q[t]
    <3>1. InGlobalQ(Head(globalQ)) /\ Head(globalQ) \in Services
      BY <1>0, <1>3, Popped DEF Rotate, MqTypeOK
    <3> QED BY <3>1 DEF PlaceInv, OnePlace, Holds
  <2>2. /\ OthersKeep(t) /\ HandsApart' /\ UNCHANGED <<mem, inGlobal, release>>
        /\ globalQ' = Tail(globalQ)
        /\ \A s \in Services : Holds(t, s)' <=> Holds(t, s) \/ s = Head(globalQ)
    BY <1>0, <1>1, <1>3, <2>1 DEF Rotate, OthersKeep, HandsApart, PlaceInv, RunTypeOK,
       Holds
  <2> QED BY <1>0, <1>3, <2>2, TakeUp
<1> QED BY <1>2, <1>3

LEMMA PushBackPlaces ==
  ASSUME MqInv, PlaceInv, NEW t \in Threads, PushBack(t)
  PROVE  PlaceInv'
<1>0. MqTypeOK /\ RunTypeOK /\ ThreadInv
  BY DEF MqInv, RefInv, ThreadInv, TypeOK
<1>1. /\ q[t] \in Services /\ nq[t] \in Services /\ new[t] = NoOne
      /\ NoOne \notin Services
  BY <1>0, HandFacts, DispatchAssumption DEF PushBack, ThreadInv, Hands, InLaunch,
     InRelease
<1>2. q[t] # nq[t]
  BY <1>1 DEF PlaceInv, HandsApart
<1>3. PICK x \in Services : x = q[t]
  BY <1>1
<1>4. /\ Holds(t, x) /\ globalQ' = Append(globalQ, x)
      /\ OthersKeep(t) /\ HandsApart' /\ UNCHANGED <<mem, inGlobal, release>>
      /\ \A s \in Services : Holds(t, s)' <=> Holds(t, s) /\ s # x
  BY <1>0, <1>1, <1>2, <1>3 DEF PushBack, ReleaseCur, OthersKeep, HandsApart, PlaceInv,
     RunTypeOK, Holds
<1> QED BY <1>0, <1>4, GiveAway

\* A step of t that lets the mailbox of x go, freed or unscheduled.
LEMMA LetsGo ==
  ASSUME PlaceInv, NEW t \in Threads, OthersKeep(t), HandsApart',
         NEW x \in Services, Holds(t, x), globalQ' = globalQ,
         \A s \in Services : Holds(t, s)' <=> Holds(t, s) /\ s # x,
         \A s \in Services : s # x => /\ mem'[s] = mem[s]
                                     /\ inGlobal'[s] = inGlobal[s]
                                     /\ release'[s] = release[s],
         mem'[x] = "freed" \/ (inGlobal'[x] = 0 /\ release'[x] = 0)
  PROVE  PlaceInv'
<1>1. NoDup' /\ \A s : InGlobalQ(s)' <=> InGlobalQ(s)
  BY DEF PlaceInv, NoDup, InGlobalQ
<1>2. ASSUME NEW s \in Services, s # x
      PROVE  OnePlace(s)' /\ FlagOK(s)'
  <2>1. Shifts(t, s)
    BY <1>1, <1>2 DEF Shifts, Mine, PlaceInv, OnePlace
  <2> QED BY <2>1, ShiftKeeps DEF PlaceInv
<1>3. OnePlace(x)' /\ FlagOK(x)'
  <2>1. ~InGlobalQ(x)
    BY DEF PlaceInv, OnePlace
  <2>2. Moves(t, x) /\ Mine(t, x) /\ ~Mine(t, x)'
    BY <1>1, <2>1 DEF Moves, Mine
  <2>3. OnePlace(x)' /\ ~Placed(x)'
    BY <2>2, PlaceMoves DEF PlaceInv
  <2> QED BY <2>3 DEF FlagOK
<1> QED BY <1>1, <1>2, <1>3 DEF PlaceInv

\* skynet_mq_pop that finds nothing: the mailbox is unscheduled by the worker that
\* held it, while its service is referenced and so cannot be marked.
LEMMA PopEmptyPlaces ==
  ASSUME MqInv, PlaceInv, NEW t \in Threads, PopEmpty(t)
  PROVE  PlaceInv'
<1>0. MqTypeOK /\ RunTypeOK /\ ThreadInv
  BY DEF MqInv, RefInv, ThreadInv, TypeOK
<1>1. /\ q[t] \in Services /\ nq[t] = NoOne /\ new[t] = NoOne /\ cur[t] = q[t]
      /\ NoOne \notin Services
  BY <1>0, HandFacts, DispatchAssumption DEF PopEmpty, ThreadInv, Hands, InLaunch,
     InRelease
<1>2. PICK x \in Services : x = q[t]
  BY <1>1
<1>3. release[x] = 0
  <2>1. Referenced(x)
    BY <1>1, <1>2 DEF Referenced, Dispatchers
  <2> QED BY <2>1, Unsealed
<1>4. /\ Holds(t, x) /\ globalQ' = globalQ /\ OthersKeep(t) /\ HandsApart'
      /\ \A s \in Services : Holds(t, s)' <=> Holds(t, s) /\ s # x
      /\ mem' = mem /\ release' = release /\ inGlobal' = [inGlobal EXCEPT ![x] = 0]
  BY <1>0, <1>1, <1>2 DEF PopEmpty, ReleaseCur, OthersKeep, HandsApart, PlaceInv,
     RunTypeOK, Holds
<1> QED BY <1>0, <1>3, <1>4, LetsGo DEF MqTypeOK

\* Leaving skynet_mq_release a worker lets go of the mailbox it was called for.
LEMMA Leaves ==
  ASSUME ThreadInv, HandsApart, NEW t \in Threads, pc[t] \in {"mqrelease", "drop"},
         LeaveMqRelease(t), nq' = nq
  PROVE  /\ Victim(t) \in Services /\ Holds(t, Victim(t))
         /\ OthersKeep(t) /\ HandsApart'
         /\ \A s \in Services : Holds(t, s)' <=> Holds(t, s) /\ s # Victim(t)
<1>0. RunTypeOK
  BY DEF ThreadInv, TypeOK
<1>1. /\ Victim(t) \in Services /\ q[t] \in Services /\ nq[t] = NoOne
      /\ NoOne \notin Services
  BY HandFacts, DispatchAssumption DEF ThreadInv, Hands, InRelease
<1>2. CASE new[t] # NoOne
  BY <1>0, <1>1, <1>2 DEF LeaveMqRelease, Victim, OthersKeep, HandsApart, RunTypeOK,
     Holds
<1>3. CASE new[t] = NoOne
  BY <1>0, <1>1, <1>3 DEF LeaveMqRelease, Victim, OthersKeep, HandsApart, RunTypeOK,
     Holds
<1> QED BY <1>2, <1>3

LEMMA MqReleasePlaces ==
  ASSUME MqInv, PlaceInv, NEW t \in Threads, MqRelease(t)
  PROVE  PlaceInv'
<1>0. MqTypeOK /\ RunTypeOK /\ ThreadInv
  BY DEF MqInv, RefInv, ThreadInv, TypeOK
<1>1. CASE release[Victim(t)] = 1
  <2>1. Still(t) /\ HandsApart'
    BY <1>0, <1>1 DEF MqRelease, Still, OthersKeep, HandsApart, PlaceInv, RunTypeOK,
       Holds
  <2> QED BY <2>1, StillKeeps
<1>2. CASE release[Victim(t)] # 1
  <2>1. /\ pc[t] = "mqrelease" /\ LeaveMqRelease(t) /\ nq' = nq
        /\ globalQ' = Append(globalQ, Victim(t))
        /\ UNCHANGED <<mem, inGlobal, release>>
    BY <1>2 DEF MqRelease
  <2>2. PICK x \in Services : x = Victim(t)
    BY <1>0, <2>1, Leaves DEF PlaceInv
  <2>3. /\ Holds(t, x) /\ OthersKeep(t) /\ HandsApart'
        /\ \A s \in Services : Holds(t, s)' <=> Holds(t, s) /\ s # x
    BY <1>0, <2>1, <2>2, Leaves DEF PlaceInv
  <2> QED BY <1>0, <2>1, <2>2, <2>3, GiveAway
<1> QED BY <1>1, <1>2

LEMMA ReleaseMqPlaces ==
  ASSUME MqInv, PlaceInv, NEW t \in Threads, ReleaseMq(t)
  PROVE  PlaceInv'
<1>0. MqTypeOK /\ ThreadInv
  BY DEF MqInv, RefInv, ThreadInv, TypeOK
<1>1. pc[t] = "drop" /\ LeaveMqRelease(t) /\ nq' = nq
  BY DEF ReleaseMq
<1>2. PICK x \in Services : x = Victim(t)
  BY <1>0, <1>1, Leaves DEF PlaceInv
<1>3. /\ Holds(t, x) /\ OthersKeep(t) /\ HandsApart'
      /\ \A s \in Services : Holds(t, s)' <=> Holds(t, s) /\ s # x
  BY <1>0, <1>1, <1>2, Leaves DEF PlaceInv
<1>4. /\ globalQ' = globalQ /\ release' = release
      /\ mem' = [mem EXCEPT ![x] = "freed"] /\ inGlobal' = [inGlobal EXCEPT ![x] = 0]
  BY <1>2 DEF ReleaseMq
<1> QED BY <1>0, <1>3, <1>4, LetsGo DEF MqTypeOK

\* The new context has no mailbox, so it is not the one the launching thread holds.
LEMMA LaunchPlaces ==
  ASSUME MqInv, PlaceInv, NEW t \in Threads, NEW d \in Services, Launch(t, d)
  PROVE  PlaceInv'
<1>0. RunTypeOK /\ ThreadInv /\ Births
  BY DEF MqInv, RefInv, ThreadInv, TypeOK
<1>1. ~Placed(d)
  BY <1>0 DEF Launch, Births, PlaceInv, FlagOK
<1>2. q[t] # d /\ new[t] = NoOne
  BY <1>1 DEF Placed, Holds, Launch
<1>3. Still(t) /\ HandsApart'
  BY <1>0, <1>2, DispatchAssumption DEF Launch, mqVars, Still, OthersKeep, HandsApart,
     PlaceInv, RunTypeOK, Holds
<1> QED BY <1>3, StillKeeps

\* Every step keeps the mailboxes in order.
LEMMA PlaceStep ==
  ASSUME MqInv, PlaceInv, [Next]_vars
  PROVE  PlaceInv'
<1>0. ThreadInv /\ HandsApart
  BY DEF MqInv, RefInv, PlaceInv
<1>1. ASSUME NEW t \in Threads, Progress(t)
      PROVE  PlaceInv'
  <2>1. CASE \/ MqPush(t) \/ MarkRelease(t) \/ MqCreate(t) \/ Enqueue(t)
             \/ GlobalPop(t) \/ PopEmpty(t) \/ Rotate(t) \/ PushBack(t)
             \/ MqRelease(t) \/ ReleaseMq(t)
    BY <2>1, PushPlaces, MarkPlaces, CreatePlaces, EnqueuePlaces, GlobalPopPlaces,
       PopEmptyPlaces, RotatePlaces, PushBackPlaces, MqReleasePlaces, ReleaseMqPlaces
  <2>2. CASE ~(\/ MqPush(t) \/ MarkRelease(t) \/ MqCreate(t) \/ Enqueue(t)
               \/ GlobalPop(t) \/ PopEmpty(t) \/ Rotate(t) \/ PushBack(t)
               \/ MqRelease(t) \/ ReleaseMq(t))
    <3>1. Still(t) /\ HandsApart'
      BY <1>0, <1>1, <2>2, StillSteps DEF Progress, KernelCall, Launching, Dispatching,
         Releasing
    <3> QED BY <3>1, StillKeeps
  <2> QED BY <2>1, <2>2
<1>2. ASSUME NEW t \in Threads, Choice(t)
      PROVE  PlaceInv'
  <2>1. CASE \E d \in Services : Send(t, d) \/ Kill(t, d)
    BY <1>0, <2>1, StillSteps, StillKeeps
  <2>2. CASE \E d \in Services : Launch(t, d)
    BY <2>2, LaunchPlaces
  <2> QED BY <1>2, <2>1, <2>2 DEF Choice
<1>3. CASE UNCHANGED vars
  BY <1>3 DEF vars, mqVars, runVars, PlaceInv, NoDup, HandsApart, OnePlace, FlagOK,
     InGlobalQ, Holds, Placed
<1> QED BY <1>1, <1>2, <1>3 DEF Next, AllIdle

-----------------------------------------------------------------------------
(* What the flags, the marks and the messages say.                         *)

\* A step of t leaves the other threads where they are, with what they have.
Alone(t) ==
  \A u \in Threads \ {t} :
    /\ pc'[u] = pc[u] /\ q'[u] = q[u] /\ nq'[u] = nq[u] /\ cur'[u] = cur[u]
    /\ new'[u] = new[u] /\ ret'[u] = ret[u] /\ msg'[u] = msg[u]
    /\ op'[u] = op[u] /\ arg'[u] = arg[u] /\ out'[u] = out[u]

LEMMA StepsAlone ==
  ASSUME ThreadInv, NEW t \in Threads, Progress(t) \/ Choice(t)
  PROVE  Alone(t)
<1> USE DEF Alone
<1>0. RunTypeOK /\ OpTypeOK
  BY DEF ThreadInv, TypeOK
<1>1. CASE MqPush(t)
  BY <1>0, <1>1 DEF MqPush, svcVars, runVars, runVars, opVars, RunTypeOK,
     OpTypeOK
<1>2. CASE ContextRelease(t)
  BY <1>0, <1>2 DEF ContextRelease, mqVars, runVars, opVars, RunTypeOK,
     OpTypeOK
<1>3. CASE MarkRelease(t)
  BY <1>0, <1>3 DEF MarkRelease, svcVars, runVars, runVars, opVars, RunTypeOK,
     OpTypeOK
<1>4. CASE DeleteContext(t)
  BY <1>0, <1>4 DEF DeleteContext, mqVars, runVars, runVars, opVars, RunTypeOK,
     OpTypeOK
<1>5. CASE Publish(t)
  BY <1>0, <1>5 DEF Publish, mqVars, opVars, runVars, opVars, RunTypeOK,
     OpTypeOK
<1>6. CASE MqCreate(t)
  BY <1>0, <1>6 DEF MqCreate, opVars, runVars, opVars, RunTypeOK, OpTypeOK
<1>7. CASE InitReturns(t)
  BY <1>0, <1>7 DEF InitReturns, Free, svcVars, mqVars, runVars, opVars,
     RunTypeOK, OpTypeOK
<1>8. CASE InitFails(t)
  BY <1>0, <1>8 DEF InitFails, Log, GrabToPush, Free, mqVars, opVars, runVars,
     opVars, RunTypeOK, OpTypeOK
<1>9. CASE SetInit(t)
  BY <1>0, <1>9 DEF SetInit, Free, mqVars, opVars, runVars, opVars, RunTypeOK,
     OpTypeOK
<1>10. CASE Enqueue(t)
  BY <1>0, <1>10 DEF Enqueue, svcVars, opVars, runVars, opVars, RunTypeOK,
     OpTypeOK
<1>11. CASE Report(t)
  BY <1>0, <1>11 DEF Report, Log, GrabToPush, mqVars, opVars, runVars, opVars,
     RunTypeOK, OpTypeOK
<1>12. CASE FailRelease(t)
  BY <1>0, <1>12 DEF FailRelease, Free, svcVars, mqVars, runVars, opVars,
     RunTypeOK, OpTypeOK
<1>13. CASE FailRetire(t)
  BY <1>0, <1>13 DEF FailRetire, Free, Retire, svcVars, mqVars, opVars,
     runVars, opVars, RunTypeOK, OpTypeOK
<1>14. CASE GlobalPop(t)
  BY <1>0, <1>14 DEF GlobalPop, svcVars, opVars, runVars, opVars, RunTypeOK,
     OpTypeOK
<1>15. CASE Take(t)
  BY <1>0, <1>15 DEF Take, mqVars, opVars, runVars, opVars, RunTypeOK, OpTypeOK
<1>16. CASE PopMessage(t)
  BY <1>0, <1>16 DEF PopMessage, svcVars, opVars, runVars, opVars, RunTypeOK,
     OpTypeOK
<1>17. CASE PopEmpty(t)
  BY <1>0, <1>17 DEF PopEmpty, ReleaseCur, svcVars, runVars, opVars, RunTypeOK,
     OpTypeOK
<1>18. CASE CallbackReturns(t) \/ SizeBatch(t)
  BY <1>0, <1>18 DEF CallbackReturns, SizeBatch, Free, svcVars, mqVars, opVars, runVars,
     opVars, RunTypeOK, OpTypeOK
<1>19. CASE Rotate(t)
  BY <1>0, <1>19 DEF Rotate, ReleaseCur, svcVars, runVars, opVars, RunTypeOK,
     OpTypeOK
<1>20. CASE PushBack(t)
  BY <1>0, <1>20 DEF PushBack, ReleaseCur, svcVars, runVars, opVars, RunTypeOK,
     OpTypeOK
<1>21. CASE Return(t)
  BY <1>0, <1>21 DEF Return, Free, svcVars, mqVars, opVars, runVars, opVars,
     RunTypeOK, OpTypeOK
<1>22. CASE MqRelease(t)
  BY <1>0, <1>22 DEF MqRelease, Free, LeaveMqRelease, svcVars, opVars, runVars,
     opVars, RunTypeOK, OpTypeOK
<1>23. CASE DropMessage(t)
  BY <1>0, <1>23 DEF DropMessage, Free, svcVars, opVars, runVars, opVars,
     RunTypeOK, OpTypeOK
<1>24. CASE Bounce(t)
  BY <1>0, <1>24 DEF Bounce, GrabToPush, mqVars, opVars, runVars, opVars,
     RunTypeOK, OpTypeOK
<1>25. CASE ReleaseMq(t)
  BY <1>0, <1>25 DEF ReleaseMq, Free, LeaveMqRelease, svcVars, opVars, runVars,
     opVars, RunTypeOK, OpTypeOK
<1>26. CASE \E d \in Services : Send(t, d)
  BY <1>0, <1>26 DEF Send, GrabToPush, InCode, Free, mqVars, runVars, runVars,
     opVars, RunTypeOK, OpTypeOK
<1>27. CASE \E d \in Services : Kill(t, d)
  BY <1>0, <1>27 DEF Kill, Retire, InCode, Free, mqVars, runVars, runVars,
     opVars, RunTypeOK, OpTypeOK
<1>28. CASE \E d \in Services : Launch(t, d)
  BY <1>0, <1>28 DEF Launch, InCode, Free, mqVars, opVars, runVars, opVars,
     RunTypeOK, OpTypeOK
<1> QED BY <1>1, <1>2, <1>3, <1>4, <1>5, <1>6, <1>7, <1>8, <1>9, <1>10, <1>11,
   <1>12, <1>13, <1>14, <1>15, <1>16, <1>17, <1>18, <1>19, <1>20, <1>21, <1>22,
   <1>23, <1>24, <1>25, <1>26, <1>27, <1>28 DEF Progress, KernelCall,
   Launching, Dispatching, Releasing, Choice

\* Thread t is launching s, which has no mailbox yet.
Unborn(t, s) == new[t] = s /\ pc[t] \in {"publish", "mqcreate"}

\* The steps in which no mailbox and no context comes into being.
BirthSame(t) ==
  \A s \in Services :
    /\ mem'[s] = "none" <=> mem[s] = "none"
    /\ ctx'[s] = "none" <=> ctx[s] = "none"
    /\ Unborn(t, s)' <=> Unborn(t, s)

LEMMA BirthSteps ==
  ASSUME MqInv, PlaceInv, NEW t \in Threads,
         \/ MqPush(t) \/ ContextRelease(t) \/ MarkRelease(t)
         \/ DeleteContext(t) \/ Publish(t) \/ InitReturns(t) \/ InitFails(t)
         \/ SetInit(t) \/ Enqueue(t) \/ Report(t) \/ FailRelease(t)
         \/ FailRetire(t) \/ GlobalPop(t) \/ Take(t) \/ PopMessage(t)
         \/ PopEmpty(t) \/ CallbackReturns(t) \/ SizeBatch(t) \/ Rotate(t)
         \/ PushBack(t)
         \/ Return(t) \/ MqRelease(t) \/ DropMessage(t) \/ Bounce(t)
         \/ ReleaseMq(t) \/ (\E d \in Services : Send(t, d))
         \/ (\E d \in Services : Kill(t, d))
  PROVE  BirthSame(t)
<1> USE DEF BirthSame, Unborn
<1>0. SvcTypeOK /\ MqTypeOK /\ RunTypeOK /\ ThreadInv
  BY DEF MqInv, RefInv, ThreadInv, TypeOK
<1>a. NoOne \notin Services
  BY DispatchAssumption
<1>b. op[t] = "free" => arg[t] \in Services /\ ctx[arg[t]] = "live"
  BY <1>0, Local DEF MqInv, RefInv, ContextSafe, Deletes
<1>c. pc[t] = "drop" => mem[Victim(t)] = "live" /\ Victim(t) \in Services
  BY <1>0, HandFacts DEF PlaceInv, FlagOK, Placed, Holds, Victim, InRelease
<1>1. CASE MqPush(t)
  BY <1>0, <1>1 DEF MqPush, svcVars, runVars, SvcTypeOK, MqTypeOK, RunTypeOK
<1>2. CASE ContextRelease(t)
  BY <1>0, <1>2 DEF ContextRelease, mqVars, SvcTypeOK, MqTypeOK, RunTypeOK
<1>3. CASE MarkRelease(t)
  BY <1>0, <1>3 DEF MarkRelease, svcVars, runVars, SvcTypeOK, MqTypeOK,
     RunTypeOK
<1>4. CASE DeleteContext(t)
  BY <1>0, <1>4, <1>b DEF DeleteContext, mqVars, runVars, SvcTypeOK, MqTypeOK,
     RunTypeOK
<1>5. CASE Publish(t)
  BY <1>0, <1>5 DEF Publish, mqVars, opVars, SvcTypeOK, MqTypeOK, RunTypeOK
<1>6. CASE InitReturns(t)
  BY <1>0, <1>6 DEF InitReturns, Free, svcVars, mqVars, SvcTypeOK, MqTypeOK,
     RunTypeOK
<1>7. CASE InitFails(t)
  BY <1>0, <1>7 DEF InitFails, Log, GrabToPush, Free, mqVars, opVars,
     SvcTypeOK, MqTypeOK, RunTypeOK
<1>8. CASE SetInit(t)
  BY <1>0, <1>8 DEF SetInit, Free, mqVars, opVars, SvcTypeOK, MqTypeOK,
     RunTypeOK
<1>9. CASE Enqueue(t)
  BY <1>0, <1>9, <1>a DEF Enqueue, svcVars, opVars, SvcTypeOK, MqTypeOK,
     RunTypeOK
<1>10. CASE Report(t)
  BY <1>0, <1>10 DEF Report, Log, GrabToPush, mqVars, opVars, SvcTypeOK,
     MqTypeOK, RunTypeOK
<1>11. CASE FailRelease(t)
  BY <1>0, <1>11 DEF FailRelease, Free, svcVars, mqVars, SvcTypeOK, MqTypeOK,
     RunTypeOK
<1>12. CASE FailRetire(t)
  BY <1>0, <1>12 DEF FailRetire, Free, Retire, svcVars, mqVars, opVars,
     SvcTypeOK, MqTypeOK, RunTypeOK
<1>13. CASE GlobalPop(t)
  BY <1>0, <1>13 DEF GlobalPop, svcVars, opVars, SvcTypeOK, MqTypeOK, RunTypeOK
<1>14. CASE Take(t)
  BY <1>0, <1>14 DEF Take, mqVars, opVars, SvcTypeOK, MqTypeOK, RunTypeOK
<1>15. CASE PopMessage(t)
  BY <1>0, <1>15 DEF PopMessage, svcVars, opVars, SvcTypeOK, MqTypeOK,
     RunTypeOK
<1>16. CASE PopEmpty(t)
  BY <1>0, <1>16 DEF PopEmpty, ReleaseCur, svcVars, SvcTypeOK, MqTypeOK,
     RunTypeOK
<1>17. CASE CallbackReturns(t) \/ SizeBatch(t)
  BY <1>0, <1>17 DEF CallbackReturns, SizeBatch, Free, svcVars, mqVars, opVars, SvcTypeOK,
     MqTypeOK, RunTypeOK
<1>18. CASE Rotate(t)
  BY <1>0, <1>18 DEF Rotate, ReleaseCur, svcVars, SvcTypeOK, MqTypeOK,
     RunTypeOK
<1>19. CASE PushBack(t)
  BY <1>0, <1>19 DEF PushBack, ReleaseCur, svcVars, SvcTypeOK, MqTypeOK,
     RunTypeOK
<1>20. CASE Return(t)
  BY <1>0, <1>20 DEF Return, Free, svcVars, mqVars, opVars, SvcTypeOK,
     MqTypeOK, RunTypeOK
<1>21. CASE MqRelease(t)
  BY <1>0, <1>21, <1>a DEF MqRelease, Free, LeaveMqRelease, svcVars, opVars,
     SvcTypeOK, MqTypeOK, RunTypeOK
<1>22. CASE DropMessage(t)
  BY <1>0, <1>22 DEF DropMessage, Free, svcVars, opVars, SvcTypeOK, MqTypeOK,
     RunTypeOK
<1>23. CASE Bounce(t)
  BY <1>0, <1>23 DEF Bounce, GrabToPush, mqVars, opVars, SvcTypeOK, MqTypeOK,
     RunTypeOK
<1>24. CASE ReleaseMq(t)
  BY <1>0, <1>24, <1>c DEF ReleaseMq, Free, LeaveMqRelease, svcVars, opVars,
     SvcTypeOK, MqTypeOK, RunTypeOK
<1>25. CASE \E d \in Services : Send(t, d)
  BY <1>0, <1>25 DEF Send, GrabToPush, InCode, Free, mqVars, runVars,
     SvcTypeOK, MqTypeOK, RunTypeOK
<1>26. CASE \E d \in Services : Kill(t, d)
  BY <1>0, <1>26 DEF Kill, Retire, InCode, Free, mqVars, runVars, SvcTypeOK,
     MqTypeOK, RunTypeOK
<1> QED BY <1>1, <1>2, <1>3, <1>4, <1>5, <1>6, <1>7, <1>8, <1>9, <1>10, <1>11,
   <1>12, <1>13, <1>14, <1>15, <1>16, <1>17, <1>18, <1>19, <1>20, <1>21, <1>22,
   <1>23, <1>24, <1>25, <1>26

\* A mailbox is born in skynet_mq_create, after the context of its service.
LEMMA BirthsStep ==
  ASSUME MqInv, PlaceInv, [Next]_vars
  PROVE  Births'
<1>0. SvcTypeOK /\ MqTypeOK /\ RunTypeOK /\ ThreadInv /\ Newborns /\ Births
  BY DEF MqInv, RefInv, ThreadInv, TypeOK
<1>1. \A s \in Services :
        mem[s] = "none" <=> ctx[s] = "none" \/ \E t \in Threads : Unborn(t, s)
  BY <1>0 DEF Births, Unborn
<1>2. SUFFICES \A s \in Services :
        mem'[s] = "none" <=> ctx'[s] = "none" \/ \E t \in Threads : Unborn(t, s)'
  BY DEF Births, Unborn
<1>3. ASSUME NEW t \in Threads, Alone(t)
      PROVE  \A u \in Threads \ {t}, s \in Services : Unborn(u, s)' <=> Unborn(u, s)
  BY <1>3 DEF Alone, Unborn
<1>4. ASSUME NEW t \in Threads, Alone(t), BirthSame(t)
      PROVE  \A s \in Services :
        mem'[s] = "none" <=> ctx'[s] = "none" \/ \E u \in Threads : Unborn(u, s)'
  <2>1. \A u \in Threads, s \in Services : Unborn(u, s)' <=> Unborn(u, s)
    BY <1>3, <1>4 DEF BirthSame
  <2> QED BY <1>1, <1>4, <2>1 DEF BirthSame
<1>5. ASSUME NEW t \in Threads, MqCreate(t)
      PROVE  \A s \in Services :
        mem'[s] = "none" <=> ctx'[s] = "none" \/ \E u \in Threads : Unborn(u, s)'
  <2>1. PICK x \in Services : x = new[t]
    BY <1>0, <1>5, Local DEF MqCreate, InLaunch
  <2>2. Alone(t)
    BY <1>0, <1>5, StepsAlone DEF Progress, Launching
  <2>3. /\ mem' = [mem EXCEPT ![x] = "live"] /\ ctx' = ctx
        /\ \A s \in Services : ~Unborn(t, s)' /\ (Unborn(t, s) <=> s = x)
    BY <1>0, <1>5, <2>1 DEF MqCreate, Unborn, RunTypeOK
  <2>4. \A u \in Threads \ {t} : ~Unborn(u, x)
    BY <1>0, <2>1, DispatchAssumption DEF Newborns, Unborn
  <2>5. ctx[x] # "none"
    BY <1>0, <2>1, DispatchAssumption DEF Newborns
  <2>6. \A s \in Services : s # x => /\ mem'[s] = mem[s]
                                    /\ \A u \in Threads : Unborn(u, s)' <=> Unborn(u, s)
    BY <1>0, <1>3, <2>2, <2>3 DEF MqTypeOK
  <2>7. mem'[x] # "none" /\ \A u \in Threads : ~Unborn(u, x)'
    BY <1>0, <1>3, <2>2, <2>3, <2>4 DEF MqTypeOK
  <2> QED BY <1>1, <2>3, <2>5, <2>6, <2>7
<1>6. ASSUME NEW t \in Threads, NEW x \in Services, Launch(t, x)
      PROVE  \A s \in Services :
        mem'[s] = "none" <=> ctx'[s] = "none" \/ \E u \in Threads : Unborn(u, s)'
  <2>1. Alone(t)
    BY <1>0, <1>6, StepsAlone DEF Choice
  <2>2. /\ mem' = mem /\ ctx[x] = "none" /\ ctx' = [ctx EXCEPT ![x] = "live"]
        /\ \A s \in Services : ~Unborn(t, s) /\ (Unborn(t, s)' <=> s = x)
    BY <1>0, <1>6, DispatchAssumption DEF Launch, mqVars, Unborn, RunTypeOK
  <2>3. \A s \in Services : s # x => /\ ctx'[s] = ctx[s]
                                    /\ \A u \in Threads : Unborn(u, s)' <=> Unborn(u, s)
    BY <1>0, <1>3, <2>1, <2>2 DEF SvcTypeOK
  <2> QED BY <1>1, <2>2, <2>3
<1>7. CASE UNCHANGED vars
  BY <1>1, <1>7 DEF vars, svcVars, mqVars, runVars, Unborn
<1>8. ASSUME NEW t \in Threads, Progress(t) \/ Choice(t), ~MqCreate(t),
             ~\E d \in Services : Launch(t, d)
      PROVE  \A s \in Services :
        mem'[s] = "none" <=> ctx'[s] = "none" \/ \E u \in Threads : Unborn(u, s)'
  <2>1. Alone(t)
    BY <1>0, <1>8, StepsAlone
  <2>2. BirthSame(t)
    BY <1>8, BirthSteps DEF Progress, KernelCall, Launching, Dispatching, Releasing,
       Choice
  <2> QED BY <1>4, <2>1, <2>2
<1> QED BY <1>5, <1>6, <1>7, <1>8 DEF Next, AllIdle

\* The part of Seals and Flagged a step of t can disturb.
SealLocal(t) ==
  /\ \A s \in Services :
       /\ release'[s] = 1 => release[s] = 1 \/ (op'[t] = "free" /\ arg'[t] = s)
       /\ release[s] = 1 => release'[s] = 1
       /\ ctx[s] = "freed" => ctx'[s] = "freed"
       /\ op[t] = "free" /\ arg[t] = s =>
            (op'[t] = "free" /\ arg'[t] = s) \/ ctx'[s] = "freed"
       /\ mem'[s] = "freed" => release'[s] = 1
       /\ msgs'[s] # <<>> => inGlobal'[s] = 1 /\ mem'[s] = "live"
  /\ pc'[t] \in {"drop", "bounce"} => release'[Victim(t)'] = 1

LEMMA SealSteps ==
  ASSUME MqInv, PlaceInv, NEW t \in Threads, Progress(t) \/ Choice(t)
  PROVE  SealLocal(t)
<1> USE DEF SealLocal
<1>0. SvcTypeOK /\ MqTypeOK /\ RunTypeOK /\ OpTypeOK /\ ThreadInv
  BY DEF MqInv, RefInv, ThreadInv, TypeOK
<1>a. \A s \in Services : /\ mem[s] = "freed" => release[s] = 1
                          /\ msgs[s] # <<>> => inGlobal[s] = 1 /\ mem[s] = "live"
  BY DEF MqInv, Seals, Flagged
<1>b. /\ pc[t] \in InRelease => Victim(t) \in Services
      /\ pc[t] \in {"drop", "bounce"} => release[Victim(t)] = 1
      /\ NoOne \notin Services
  BY <1>0, HandFacts, DispatchAssumption DEF MqInv, Seals
<1>c. op[t] = "push" => mem[arg[t]] = "live"
  BY <1>0, Local, PlaceIs
<1>d. /\ op[t] # "none" => arg[t] \in Services
      /\ pc[t] \in {"publish", "mqcreate", "enqueue", "report", "take", "first", "next",
                    "rotate", "pushback", "bounce"} => op[t] = "none"
  BY <1>0, Local
<1>e. /\ pc[t] \in {"first", "next", "take"} => q[t] \in Services
      /\ pc[t] \in InLaunch => new[t] \in Services
      /\ pc[t] = "mqcreate" => mem[new[t]] = "none"
  BY <1>0, HandFacts DEF MqInv, Births, InLaunch
<1>1. CASE MqPush(t)
  BY <1>0, <1>1, <1>a, <1>b, <1>d, <1>c DEF MqPush, svcVars, runVars,
     SvcTypeOK, MqTypeOK, RunTypeOK, OpTypeOK, Victim, InRelease, runVars
<1>2. CASE ContextRelease(t)
  BY <1>0, <1>2, <1>a, <1>b, <1>d DEF ContextRelease, mqVars, SvcTypeOK,
     MqTypeOK, RunTypeOK, OpTypeOK, Victim, InRelease
<1>3. CASE MarkRelease(t)
  BY <1>0, <1>3, <1>a, <1>b, <1>d DEF MarkRelease, svcVars, runVars, SvcTypeOK,
     MqTypeOK, RunTypeOK, OpTypeOK, Victim, InRelease
<1>4. CASE DeleteContext(t)
  BY <1>0, <1>4, <1>a, <1>b, <1>d DEF DeleteContext, mqVars, runVars,
     SvcTypeOK, MqTypeOK, RunTypeOK, OpTypeOK, Victim, InRelease
<1>5. CASE Publish(t)
  BY <1>0, <1>5, <1>a, <1>b, <1>d DEF Publish, mqVars, opVars, SvcTypeOK,
     MqTypeOK, RunTypeOK, OpTypeOK, Victim, InRelease
<1>6. CASE MqCreate(t)
  BY <1>0, <1>6, <1>a, <1>b, <1>d, <1>e DEF MqCreate, opVars, SvcTypeOK,
     MqTypeOK, RunTypeOK, OpTypeOK, Victim, InRelease, InLaunch
<1>7. CASE InitReturns(t)
  BY <1>0, <1>7, <1>a, <1>b, <1>d DEF InitReturns, Free, svcVars, mqVars,
     SvcTypeOK, MqTypeOK, RunTypeOK, OpTypeOK, Victim, InRelease
<1>8. CASE InitFails(t)
  BY <1>0, <1>8, <1>a, <1>b, <1>d DEF InitFails, Log, GrabToPush, Free, mqVars,
     opVars, SvcTypeOK, MqTypeOK, RunTypeOK, OpTypeOK, Victim, InRelease
<1>9. CASE SetInit(t)
  BY <1>0, <1>9, <1>a, <1>b, <1>d DEF SetInit, Free, mqVars, opVars, SvcTypeOK,
     MqTypeOK, RunTypeOK, OpTypeOK, Victim, InRelease
<1>10. CASE Enqueue(t)
  BY <1>0, <1>10, <1>a, <1>b, <1>d DEF Enqueue, svcVars, opVars, SvcTypeOK,
     MqTypeOK, RunTypeOK, OpTypeOK, Victim, InRelease
<1>11. CASE Report(t)
  BY <1>0, <1>11, <1>a, <1>b, <1>d DEF Report, Log, GrabToPush, mqVars, opVars,
     SvcTypeOK, MqTypeOK, RunTypeOK, OpTypeOK, Victim, InRelease
<1>12. CASE FailRelease(t)
  BY <1>0, <1>12, <1>a, <1>b, <1>d DEF FailRelease, Free, svcVars, mqVars,
     SvcTypeOK, MqTypeOK, RunTypeOK, OpTypeOK, Victim, InRelease
<1>13. CASE FailRetire(t)
  BY <1>0, <1>13, <1>a, <1>b, <1>d DEF FailRetire, Free, Retire, svcVars,
     mqVars, opVars, SvcTypeOK, MqTypeOK, RunTypeOK, OpTypeOK, Victim,
     InRelease
<1>14. CASE GlobalPop(t)
  BY <1>0, <1>14, <1>a, <1>b, <1>d DEF GlobalPop, svcVars, opVars, SvcTypeOK,
     MqTypeOK, RunTypeOK, OpTypeOK, Victim, InRelease
<1>15. CASE Take(t)
  BY <1>0, <1>15, <1>a, <1>b, <1>d DEF Take, mqVars, opVars, SvcTypeOK,
     MqTypeOK, RunTypeOK, OpTypeOK, Victim, InRelease
<1>16. CASE PopMessage(t)
  BY <1>0, <1>16, <1>a, <1>b, <1>d, <1>e DEF PopMessage, svcVars, opVars,
     SvcTypeOK, MqTypeOK, RunTypeOK, OpTypeOK, Victim, InRelease
<1>17. CASE PopEmpty(t)
  BY <1>0, <1>17, <1>a, <1>b, <1>d, <1>e DEF PopEmpty, ReleaseCur, svcVars,
     SvcTypeOK, MqTypeOK, RunTypeOK, OpTypeOK, Victim, InRelease
<1>18. CASE CallbackReturns(t) \/ SizeBatch(t)
  BY <1>0, <1>18, <1>a, <1>b, <1>d DEF CallbackReturns, SizeBatch, Free, svcVars, mqVars,
     opVars, SvcTypeOK, MqTypeOK, RunTypeOK, OpTypeOK, Victim, InRelease
<1>19. CASE Rotate(t)
  BY <1>0, <1>19, <1>a, <1>b, <1>d DEF Rotate, ReleaseCur, svcVars, SvcTypeOK,
     MqTypeOK, RunTypeOK, OpTypeOK, Victim, InRelease
<1>20. CASE PushBack(t)
  BY <1>0, <1>20, <1>a, <1>b, <1>d DEF PushBack, ReleaseCur, svcVars,
     SvcTypeOK, MqTypeOK, RunTypeOK, OpTypeOK, Victim, InRelease
<1>21. CASE Return(t)
  BY <1>0, <1>21, <1>a, <1>b, <1>d DEF Return, Free, svcVars, mqVars, opVars,
     SvcTypeOK, MqTypeOK, RunTypeOK, OpTypeOK, Victim, InRelease
<1>22. CASE MqRelease(t)
  BY <1>0, <1>22, <1>a, <1>b, <1>d DEF MqRelease, Free, LeaveMqRelease,
     svcVars, opVars, SvcTypeOK, MqTypeOK, RunTypeOK, OpTypeOK, Victim,
     InRelease
<1>23. CASE DropMessage(t)
  BY <1>0, <1>23, <1>a, <1>b, <1>d DEF DropMessage, Free, svcVars, opVars,
     SvcTypeOK, MqTypeOK, RunTypeOK, OpTypeOK, Victim, InRelease
<1>24. CASE Bounce(t)
  BY <1>0, <1>24, <1>a, <1>b, <1>d DEF Bounce, GrabToPush, mqVars, opVars,
     SvcTypeOK, MqTypeOK, RunTypeOK, OpTypeOK, Victim, InRelease
<1>25. CASE ReleaseMq(t)
  BY <1>0, <1>25, <1>a, <1>b, <1>d DEF ReleaseMq, Free, LeaveMqRelease,
     svcVars, opVars, SvcTypeOK, MqTypeOK, RunTypeOK, OpTypeOK, Victim,
     InRelease
<1>26. CASE \E d \in Services : Send(t, d)
  BY <1>0, <1>26, <1>a, <1>b, <1>d DEF Send, GrabToPush, InCode, Free, mqVars,
     runVars, SvcTypeOK, MqTypeOK, RunTypeOK, OpTypeOK, Victim, InRelease
<1>27. CASE \E d \in Services : Kill(t, d)
  BY <1>0, <1>27, <1>a, <1>b, <1>d DEF Kill, Retire, InCode, Free, mqVars,
     runVars, SvcTypeOK, MqTypeOK, RunTypeOK, OpTypeOK, Victim, InRelease
<1>28. CASE \E d \in Services : Launch(t, d)
  BY <1>0, <1>28, <1>a, <1>b, <1>d DEF Launch, InCode, Free, mqVars, opVars,
     SvcTypeOK, MqTypeOK, RunTypeOK, OpTypeOK, Victim, InRelease
<1> QED BY <1>1, <1>2, <1>3, <1>4, <1>5, <1>6, <1>7, <1>8, <1>9, <1>10, <1>11,
   <1>12, <1>13, <1>14, <1>15, <1>16, <1>17, <1>18, <1>19, <1>20, <1>21, <1>22,
   <1>23, <1>24, <1>25, <1>26, <1>27, <1>28 DEF Progress, KernelCall,
   Launching, Dispatching, Releasing, Choice

LEMMA SealsStep ==
  ASSUME MqInv, PlaceInv, [Next]_vars
  PROVE  Seals' /\ Flagged'
<1>0. ThreadInv /\ Seals /\ Flagged
  BY DEF MqInv, RefInv
<1>1. ASSUME NEW t \in Threads, Progress(t) \/ Choice(t)
      PROVE  Seals' /\ Flagged'
  <2>1. Alone(t) /\ SealLocal(t)
    BY <1>0, <1>1, StepsAlone, SealSteps
  <2>2. Flagged'
    BY <2>1 DEF SealLocal, Flagged
  <2>3. ASSUME NEW s \in Services, release'[s] = 1
        PROVE  ctx'[s] = "freed" \/ \E u \in Threads : op'[u] = "free" /\ arg'[u] = s
    <3>1. CASE release[s] # 1
      BY <2>1, <2>3, <3>1 DEF SealLocal
    <3>2. CASE ctx[s] = "freed"
      BY <2>1, <3>2 DEF SealLocal
    <3>3. ASSUME NEW u \in Threads, op[u] = "free", arg[u] = s
          PROVE  ctx'[s] = "freed" \/ \E v \in Threads : op'[v] = "free" /\ arg'[v] = s
      BY <2>1, <3>3 DEF SealLocal, Alone
    <3> QED BY <1>0, <3>1, <3>2, <3>3 DEF Seals
  <2>4. ASSUME NEW s \in Services, mem'[s] = "freed"
        PROVE  release'[s] = 1
    BY <2>1, <2>4 DEF SealLocal
  <2>5. ASSUME NEW w \in Threads, pc'[w] \in {"drop", "bounce"}
        PROVE  release'[Victim(w)'] = 1
    <3>1. CASE w = t
      BY <2>1, <2>5, <3>1 DEF SealLocal
    <3>2. CASE w # t
      <4>1. pc[w] \in {"drop", "bounce"} /\ Victim(w)' = Victim(w)
        BY <2>1, <2>5, <3>2 DEF Alone, Victim
      <4>2. release[Victim(w)] = 1 /\ Victim(w) \in Services
        BY <1>0, <4>1, HandFacts DEF Seals, InRelease
      <4> QED BY <2>1, <4>1, <4>2 DEF SealLocal
    <3> QED BY <3>1, <3>2
  <2> QED BY <2>2, <2>3, <2>4, <2>5 DEF Seals
<1>2. CASE UNCHANGED vars
  BY <1>0, <1>2 DEF vars, svcVars, mqVars, runVars, opVars, Seals, Flagged, Victim
<1> QED BY <1>1, <1>2 DEF Next, AllIdle

\* The mailbox of a service that can be found by its handle is there.
LEMMA FoundLive ==
  ASSUME MqInv, NEW s \in Services, slot[s] = "published", mem[s] # "none"
  PROVE  mem[s] = "live"
<1>1. release[s] = 0
  BY Unsealed DEF Referenced
<1> QED BY <1>1 DEF MqInv, RefInv, ThreadInv, TypeOK, MqTypeOK, Seals

\* Kernel calls that will use a mailbox: a push, and the mark for release.
WillUse(t, s) == op[t] \in {"push", "mark"} /\ arg[t] = s

\* A step of t takes up such a call only for a mailbox that is there.
UseLocal(t) ==
  /\ \A s \in Services : WillUse(t, s)' /\ ~WillUse(t, s) => mem'[s] = "live"
  /\ \A s \in Services : mem[s] = "live" => mem'[s] = "live" \/ release[s] = 1

\* The last reference to a service is dropped with its mailbox still there.
LEMMA LastLive ==
  ASSUME MqInv, RefInv', NEW t \in Threads, ContextRelease(t), NEW s \in Services,
         WillUse(t, s)'
  PROVE  mem'[s] = "live"
<1>0. /\ OpTypeOK /\ OpTypeOK' /\ ThreadInv /\ ContextSafe' /\ Births /\ Seals
      /\ MqTypeOK
  BY DEF MqInv, RefInv, ThreadInv, TypeOK
<1>1. arg[t] = s /\ op[t] = "release" /\ s # NoOne
  BY <1>0, DispatchAssumption DEF ContextRelease, WillUse, OpTypeOK
<1>2. mem[s] # "freed"
  <2>1. Referenced(s)
    BY <1>1 DEF Referenced, Callers
  <2> QED BY <1>0, <2>1, Unsealed DEF Seals
<1>3. ctx[s] # "none" /\ Creators(s)' = {}
  <2>1. Deletes(t, s)'
    BY <1>0, <1>1 DEF WillUse, ContextRelease, Deletes, OpTypeOK
  <2> QED BY <1>0, <2>1 DEF ContextSafe, Referenced, ContextRelease
<1>4. \A u \in Threads : ~(new[u] = s /\ pc[u] \in {"publish", "mqcreate"})
  BY <1>3 DEF Creators, ContextRelease
<1>5. mem[s] # "none"
  BY <1>0, <1>3, <1>4 DEF Births
<1> QED BY <1>0, <1>2, <1>5 DEF ContextRelease, mqVars, MqTypeOK

LEMMA UseSteps ==
  ASSUME MqInv, RefInv', NEW t \in Threads, Progress(t) \/ Choice(t)
  PROVE  UseLocal(t)
<1> USE DEF UseLocal, WillUse
<1>0. SvcTypeOK /\ MqTypeOK /\ RunTypeOK /\ OpTypeOK /\ ThreadInv
  BY DEF MqInv, RefInv, ThreadInv, TypeOK
<1>a. /\ NoOne \notin Services /\ Boot \in Services /\ mem[Boot] # "none"
      /\ msg[t].src # NoOne => mem[msg[t].src] # "none"
  BY DispatchAssumption DEF MqInv, Sources, Known
<1>b. /\ pc[t] \in InRelease => Victim(t) \in Services
      /\ pc[t] \in {"drop", "bounce"} => release[Victim(t)] = 1
  BY <1>0, HandFacts DEF MqInv, Seals
<1>c. \A s \in Services : slot[s] = "published" /\ mem[s] # "none" => mem[s] = "live"
  BY FoundLive
<1>d. msg[t].src \in Services \cup {NoOne}
  BY <1>0 DEF RunTypeOK, Message
<1>1. CASE MqPush(t)
  BY <1>0, <1>1, <1>a DEF MqPush, svcVars, runVars, MqTypeOK, OpTypeOK
<1>2. CASE ContextRelease(t)
  BY <1>2, LastLive DEF ContextRelease, mqVars
<1>3. CASE MarkRelease(t)
  BY <1>0, <1>3, <1>a DEF MarkRelease, svcVars, runVars, MqTypeOK, OpTypeOK
<1>4. CASE DeleteContext(t)
  BY <1>0, <1>4, <1>a DEF DeleteContext, mqVars, runVars, MqTypeOK, OpTypeOK
<1>5. CASE Publish(t)
  BY <1>0, <1>5, <1>a DEF Publish, mqVars, opVars, MqTypeOK, OpTypeOK
<1>6. CASE MqCreate(t)
  BY <1>0, <1>6, <1>a DEF MqCreate, opVars, MqTypeOK, OpTypeOK
<1>7. CASE InitReturns(t)
  BY <1>0, <1>7, <1>a DEF InitReturns, Free, svcVars, mqVars, MqTypeOK,
     OpTypeOK
<1>8. CASE InitFails(t)
  BY <1>0, <1>8, <1>a, <1>c DEF InitFails, Log, GrabToPush, Free, mqVars,
     opVars, MqTypeOK, OpTypeOK
<1>9. CASE SetInit(t)
  BY <1>0, <1>9, <1>a DEF SetInit, Free, mqVars, opVars, MqTypeOK, OpTypeOK
<1>10. CASE Enqueue(t)
  BY <1>0, <1>10, <1>a DEF Enqueue, svcVars, opVars, MqTypeOK, OpTypeOK
<1>11. CASE Report(t)
  BY <1>0, <1>11, <1>a, <1>c DEF Report, Log, GrabToPush, mqVars, opVars,
     MqTypeOK, OpTypeOK
<1>12. CASE FailRelease(t)
  BY <1>0, <1>12, <1>a DEF FailRelease, Free, svcVars, mqVars, MqTypeOK,
     OpTypeOK
<1>13. CASE FailRetire(t)
  BY <1>0, <1>13, <1>a DEF FailRetire, Free, Retire, svcVars, mqVars, opVars,
     MqTypeOK, OpTypeOK
<1>14. CASE GlobalPop(t)
  BY <1>0, <1>14, <1>a DEF GlobalPop, svcVars, opVars, MqTypeOK, OpTypeOK
<1>15. CASE Take(t)
  BY <1>0, <1>15, <1>a DEF Take, mqVars, opVars, MqTypeOK, OpTypeOK
<1>16. CASE PopMessage(t)
  BY <1>0, <1>16, <1>a DEF PopMessage, svcVars, opVars, MqTypeOK, OpTypeOK
<1>17. CASE PopEmpty(t)
  BY <1>0, <1>17, <1>a DEF PopEmpty, ReleaseCur, svcVars, MqTypeOK, OpTypeOK
<1>18. CASE CallbackReturns(t) \/ SizeBatch(t)
  BY <1>0, <1>18, <1>a DEF CallbackReturns, SizeBatch, Free, svcVars, mqVars, opVars,
     MqTypeOK, OpTypeOK
<1>19. CASE Rotate(t)
  BY <1>0, <1>19, <1>a DEF Rotate, ReleaseCur, svcVars, MqTypeOK, OpTypeOK
<1>20. CASE PushBack(t)
  BY <1>0, <1>20, <1>a DEF PushBack, ReleaseCur, svcVars, MqTypeOK, OpTypeOK
<1>21. CASE Return(t)
  BY <1>0, <1>21, <1>a DEF Return, Free, svcVars, mqVars, opVars, MqTypeOK,
     OpTypeOK
<1>22. CASE MqRelease(t)
  BY <1>0, <1>22, <1>a DEF MqRelease, Free, LeaveMqRelease, svcVars, opVars,
     MqTypeOK, OpTypeOK
<1>23. CASE DropMessage(t)
  BY <1>0, <1>23, <1>a DEF DropMessage, Free, svcVars, opVars, MqTypeOK,
     OpTypeOK
<1>24. CASE Bounce(t)
  BY <1>0, <1>24, <1>a, <1>c, <1>d DEF Bounce, GrabToPush, mqVars, opVars,
     MqTypeOK, OpTypeOK
<1>25. CASE ReleaseMq(t)
  BY <1>0, <1>25, <1>a, <1>b DEF ReleaseMq, Free, LeaveMqRelease, svcVars,
     opVars, MqTypeOK, OpTypeOK, InRelease
<1>26. CASE \E d \in Services : Send(t, d)
  BY <1>0, <1>26, <1>a, <1>c DEF Send, GrabToPush, InCode, Free, mqVars,
     runVars, MqTypeOK, OpTypeOK
<1>27. CASE \E d \in Services : Kill(t, d)
  BY <1>0, <1>27, <1>a DEF Kill, Retire, InCode, Free, mqVars, runVars,
     MqTypeOK, OpTypeOK
<1>28. CASE \E d \in Services : Launch(t, d)
  BY <1>0, <1>28, <1>a DEF Launch, InCode, Free, mqVars, opVars, MqTypeOK,
     OpTypeOK
<1> QED BY <1>1, <1>2, <1>3, <1>4, <1>5, <1>6, <1>7, <1>8, <1>9, <1>10, <1>11,
   <1>12, <1>13, <1>14, <1>15, <1>16, <1>17, <1>18, <1>19, <1>20, <1>21, <1>22,
   <1>23, <1>24, <1>25, <1>26, <1>27, <1>28 DEF Progress, KernelCall,
   Launching, Dispatching, Releasing, Choice

\* A push and a mark find their mailbox, whatever happens meanwhile.
LEMMA UseStep ==
  ASSUME MqInv, RefInv', [Next]_vars
  PROVE  \A t \in Threads, s \in Services : WillUse(t, s)' => mem'[s] = "live"
<1>0. ThreadInv
  BY DEF MqInv, RefInv
<1>a. \A t \in Threads, s \in Services :
        WillUse(t, s) => mem[s] = "live" /\ release[s] = 0
  BY PlaceIs, Unsealed DEF WillUse, Referenced, Callers
<1>1. ASSUME NEW t \in Threads, Progress(t) \/ Choice(t)
      PROVE  \A u \in Threads, s \in Services : WillUse(u, s)' => mem'[s] = "live"
  <2>1. Alone(t) /\ UseLocal(t)
    BY <1>0, <1>1, StepsAlone, UseSteps
  <2>2. \A u \in Threads \ {t}, s \in Services : WillUse(u, s)' <=> WillUse(u, s)
    BY <2>1 DEF Alone, WillUse
  <2>3. \A u \in Threads, s \in Services : WillUse(u, s) => mem'[s] = "live"
    BY <1>a, <2>1 DEF UseLocal
  <2> QED BY <2>1, <2>2, <2>3 DEF UseLocal
<1>2. CASE UNCHANGED vars
  BY <1>a, <1>2 DEF vars, mqVars, opVars, WillUse
<1> QED BY <1>1, <1>2 DEF Next, AllIdle

\* What a thread knows has a mailbox, or had one: the service it runs, the one it
\* has created, and the one whose mailbox it drops.
LEMMA Acquainted ==
  ASSUME MqInv, PlaceInv, NEW t \in Threads
  PROVE  /\ Known(cur[t]) /\ Known(q[t])
         /\ pc[t] \notin {"publish", "mqcreate"} => Known(new[t])
         /\ InCode(t) => Known(Self(t))
         /\ Known(Victim(t)) \/ pc[t] \in {"publish", "mqcreate"}
<1>0. ThreadInv /\ Hands
  BY DEF MqInv, RefInv, ThreadInv
<1>a. /\ {q[t], cur[t], new[t]} \subseteq Services \cup {NoOne}
      /\ NoOne \notin Services
  BY <1>0, HandFacts, DispatchAssumption DEF Hand
<1>1. Known(q[t])
  BY <1>a DEF Known, PlaceInv, FlagOK, Placed, Holds
<1>2. Known(cur[t])
  BY <1>0, <1>1 DEF Hands, Known
<1>3. pc[t] \notin {"publish", "mqcreate"} => Known(new[t])
  BY <1>a DEF Known, PlaceInv, FlagOK, Placed, Holds
<1>4. InCode(t) => Known(Self(t))
  BY <1>2, <1>3 DEF Self, Known
<1> QED BY <1>1, <1>2, <1>3, <1>4 DEF Victim

\* The messages of a mailbox come from known services.
Signed(s) == \A i \in 1..Len(msgs[s]) : Known(msgs[s][i].src)

\* What a step of t adds to the handles that get around.
SourceLocal(t) ==
  /\ \A s \in Services : mem[s] # "none" => mem'[s] # "none"
  /\ Known(msg'[t].src) /\ Known(out'[t].src) /\ Known(ret'[t])
  /\ pc'[t] = "launched" /\ op'[t] # "none" => arg'[t] = new'[t]
  /\ \A s \in Services :
       \/ msgs'[s] = msgs[s]
       \/ msgs[s] # <<>> /\ msgs'[s] = Tail(msgs[s])
       \/ \E m \in Message : Known(m.src) /\ msgs'[s] = Append(msgs[s], m)

LEMMA SourceSteps ==
  ASSUME MqInv, PlaceInv, NEW t \in Threads, Progress(t) \/ Choice(t)
  PROVE  SourceLocal(t)
<1> USE DEF SourceLocal
<1>0. MqTypeOK /\ RunTypeOK /\ OpTypeOK /\ ThreadInv
  BY DEF MqInv, RefInv, ThreadInv, TypeOK
<1>a. /\ Known(msg[t].src) /\ Known(out[t].src) /\ Known(ret[t]) /\ Known(NoOne)
      /\ Known(NoMsg.src)
      /\ pc[t] = "launched" /\ op[t] # "none" => arg[t] = new[t]
      /\ \A s \in Services : msgs[s] # <<>> => Known(Head(msgs[s]).src)
  <2>1. \A s \in Services : msgs[s] # <<>> =>
          1 \in 1..Len(msgs[s]) /\ Head(msgs[s]) = msgs[s][1]
    BY <1>0 DEF MqTypeOK
  <2> QED BY <2>1 DEF MqInv, Sources, Known, NoMsg
<1>b. /\ Known(cur[t]) /\ Known(q[t])
      /\ pc[t] \notin {"publish", "mqcreate"} => Known(new[t])
      /\ InCode(t) => Known(Self(t))
      /\ Known(Victim(t)) \/ pc[t] \in {"publish", "mqcreate"}
  BY Acquainted
<1>c. /\ op[t] # "none" => arg[t] \in Services
      /\ pc[t] \in InLaunch => new[t] \in Services
      /\ pc[t] \in InRelease => Victim(t) \in Services
      /\ pc[t] \in {"first", "next"} => q[t] \in Services
      /\ pc[t] \in {"publish", "mqcreate", "enqueue", "report", "take", "first", "next",
                    "rotate", "pushback", "bounce"} => op[t] = "none"
  BY <1>0, Local, HandFacts
<1>d. InCode(t) => pc[t] # "launched"
  BY <1>0 DEF InCode, ThreadInv, Hands
<1>1. CASE MqPush(t)
  BY <1>0, <1>1, <1>a, <1>b, <1>c DEF MqPush, svcVars, runVars, MqTypeOK,
     RunTypeOK, OpTypeOK
<1>2. CASE ContextRelease(t)
  BY <1>0, <1>2, <1>a, <1>b, <1>c DEF ContextRelease, mqVars, MqTypeOK,
     RunTypeOK, OpTypeOK
<1>3. CASE MarkRelease(t)
  BY <1>0, <1>3, <1>a, <1>b, <1>c DEF MarkRelease, svcVars, runVars, MqTypeOK,
     RunTypeOK, OpTypeOK
<1>4. CASE DeleteContext(t)
  BY <1>0, <1>4, <1>a, <1>b, <1>c DEF DeleteContext, mqVars, runVars, MqTypeOK,
     RunTypeOK, OpTypeOK
<1>5. CASE Publish(t)
  BY <1>0, <1>5, <1>a, <1>b, <1>c DEF Publish, mqVars, opVars, MqTypeOK,
     RunTypeOK, OpTypeOK
<1>6. CASE MqCreate(t)
  BY <1>0, <1>6, <1>a, <1>b, <1>c DEF MqCreate, opVars, MqTypeOK, RunTypeOK,
     OpTypeOK, InLaunch
<1>7. CASE InitReturns(t)
  BY <1>0, <1>7, <1>a, <1>b, <1>c DEF InitReturns, Free, svcVars, mqVars,
     MqTypeOK, RunTypeOK, OpTypeOK
<1>8. CASE InitFails(t)
  BY <1>0, <1>8, <1>a, <1>b, <1>c DEF InitFails, Log, GrabToPush, Free, mqVars,
     opVars, MqTypeOK, RunTypeOK, OpTypeOK
<1>9. CASE SetInit(t)
  BY <1>0, <1>9, <1>a, <1>b, <1>c DEF SetInit, Free, mqVars, opVars, MqTypeOK,
     RunTypeOK, OpTypeOK
<1>10. CASE Enqueue(t)
  BY <1>0, <1>10, <1>a, <1>b, <1>c DEF Enqueue, svcVars, opVars, MqTypeOK,
     RunTypeOK, OpTypeOK
<1>11. CASE Report(t)
  BY <1>0, <1>11, <1>a, <1>b, <1>c DEF Report, Log, GrabToPush, mqVars, opVars,
     MqTypeOK, RunTypeOK, OpTypeOK
<1>12. CASE FailRelease(t)
  BY <1>0, <1>12, <1>a, <1>b, <1>c DEF FailRelease, Free, svcVars, mqVars,
     MqTypeOK, RunTypeOK, OpTypeOK, InLaunch
<1>13. CASE FailRetire(t)
  BY <1>0, <1>13, <1>a, <1>b, <1>c DEF FailRetire, Free, Retire, svcVars,
     mqVars, opVars, MqTypeOK, RunTypeOK, OpTypeOK
<1>14. CASE GlobalPop(t)
  BY <1>0, <1>14, <1>a, <1>b, <1>c DEF GlobalPop, svcVars, opVars, MqTypeOK,
     RunTypeOK, OpTypeOK
<1>15. CASE Take(t)
  BY <1>0, <1>15, <1>a, <1>b, <1>c DEF Take, mqVars, opVars, MqTypeOK,
     RunTypeOK, OpTypeOK
<1>16. CASE PopMessage(t)
  BY <1>0, <1>16, <1>a, <1>b, <1>c DEF PopMessage, svcVars, opVars, MqTypeOK,
     RunTypeOK, OpTypeOK
<1>17. CASE PopEmpty(t)
  BY <1>0, <1>17, <1>a, <1>b, <1>c DEF PopEmpty, ReleaseCur, svcVars, MqTypeOK,
     RunTypeOK, OpTypeOK
<1>18. CASE CallbackReturns(t) \/ SizeBatch(t)
  BY <1>0, <1>18, <1>a, <1>b, <1>c DEF CallbackReturns, SizeBatch, Free, svcVars, mqVars,
     opVars, MqTypeOK, RunTypeOK, OpTypeOK
<1>19. CASE Rotate(t)
  BY <1>0, <1>19, <1>a, <1>b, <1>c DEF Rotate, ReleaseCur, svcVars, MqTypeOK,
     RunTypeOK, OpTypeOK
<1>20. CASE PushBack(t)
  BY <1>0, <1>20, <1>a, <1>b, <1>c DEF PushBack, ReleaseCur, svcVars, MqTypeOK,
     RunTypeOK, OpTypeOK
<1>21. CASE Return(t)
  BY <1>0, <1>21, <1>a, <1>b, <1>c DEF Return, Free, svcVars, mqVars, opVars,
     MqTypeOK, RunTypeOK, OpTypeOK
<1>22. CASE MqRelease(t)
  BY <1>0, <1>22, <1>a, <1>b, <1>c DEF MqRelease, Free, LeaveMqRelease,
     svcVars, opVars, MqTypeOK, RunTypeOK, OpTypeOK
<1>23. CASE DropMessage(t)
  BY <1>0, <1>23, <1>a, <1>b, <1>c DEF DropMessage, Free, svcVars, opVars,
     MqTypeOK, RunTypeOK, OpTypeOK, InRelease
<1>24. CASE Bounce(t)
  BY <1>0, <1>24, <1>a, <1>b, <1>c DEF Bounce, GrabToPush, mqVars, opVars,
     MqTypeOK, RunTypeOK, OpTypeOK
<1>25. CASE ReleaseMq(t)
  BY <1>0, <1>25, <1>a, <1>b, <1>c DEF ReleaseMq, Free, LeaveMqRelease,
     svcVars, opVars, MqTypeOK, RunTypeOK, OpTypeOK, InRelease
<1>26. CASE \E d \in Services : Send(t, d)
  BY <1>0, <1>26, <1>a, <1>b, <1>c, <1>d DEF Send, GrabToPush, mqVars, runVars,
     MqTypeOK, RunTypeOK, OpTypeOK
<1>27. CASE \E d \in Services : Kill(t, d)
  BY <1>0, <1>27, <1>a, <1>b, <1>c, <1>d DEF Kill, Retire, mqVars, runVars,
     MqTypeOK, RunTypeOK, OpTypeOK
<1>28. CASE \E d \in Services : Launch(t, d)
  BY <1>0, <1>28, <1>a, <1>b, <1>c DEF Launch, InCode, Free, mqVars, opVars,
     MqTypeOK, RunTypeOK, OpTypeOK
<1> QED BY <1>1, <1>2, <1>3, <1>4, <1>5, <1>6, <1>7, <1>8, <1>9, <1>10, <1>11,
   <1>12, <1>13, <1>14, <1>15, <1>16, <1>17, <1>18, <1>19, <1>20, <1>21, <1>22,
   <1>23, <1>24, <1>25, <1>26, <1>27, <1>28 DEF Progress, KernelCall,
   Launching, Dispatching, Releasing, Choice

LEMMA SignedKept ==
  ASSUME MqTypeOK, MqTypeOK', NEW t \in Threads, SourceLocal(t), NEW s \in Services,
         Signed(s)
  PROVE  \A i \in 1..Len(msgs'[s]) : Known(msgs'[s][i].src)
<1>1. CASE msgs'[s] = msgs[s]
  BY <1>1 DEF Signed
<1>2. CASE msgs[s] # <<>> /\ msgs'[s] = Tail(msgs[s])
  <2>1. /\ Len(msgs'[s]) = Len(msgs[s]) - 1 /\ Len(msgs[s]) \in Nat
        /\ \A i \in 1..Len(msgs'[s]) : msgs'[s][i] = msgs[s][i + 1]
    BY <1>2 DEF MqTypeOK
  <2> QED BY <2>1 DEF Signed
<1>3. ASSUME NEW m \in Message, Known(m.src), msgs'[s] = Append(msgs[s], m)
      PROVE  \A i \in 1..Len(msgs'[s]) : Known(msgs'[s][i].src)
  <2>1. /\ Len(msgs'[s]) = Len(msgs[s]) + 1 /\ Len(msgs[s]) \in Nat
        /\ \A i \in 1..Len(msgs[s]) : msgs'[s][i] = msgs[s][i]
        /\ msgs'[s][Len(msgs[s]) + 1] = m
    BY <1>3 DEF MqTypeOK
  <2> QED BY <1>3, <2>1 DEF Signed
<1> QED BY <1>1, <1>2, <1>3 DEF SourceLocal

\* Handles get around only once the mailbox exists.
LEMMA SourcesStep ==
  ASSUME MqInv, PlaceInv, TypeOK', [Next]_vars
  PROVE  Sources'
<1>0. /\ ThreadInv /\ Sources /\ MqTypeOK /\ RunTypeOK /\ OpTypeOK
      /\ MqTypeOK' /\ RunTypeOK' /\ OpTypeOK'
  BY DEF MqInv, RefInv, ThreadInv, TypeOK
<1>a. NoOne \notin Services /\ Boot \in Services
  BY DispatchAssumption
<1>1. ASSUME NEW t \in Threads, Progress(t) \/ Choice(t)
      PROVE  Sources'
  <2>1. Alone(t) /\ SourceLocal(t)
    BY <1>0, <1>1, StepsAlone, SourceSteps
  <2>2. \A h \in Services \cup {NoOne} : Known(h) => Known(h)'
    BY <1>a, <2>1 DEF SourceLocal, Known
  <2>3. Known(Boot)'
    BY <1>0, <1>a, <2>2 DEF Sources
  <2>4. ASSUME NEW s \in Services, NEW i \in 1..Len(msgs'[s])
        PROVE  Known(msgs[s][i].src)'
    <3>1. Known(msgs'[s][i].src)
      BY <1>0, <2>1, SignedKept DEF Sources, Signed
    <3>2. msgs'[s][i].src \in Services \cup {NoOne}
      <4>1. msgs'[s] \in Seq(Message)
        BY <1>0 DEF MqTypeOK
      <4>2. msgs'[s][i] \in Message
        BY <4>1
      <4> QED BY <4>2 DEF Message
    <3> QED BY <2>1, <3>1, <3>2 DEF SourceLocal, Known
  <2>5. ASSUME NEW u \in Threads
        PROVE  /\ Known(msg[u].src)' /\ Known(out[u].src)' /\ Known(ret[u])'
               /\ pc'[u] = "launched" /\ op'[u] # "none" => arg'[u] = new'[u]
    <3>1. {msg'[u].src, out'[u].src, ret'[u]} \subseteq Services \cup {NoOne}
      BY <1>0 DEF RunTypeOK, OpTypeOK, Message, Hand
    <3>2. /\ Known(msg'[u].src) /\ Known(out'[u].src) /\ Known(ret'[u])
          /\ pc'[u] = "launched" /\ op'[u] # "none" => arg'[u] = new'[u]
      BY <1>0, <2>1 DEF Alone, SourceLocal, Sources
    <3> QED BY <2>1, <3>1, <3>2 DEF SourceLocal, Known
  <2> QED BY <2>3, <2>4, <2>5 DEF Sources
<1>2. CASE UNCHANGED vars
  BY <1>0, <1>2 DEF vars, mqVars, runVars, opVars, Sources, Known
<1> QED BY <1>1, <1>2 DEF Next, AllIdle

-----------------------------------------------------------------------------
(* The invariant and what follows from it.                                 *)

LEMMA MqInit ==
  ASSUME Init
  PROVE  MqInv
<1>0. Boot \in Services /\ NoOne \notin Services
  BY DispatchAssumption
<1>1. RefInv
  BY RefInit
<1>2. Births /\ Seals /\ Flagged
  BY <1>0 DEF Init, Births, Seals, Flagged
<1>3. Sources
  BY <1>0 DEF Init, Sources, Known, NoMsg
<1>4. /\ Len(globalQ) = 1 /\ globalQ[1] = Boot
      /\ \A s : InGlobalQ(s) <=> s = Boot
  BY DEF Init, InGlobalQ
<1>5. \A s \in Services, w \in Threads : ~Holds(w, s)
  BY <1>0 DEF Init, Holds
<1>6. ScheduledOnce
  BY <1>4, <1>5 DEF Init, ScheduledOnce
<1>7. FlagMeansPlaced /\ MailboxSafe
  BY <1>0, <1>4, <1>5 DEF Init, FlagMeansPlaced, MailboxSafe, Placed
<1> QED BY <1>1, <1>2, <1>3, <1>6, <1>7 DEF MqInv

LEMMA MqStep ==
  ASSUME MqInv, [Next]_vars
  PROVE  MqInv'
<1>1. RefInv'
  BY RefInvStep DEF MqInv
<1>2. PlaceInv /\ PlaceInv'
  BY PlaceIs, PlaceStep
<1>3. Births' /\ Seals' /\ Flagged' /\ Sources'
  BY <1>1, <1>2, BirthsStep, SealsStep, SourcesStep DEF RefInv, ThreadInv
<1>4. \A t \in Threads, s \in Services : WillUse(t, s)' => mem'[s] = "live"
  BY <1>1, UseStep
<1>5. ScheduledOnce' /\ FlagMeansPlaced'
  BY <1>2 DEF PlaceInv, NoDup, HandsApart, OnePlace, FlagOK, ScheduledOnce,
     FlagMeansPlaced
<1>6. MailboxSafe'
  BY <1>2, <1>4 DEF PlaceInv, FlagOK, MailboxSafe, WillUse
<1> QED BY <1>1, <1>3, <1>5, <1>6 DEF MqInv

\* The invariant holds in every reachable state.
LEMMA MqInvariance == Spec => []MqInv
<1> QED BY MqInit, MqStep, PTL DEF Spec

\* A mailbox is never twice in the global queue, nor in the queue and with a
\* worker, nor with two workers: the assertion queue->next == NULL of
\* skynet_globalmq_push cannot fail.
THEOREM MailboxScheduledOnce == Spec => []ScheduledOnce
<1>1. MqInv => ScheduledOnce
  BY DEF MqInv
<1> QED BY <1>1, MqInvariance, PTL

\* in_global is set exactly while a live mailbox is in the queue or with a worker,
\* or is marked for release, whatever skynet_mq_pop, _push and _mark_release do.
THEOREM FlagExact == Spec => []FlagMeansPlaced
<1>1. MqInv => FlagMeansPlaced
  BY DEF MqInv
<1> QED BY <1>1, MqInvariance, PTL

\* Whatever the order of pushes, pops and marks, a mailbox with messages is in the
\* global queue or with a worker that will run or drop them.
THEOREM WakeupNeverLost == Spec => []NoLostWakeup
<1>1. MqInv => NoLostWakeup
  BY DEF MqInv, Flagged, FlagMeansPlaced, NoLostWakeup
<1> QED BY <1>1, MqInvariance, PTL

\* No two workers are in skynet_context_message_dispatch for one service at
\* once, though its mailbox moves between the queue and their hands.
THEOREM NeverTwoDispatchers == Spec => []OneDispatcher
<1>1. MqInv => OneDispatcher
  <2> SUFFICES ASSUME MqInv, NEW v \in Threads, NEW w \in Threads,
                      cur[v] # NoOne, cur[v] = cur[w]
               PROVE  v = w
    BY DEF OneDispatcher
  <2>1. q[v] = cur[v] /\ q[w] = cur[v]
    BY DEF MqInv, RefInv, ThreadInv, Hands
  <2>2. cur[v] \in Services
    BY HandFacts DEF MqInv, RefInv
  <2> QED BY <2>1, <2>2 DEF MqInv, ScheduledOnce, Holds
<1> QED BY <1>1, MqInvariance, PTL

\* Who holds a mailbox, finds it in the global queue, pushes to it or marks it,
\* finds its memory there: _release comes after all of them.
THEOREM MailboxesSafe == Spec => []MailboxSafe
<1>1. MqInv => MailboxSafe
  BY DEF MqInv
<1> QED BY <1>1, MqInvariance, PTL

-----------------------------------------------------------------------------
\* The abstract state.
Lives == [s \in Services |-> Life(s)]
Runs  == [s \in Services |-> Running(s)]

\* The part thread t has in Running(s).
RunsBy(t, s) == /\ t \in Workers /\ cur[t] = s
                /\ pc[t] \notin {"first", "next", "rotate", "pushback"}

LEMMA RunsParts ==
  ASSUME NEW t \in Threads, Alone(t), NEW s \in Services
  PROVE  /\ Running(s) <=> RunsBy(t, s) \/ \E u \in Workers \ {t} : RunsBy(u, s)
         /\ Running(s)' <=> RunsBy(t, s)' \/ \E u \in Workers \ {t} : RunsBy(u, s)
<1>1. \A u \in Workers \ {t} : RunsBy(u, s)' <=> RunsBy(u, s)
  BY DEF Alone, RunsBy, Threads
<1>2. Running(s) <=> \E u \in Workers : RunsBy(u, s)
  BY DEF Running, RunsBy
<1>3. Running(s)' <=> \E u \in Workers : RunsBy(u, s)'
  BY DEF Running, RunsBy
<1>4. /\ RunsBy(t, s) => t \in Workers
      /\ RunsBy(t, s)' => t \in Workers
  BY DEF RunsBy
<1> QED BY <1>1, <1>2, <1>3, <1>4

\* A service that is being dispatched by t is dispatched by nobody else.
LEMMA RunsAlone ==
  ASSUME MqInv, NEW t \in Threads, cur[t] # NoOne
  PROVE  \A u \in Workers \ {t} : ~RunsBy(u, cur[t])
<1>1. \A u \in Threads : cur[u] # NoOne => q[u] = cur[u] /\ cur[u] \in Services
  BY HandFacts DEF MqInv, RefInv, ThreadInv, Hands
<1>2. ScheduledOnce
  BY DEF MqInv
<1> QED BY <1>1, <1>2 DEF ScheduledOnce, Holds, RunsBy, Threads

-----------------------------------------------------------------------------
(* The steps no actor sees.                                                *)

LEMMA SilentSteps ==
  ASSUME MqInv, NEW t \in Threads,
         \/ ContextRelease(t) \/ DeleteContext(t) \/ Publish(t)
         \/ InitReturns(t) \/ InitFails(t) \/ SetInit(t) \/ Enqueue(t)
         \/ Report(t) \/ FailRelease(t) \/ GlobalPop(t) \/ Take(t)
         \/ PopEmpty(t) \/ Rotate(t) \/ PushBack(t) \/ Return(t)
         \/ MqRelease(t) \/ Bounce(t) \/ SizeBatch(t)
         \/ (\E d \in Services : Send(t, d)) \/ (\E d \in Services : Launch(t, d))
  PROVE  /\ msgs' = msgs
         /\ \A s \in Services : /\ Life(s)' = Life(s)
                                /\ RunsBy(t, s)' <=> RunsBy(t, s)
<1> USE DEF Life, RunsBy
<1>0. /\ RunTypeOK /\ SvcTypeOK /\ NoOne \notin Services /\ ThreadInv
      /\ Workers \cap Clients = {}
  BY DispatchAssumption DEF MqInv, RefInv, ThreadInv, TypeOK
<1>h. /\ pc[t] = "take" => cur[t] = NoOne
      /\ pc[t] = "done" => cur[t] = NoOne
      /\ pc[t] = "idle" => cur[t] = NoOne
      /\ pc[t] \in InRelease /\ new[t] = NoOne => cur[t] = NoOne
  BY <1>0 DEF ThreadInv, Hands, InLaunch, InRelease
<1>p. pc[t] = "publish" => new[t] \in Services /\ mem[new[t]] = "none"
  BY <1>0, HandFacts DEF MqInv, Births, InLaunch
<1>l. \A d \in Services : ctx[d] = "none" => mem[d] = "none"
  BY DEF MqInv, Births
<1>1. CASE ContextRelease(t)
  BY <1>0, <1>1, <1>h DEF ContextRelease, mqVars, SvcTypeOK, RunTypeOK
<1>2. CASE DeleteContext(t)
  BY <1>0, <1>2, <1>h DEF DeleteContext, mqVars, runVars, SvcTypeOK, RunTypeOK
<1>3. CASE Publish(t)
  BY <1>0, <1>3, <1>h, <1>p DEF Publish, mqVars, opVars, SvcTypeOK, RunTypeOK
<1>4. CASE InitReturns(t)
  BY <1>0, <1>4, <1>h DEF InitReturns, Free, svcVars, mqVars, SvcTypeOK,
     RunTypeOK
<1>5. CASE InitFails(t)
  BY <1>0, <1>5, <1>h DEF InitFails, Log, GrabToPush, Free, mqVars, opVars,
     SvcTypeOK, RunTypeOK
<1>6. CASE SetInit(t)
  BY <1>0, <1>6, <1>h DEF SetInit, Free, mqVars, opVars, SvcTypeOK, RunTypeOK
<1>7. CASE Enqueue(t)
  BY <1>0, <1>7, <1>h DEF Enqueue, svcVars, opVars, SvcTypeOK, RunTypeOK
<1>8. CASE Report(t)
  BY <1>0, <1>8, <1>h DEF Report, Log, GrabToPush, mqVars, opVars, SvcTypeOK,
     RunTypeOK
<1>9. CASE FailRelease(t)
  BY <1>0, <1>9, <1>h DEF FailRelease, Free, svcVars, mqVars, SvcTypeOK,
     RunTypeOK
<1>10. CASE GlobalPop(t)
  BY <1>0, <1>10, <1>h DEF GlobalPop, svcVars, opVars, SvcTypeOK, RunTypeOK
<1>11. CASE Take(t)
  BY <1>0, <1>11, <1>h DEF Take, mqVars, opVars, SvcTypeOK, RunTypeOK
<1>12. CASE PopEmpty(t)
  BY <1>0, <1>12, <1>h DEF PopEmpty, ReleaseCur, svcVars, SvcTypeOK, RunTypeOK
<1>13. CASE Rotate(t)
  BY <1>0, <1>13, <1>h DEF Rotate, ReleaseCur, svcVars, SvcTypeOK, RunTypeOK
<1>14. CASE PushBack(t)
  BY <1>0, <1>14, <1>h DEF PushBack, ReleaseCur, svcVars, SvcTypeOK, RunTypeOK
<1>15. CASE Return(t)
  BY <1>0, <1>15, <1>h DEF Return, Free, svcVars, mqVars, opVars, SvcTypeOK,
     RunTypeOK
<1>16. CASE MqRelease(t)
  BY <1>0, <1>16, <1>h DEF MqRelease, Free, LeaveMqRelease, svcVars, opVars,
     SvcTypeOK, RunTypeOK, InRelease
<1>17. CASE Bounce(t)
  BY <1>0, <1>17, <1>h DEF Bounce, GrabToPush, mqVars, opVars, SvcTypeOK,
     RunTypeOK
<1>18. CASE \E d \in Services : Send(t, d)
  BY <1>0, <1>18, <1>h DEF Send, GrabToPush, InCode, Free, mqVars, runVars,
     SvcTypeOK, RunTypeOK
<1>19. CASE \E d \in Services : Launch(t, d)
  BY <1>0, <1>19, <1>h, <1>l DEF Launch, InCode, Free, mqVars, opVars, SvcTypeOK,
     RunTypeOK
<1>20. CASE SizeBatch(t)
  BY <1>0, <1>20 DEF SizeBatch, svcVars, mqVars, RunTypeOK
<1> QED BY <1>1, <1>2, <1>3, <1>4, <1>5, <1>6, <1>7, <1>8, <1>9, <1>10, <1>11,
   <1>12, <1>13, <1>14, <1>15, <1>16, <1>17, <1>18, <1>19, <1>20

LEMMA SilentMaps ==
  ASSUME MqInv, NEW t \in Threads, Alone(t), msgs' = msgs,
         \A s \in Services : /\ Life(s)' = Life(s)
                             /\ RunsBy(t, s)' <=> RunsBy(t, s)
  PROVE  UNCHANGED <<Lives, msgs, Runs>>
<1>1. \A s \in Services : Running(s)' <=> Running(s)
  BY RunsParts
<1>2. Runs' = Runs
  BY <1>1 DEF Runs, Running
<1>3. Lives' = Lives
  BY DEF Lives
<1> QED BY <1>2, <1>3

-----------------------------------------------------------------------------
(* The steps of an actor.                                                  *)

\* A step of t that starts and ends no handling of a message.
LEMMA SameRuns ==
  ASSUME NEW t \in Threads, Alone(t), pc' = pc, cur' = cur
  PROVE  Runs' = Runs
BY DEF Runs, Running

LEMMA LivesChange ==
  ASSUME NEW x \in Services, \A s \in Services \ {x} : Life(s)' = Life(s)
  PROVE  Lives' = [Lives EXCEPT ![x] = Life(x)']
BY DEF Lives

LEMMA RunsChange ==
  ASSUME NEW t \in Threads, Alone(t), NEW x \in Services,
         \A s \in Services \ {x} : RunsBy(t, s)' <=> RunsBy(t, s)
  PROVE  /\ \A s \in Services \ {x} : Running(s)' <=> Running(s)
         /\ Runs' = [Runs EXCEPT ![x] = Running(x)']
<1>1. \A s \in Services \ {x} : Running(s)' <=> Running(s)
  BY RunsParts
<1>2. \A s : Running(s) \in BOOLEAN /\ Running(s)' \in BOOLEAN
  BY DEF Running
<1>3. \A s \in Services \ {x} : Running(s)' = Running(s)
  BY <1>1, <1>2
<1> QED BY <1>1, <1>3 DEF Runs

\* A push of a message is an acceptance: who pushes has a reference.
LEMMA PushAccepts ==
  ASSUME MqInv, NEW t \in Threads, Alone(t), MqPush(t)
  PROVE  \E s \in Services : Actor!Accept(s)
<1>1. PICK d \in Services : d = arg[t]
  BY Local DEF MqInv, RefInv, MqPush
<1>2. mem[d] = "live" /\ release[d] = 0
  BY <1>1, Unsealed DEF MqPush, Referenced, Callers, MqInv, MailboxSafe
<1>3. Life(d) \in {"open", "closed"}
  BY <1>2 DEF Life
<1>4. Lives' = Lives /\ Runs' = Runs
  BY DEF MqPush, svcVars, runVars, Lives, Life, Runs, Running
<1>5. PICK m \in Message : msgs' = [msgs EXCEPT ![d] = Append(@, m)]
  BY <1>1 DEF MqPush, MqInv, RefInv, ThreadInv, TypeOK, OpTypeOK
<1>6. Actor!Accept(d)
  BY <1>3, <1>4, <1>5 DEF Actor!Accept, Lives, Runs
<1> QED BY <1>6

\* The mark for release seals: no callback runs, nothing finds the service.
LEMMA MarkSeals ==
  ASSUME MqInv, NEW t \in Threads, Alone(t), MarkRelease(t)
  PROVE  \E s \in Services : Actor!Seal(s)
<1>1. PICK d \in Services : d = arg[t]
  BY Local DEF MqInv, RefInv, MarkRelease
<1>2. mem[d] = "live" /\ release[d] = 0
  BY <1>1, Unsealed DEF MarkRelease, MqInv, MailboxSafe
<1>3. slot[d] = "no" /\ Dispatchers(d) = {}
  BY <1>1 DEF MarkRelease, MqInv, RefInv, ContextSafe, Deletes, Referenced
<1>4. ~Running(d)
  BY <1>3 DEF Running, Dispatchers, Threads
<1>5. Runs' = Runs /\ msgs' = msgs
  BY DEF MarkRelease, svcVars, runVars, Runs, Running
<1>6. Life(d) = "closed"
  BY <1>2, <1>3 DEF Life
<1>7. /\ slot' = slot /\ mem' = mem /\ release' = [release EXCEPT ![d] = 1]
      /\ release \in [Services -> {0, 1}]
  BY <1>1 DEF MarkRelease, svcVars, MqInv, RefInv, ThreadInv, TypeOK, MqTypeOK
<1>8. Life(d)' = "sealed" /\ \A s \in Services \ {d} : Life(s)' = Life(s)
  BY <1>2, <1>7 DEF Life
<1>9. Lives' = [Lives EXCEPT ![d] = "sealed"]
  BY <1>8, LivesChange
<1>10. Actor!Seal(d)
  BY <1>4, <1>5, <1>6, <1>9 DEF Actor!Seal, Actor!Become, Lives, Runs
<1> QED BY <1>10

\* The mailbox is made: the service is open, or somebody has retired it already.
LEMMA MqCreates ==
  ASSUME MqInv, NEW t \in Threads, Alone(t), MqCreate(t)
  PROVE  \E s \in Services : Actor!Create(s)
<1>1. PICK x \in Services : x = new[t]
  BY Local DEF MqInv, RefInv, MqCreate, InLaunch
<1>2. mem[x] = "none" /\ release[x] # 1
  <2>1. mem[x] = "none" /\ t \in Creators(x)
    BY <1>1 DEF MqCreate, MqInv, Births, Creators
  <2> QED BY <2>1, Unsealed DEF Referenced
<1>3. /\ mem' = [mem EXCEPT ![x] = "live"] /\ slot' = slot /\ release' = release
      /\ msgs' = msgs /\ mem \in [Services -> {"none", "live", "freed"}]
  BY <1>1 DEF MqCreate, MqInv, RefInv, ThreadInv, TypeOK, MqTypeOK
<1>4. /\ Life(x) = "unborn" /\ Life(x)' \in {"open", "closed"}
      /\ \A s \in Services \ {x} : Life(s)' = Life(s)
  BY <1>2, <1>3 DEF Life
<1>5. \A s \in Services : RunsBy(t, s)' <=> RunsBy(t, s)
  BY DEF MqCreate, RunsBy, MqInv, RefInv, ThreadInv, TypeOK, RunTypeOK
<1>6. \A s \in Services : Running(s)' <=> Running(s)
  BY <1>5, RunsParts
<1>7. Runs' = Runs
  BY <1>6 DEF Runs, Running
<1>8. Lives' = [Lives EXCEPT ![x] = Life(x)']
  BY <1>4, LivesChange
<1>9. Actor!Create(x)
  BY <1>3, <1>4, <1>7, <1>8 DEF Actor!Create, Actor!Become, Lives, Runs
<1> QED BY <1>9

\* A retired service is closed; before its mailbox exists nobody notices.
LEMMA RetireCloses ==
  ASSUME MqInv, NEW t \in Threads, Alone(t),
         FailRetire(t) \/ \E d \in Services : Kill(t, d)
  PROVE  \/ \E s \in Services : Actor!Close(s)
         \/ UNCHANGED <<Lives, msgs, Runs>>
<1>0. /\ RunTypeOK /\ SvcTypeOK /\ MqTypeOK
      /\ pc[t] = "failretire" => new[t] \in Services
  BY Local DEF MqInv, RefInv, ThreadInv, TypeOK, InLaunch
<1>1. /\ mem' = mem /\ release' = release /\ msgs' = msgs
      /\ \A s \in Services : RunsBy(t, s)' <=> RunsBy(t, s)
  BY <1>0 DEF FailRetire, Kill, Retire, mqVars, runVars, RunsBy, RunTypeOK
<1>2. \A s \in Services : Running(s)' <=> Running(s)
  BY <1>1, RunsParts
<1>3. Runs' = Runs
  BY <1>2 DEF Runs, Running
<1>4. CASE slot' = slot
  BY <1>1, <1>3, <1>4 DEF Lives, Life
<1>5. ASSUME NEW d \in Services, slot[d] = "published",
             slot' = [slot EXCEPT ![d] = "no"]
      PROVE  \/ \E s \in Services : Actor!Close(s)
             \/ UNCHANGED <<Lives, msgs, Runs>>
  <2>1. \A s \in Services \ {d} : Life(s)' = Life(s)
    BY <1>0, <1>1, <1>5 DEF Life, SvcTypeOK
  <2>2. CASE mem[d] = "none"
    <3>1. Life(d)' = Life(d)
      BY <1>1, <2>2 DEF Life
    <3>2. Lives' = Lives
      BY <2>1, <3>1 DEF Lives
    <3> QED BY <1>1, <1>3, <3>2
  <2>3. CASE mem[d] # "none"
    <3>1. release[d] = 0 /\ ctx[d] = "live"
      BY <1>5, Unsealed DEF Referenced
    <3>2. mem[d] = "live"
      BY <1>0, <2>3, <3>1 DEF MqInv, Seals, MqTypeOK
    <3>3. Life(d) = "open" /\ Life(d)' = "closed"
      BY <1>0, <1>1, <1>5, <3>1, <3>2 DEF Life, SvcTypeOK
    <3>4. Lives' = [Lives EXCEPT ![d] = "closed"]
      BY <2>1, <3>3, LivesChange
    <3>5. Actor!Close(d)
      BY <1>1, <1>3, <3>3, <3>4 DEF Actor!Close, Actor!Become, Lives, Runs
    <3> QED BY <3>5
  <2> QED BY <2>2, <2>3
<1> QED BY <1>0, <1>4, <1>5 DEF FailRetire, Kill, Retire, svcVars

\* skynet_mq_pop of the first message starts its handling, with none in progress.
LEMMA PopStarts ==
  ASSUME MqInv, NEW t \in Threads, Alone(t), PopMessage(t)
  PROVE  \E s \in Services : Actor!Start(s)
<1>0. RunTypeOK /\ SvcTypeOK /\ ThreadInv
  BY DEF MqInv, RefInv, ThreadInv, TypeOK
<1>1. PICK c \in Services : c = cur[t] /\ c = q[t] /\ c # NoOne /\ t \in Workers
  <2>1. cur[t] \in Services /\ t \in Workers
    BY <1>0, Local, HandFacts DEF PopMessage
  <2>2. cur[t] # NoOne /\ cur[t] = q[t]
    BY <1>0, <2>1, DispatchAssumption DEF ThreadInv, Hands
  <2> QED BY <2>1, <2>2
<1>2. release[c] = 0
  BY <1>1, Unsealed DEF Referenced, Dispatchers
<1>3. mem[c] = "live"
  BY <1>1 DEF MqInv, MailboxSafe, Placed, Holds
<1>4. Life(c) \in {"open", "closed"}
  BY <1>2, <1>3 DEF Life
<1>5. ~Running(c)
  <2>1. ~RunsBy(t, c)
    BY DEF PopMessage, RunsBy
  <2> QED BY <1>1, <2>1, RunsAlone, RunsParts
<1>6. /\ RunsBy(t, c)'
      /\ \A s \in Services \ {c} : RunsBy(t, s)' <=> RunsBy(t, s)
  BY <1>0, <1>1 DEF PopMessage, RunsBy, RunTypeOK
<1>7. Running(c)' = TRUE
  BY <1>6, RunsParts DEF Running
<1>8. Runs' = [Runs EXCEPT ![c] = TRUE]
  BY <1>6, <1>7, RunsChange
<1>9. Lives' = Lives /\ msgs[c] # <<>> /\ msgs' = [msgs EXCEPT ![c] = Tail(@)]
  BY <1>1 DEF PopMessage, svcVars, Lives, Life
<1>10. Actor!Start(c)
  BY <1>4, <1>5, <1>8, <1>9 DEF Actor!Start, Lives, Runs
<1> QED BY <1>10

\* The callback returns, and the service handles nothing.
LEMMA ReturnFinishes ==
  ASSUME MqInv, NEW t \in Threads, Alone(t), CallbackReturns(t)
  PROVE  \E s \in Services : Actor!Finish(s)
<1>0. RunTypeOK /\ SvcTypeOK /\ ThreadInv
  BY DEF MqInv, RefInv, ThreadInv, TypeOK
<1>1. PICK c \in Services : c = cur[t] /\ c # NoOne /\ t \in Workers
  <2>1. cur[t] # NoOne /\ t \in Workers
    BY <1>0, HandFacts DEF CallbackReturns, ThreadInv, Hands, InRelease
  <2> QED BY <1>0, <2>1, HandFacts
<1>2. /\ RunsBy(t, c) /\ ~RunsBy(t, c)'
      /\ \A s \in Services \ {c} : RunsBy(t, s)' <=> RunsBy(t, s)
  BY <1>0, <1>1 DEF CallbackReturns, RunsBy, RunTypeOK
<1>3. Running(c) /\ ~Running(c)'
  BY <1>1, <1>2, RunsAlone, RunsParts
<1>4. Running(c)' = FALSE
  BY <1>3
<1>5. Runs' = [Runs EXCEPT ![c] = FALSE]
  BY <1>2, <1>4, RunsChange
<1>6. Lives' = Lives /\ msgs' = msgs
  BY DEF CallbackReturns, svcVars, mqVars, Lives, Life
<1>7. Actor!Finish(c)
  BY <1>3, <1>5, <1>6 DEF Actor!Finish, Lives, Runs
<1> QED BY <1>7

\* What _drop_queue pops is discarded: the mailbox is sealed.
LEMMA DropDiscards ==
  ASSUME MqInv, NEW t \in Threads, Alone(t), DropMessage(t)
  PROVE  \E s \in Services : Actor!Discard(s)
<1>0. RunTypeOK /\ SvcTypeOK /\ ThreadInv
  BY DEF MqInv, RefInv, ThreadInv, TypeOK
<1>1. PICK v \in Services : v = Victim(t)
  BY <1>0, HandFacts DEF DropMessage, InRelease
<1>2. mem[v] = "live" /\ release[v] = 1
  BY <1>1 DEF DropMessage, MqInv, Seals, MailboxSafe, Placed, Holds, Victim
<1>3. Life(v) = "sealed"
  BY <1>2 DEF Life
<1>4. \A s \in Services : RunsBy(t, s)' <=> RunsBy(t, s)
  BY <1>0 DEF DropMessage, RunsBy, RunTypeOK
<1>5. \A s \in Services : Running(s)' <=> Running(s)
  BY <1>4, RunsParts
<1>6. Runs' = Runs
  BY <1>5 DEF Runs, Running
<1>7. Lives' = Lives /\ msgs[v] # <<>> /\ msgs' = [msgs EXCEPT ![v] = Tail(@)]
  BY <1>1 DEF DropMessage, svcVars, Lives, Life
<1>8. Actor!Discard(v)
  BY <1>3, <1>6, <1>7 DEF Actor!Discard, Lives, Runs
<1> QED BY <1>8

\* The mailbox is freed when it is empty, and the actor is gone.
LEMMA ReleaseVanishes ==
  ASSUME MqInv, NEW t \in Threads, Alone(t), ReleaseMq(t)
  PROVE  \E s \in Services : Actor!Vanish(s)
<1>0. RunTypeOK /\ SvcTypeOK /\ MqTypeOK /\ ThreadInv
  BY DEF MqInv, RefInv, ThreadInv, TypeOK
<1>1. PICK v \in Services : v = Victim(t)
  BY <1>0, HandFacts DEF ReleaseMq, InRelease
<1>2. mem[v] = "live" /\ release[v] = 1
  BY <1>1 DEF ReleaseMq, MqInv, Seals, MailboxSafe, Placed, Holds, Victim
<1>3. /\ slot' = slot /\ release' = release /\ msgs' = msgs
      /\ mem' = [mem EXCEPT ![v] = "freed"]
  BY <1>1 DEF ReleaseMq, svcVars
<1>4. /\ Life(v) = "sealed" /\ Life(v)' = "gone"
      /\ \A s \in Services \ {v} : Life(s)' = Life(s)
  BY <1>0, <1>2, <1>3 DEF Life, MqTypeOK
<1>5. Lives' = [Lives EXCEPT ![v] = "gone"]
  BY <1>4, LivesChange
<1>6. pc[t] = "drop" /\ new[t] = NoOne => cur[t] = NoOne
  BY <1>0 DEF ThreadInv, Hands, InRelease
<1>7. \A s \in Services : RunsBy(t, s)' <=> RunsBy(t, s)
  BY <1>0, <1>6, DispatchAssumption DEF ReleaseMq, LeaveMqRelease, RunsBy, RunTypeOK
<1>8. \A s \in Services : Running(s)' <=> Running(s)
  BY <1>7, RunsParts
<1>9. Runs' = Runs
  BY <1>8 DEF Runs, Running
<1>10. Actor!Vanish(v)
  BY <1>1, <1>3, <1>4, <1>5, <1>9 DEF ReleaseMq, Actor!Vanish, Actor!Become, Lives,
     Runs
<1> QED BY <1>10

-----------------------------------------------------------------------------
(* The refinement.                                                         *)

LEMMA InitMaps == Init => Actor!Init
<1> SUFFICES ASSUME Init
             PROVE  Actor!Init
  OBVIOUS
<1>1. \A s \in Services : Life(s) = IF s = Boot THEN "open" ELSE "unborn"
  BY DEF Init, Life
<1>2. ASSUME NEW s \in Services
      PROVE  Running(s) = FALSE
  <2>1. \A w \in Workers : cur[w] # s
    BY DispatchAssumption DEF Init, Threads
  <2> QED BY <2>1 DEF Running
<1>3. Lives = [s \in Services |-> IF s = Boot THEN "open" ELSE "unborn"]
  BY <1>1 DEF Lives
<1>4. Runs = [s \in Services |-> FALSE]
  BY <1>2 DEF Runs
<1> QED BY <1>3, <1>4 DEF Init, Actor!Init, Lives, Runs

LEMMA StepMaps ==
  ASSUME MqInv, [Next]_vars
  PROVE  [Actor!Next]_<<Lives, msgs, Runs>>
<1>1. ASSUME NEW t \in Threads, Progress(t) \/ Choice(t)
      PROVE  [Actor!Next]_<<Lives, msgs, Runs>>
  <2>1. Alone(t)
    BY <1>1, StepsAlone DEF MqInv, RefInv
  <2>2. CASE MqPush(t)
    BY <2>1, <2>2, PushAccepts DEF Actor!Next
  <2>3. CASE MarkRelease(t)
    BY <2>1, <2>3, MarkSeals DEF Actor!Next
  <2>4. CASE MqCreate(t)
    BY <2>1, <2>4, MqCreates DEF Actor!Next
  <2>5. CASE FailRetire(t) \/ \E d \in Services : Kill(t, d)
    BY <2>1, <2>5, RetireCloses DEF Actor!Next
  <2>6. CASE PopMessage(t)
    BY <2>1, <2>6, PopStarts DEF Actor!Next
  <2>7. CASE CallbackReturns(t)
    BY <2>1, <2>7, ReturnFinishes DEF Actor!Next
  <2>8. CASE DropMessage(t)
    BY <2>1, <2>8, DropDiscards DEF Actor!Next
  <2>9. CASE ReleaseMq(t)
    BY <2>1, <2>9, ReleaseVanishes DEF Actor!Next
  <2>10. ASSUME ~MqPush(t), ~MarkRelease(t), ~MqCreate(t), ~FailRetire(t),
                ~PopMessage(t), ~CallbackReturns(t), ~DropMessage(t),
                ~ReleaseMq(t), ~\E d \in Services : Kill(t, d)
         PROVE  UNCHANGED <<Lives, msgs, Runs>>
    <3>1. /\ msgs' = msgs
          /\ \A s \in Services : /\ Life(s)' = Life(s)
                                 /\ RunsBy(t, s)' <=> RunsBy(t, s)
      BY <1>1, <2>10, SilentSteps DEF Progress, KernelCall, Launching,
         Dispatching, Releasing, Choice
    <3> QED BY <2>1, <3>1, SilentMaps
  <2> QED BY <2>2, <2>3, <2>4, <2>5, <2>6, <2>7, <2>8, <2>9, <2>10
<1>2. CASE UNCHANGED vars
  BY <1>2 DEF vars, svcVars, mqVars, runVars, Lives, Life, Runs, Running
<1> QED BY <1>1, <1>2 DEF Next, AllIdle

\* Seen from the services the scheduler is a set of actors: a message is queued at
\* the end of a mailbox that exists, taken from its head while no other is being
\* handled, and discarded only when nothing can find or run the service, whatever
\* the workers, the global queue and the reference counts do in between.
THEOREM SchedulerImplementsActors == Spec => ImplementsActors
<1>1. Init => Actor!Init
  BY InitMaps
<1>2. MqInv /\ [Next]_vars => [Actor!Next]_<<Lives, msgs, Runs>>
  BY StepMaps
<1>3. MqInv /\ [Next]_vars => [Actor!Next]_Actor!vars
  BY <1>2 DEF Actor!vars, Lives, Runs
<1> QED BY <1>1, <1>3, MqInvariance, PTL DEF Spec, ImplementsActors, Actor!Spec

-----------------------------------------------------------------------------
(* Launching: initialisation, and the count that CHECK_ABORT tests.        *)

\* What a step of t does to what Initialised says.
InitLocal(t) ==
  /\ \A s \in Services :
       /\ init[s] = TRUE => init'[s] = TRUE
       /\ slot'[s] = "published" => \/ slot[s] = "published"
                                    \/ new[t] = s /\ new'[t] = s
       /\ new[t] = s /\ new'[t] # s /\ slot'[s] = "published" => init'[s] = TRUE
  /\ cur'[t] # NoOne => init'[cur'[t]] = TRUE
  /\ pc'[t] = "enqueue" /\ slot'[new'[t]] = "published" => init'[new'[t]] = TRUE
  /\ pc'[t] = "launched" /\ op'[t] = "none" /\ slot'[new'[t]] = "published"
       => ret'[t] = new'[t]
  /\ new'[t] # NoOne /\ pc'[t] \in InRelease => slot'[new'[t]] # "published"

LEMMA InitSteps ==
  ASSUME MqInv, Initialised, NEW t \in Threads, Progress(t) \/ Choice(t)
  PROVE  InitLocal(t)
<1> USE DEF InitLocal
<1>0. SvcTypeOK /\ RunTypeOK /\ OpTypeOK /\ ThreadInv
  BY DEF MqInv, RefInv, ThreadInv, TypeOK
<1>a. /\ cur[t] # NoOne => init[cur[t]] = TRUE
      /\ pc[t] = "enqueue" /\ slot[new[t]] = "published" => init[new[t]] = TRUE
      /\ pc[t] = "launched" /\ op[t] = "none" /\ slot[new[t]] = "published"
           => ret[t] = new[t]
      /\ new[t] # NoOne /\ pc[t] \in InRelease => slot[new[t]] # "published"
  BY DEF Initialised
<1>b. /\ op[t] # "none" => arg[t] \in Services
      /\ pc[t] \in InLaunch => new[t] \in Services
      /\ new[t] # NoOne => pc[t] \in InLaunch \cup InRelease /\ new[t] \in Services
      /\ cur[t] # NoOne => cur[t] \in Services
      /\ ret[t] # NoOne => ret[t] \in Services
      /\ pc[t] \in {"publish", "mqcreate", "enqueue", "report", "take", "first", "next",
                    "rotate", "pushback", "bounce"} => op[t] = "none"
      /\ NoOne \notin Services
  <2>1. new[t] \in Hand
    BY <1>0 DEF RunTypeOK
  <2> QED BY <1>0, <2>1, Local, HandFacts, DispatchAssumption DEF Hand
<1>c. pc[t] = "take" /\ slot[q[t]] = "published" => init[q[t]] = TRUE /\ q[t] \in Services
  <2> SUFFICES ASSUME pc[t] = "take", slot[q[t]] = "published"
               PROVE  init[q[t]] = TRUE /\ q[t] \in Services
    OBVIOUS
  <2>1. q[t] \in Services /\ Holds(t, q[t]) /\ Placed(q[t])
    BY <1>0, HandFacts DEF Holds, Placed
  <2>2. mem[q[t]] = "live"
    BY <2>1 DEF MqInv, MailboxSafe
  <2>3. ASSUME NEW u \in Threads, new[u] = q[t]
        PROVE  FALSE
    <3>1. pc[u] \notin {"publish", "mqcreate"}
      BY <2>1, <2>2, <2>3 DEF MqInv, Births
    <3>2. Holds(u, q[t])
      BY <2>3, <3>1 DEF Holds
    <3>3. u = t
      BY <2>1, <3>2 DEF MqInv, ScheduledOnce
    <3> QED BY <1>b, <2>1, <2>3, <3>3 DEF MqInv, ScheduledOnce
  <2> QED BY <2>1, <2>3 DEF Initialised
<1>d. pc[t] = "launched" /\ op[t] = "none" /\ slot[new[t]] = "published"
        => ctx[new[t]] = "live"
  BY <1>b DEF InLaunch, MqInv, RefInv, ContextSafe, Referenced
<1>e. /\ pc[t] = "launched" /\ op[t] # "none" => arg[t] = new[t]
      /\ op[t] = "free" => slot[arg[t]] = "no"
  BY <1>b DEF MqInv, Sources, RefInv, ContextSafe, Deletes, Referenced
<1>1. CASE MqPush(t)
  BY <1>0, <1>1, <1>a, <1>b DEF MqPush, svcVars, runVars, SvcTypeOK, RunTypeOK,
     OpTypeOK, InLaunch, InRelease
<1>2. CASE ContextRelease(t)
  BY <1>0, <1>2, <1>a, <1>b, <1>e DEF ContextRelease, mqVars, SvcTypeOK,
     RunTypeOK, OpTypeOK, InLaunch, InRelease
<1>3. CASE MarkRelease(t)
  BY <1>0, <1>3, <1>a, <1>b DEF MarkRelease, svcVars, runVars, SvcTypeOK,
     RunTypeOK, OpTypeOK, InLaunch, InRelease
<1>4. CASE DeleteContext(t)
  BY <1>0, <1>4, <1>a, <1>b, <1>e DEF DeleteContext, mqVars, runVars,
     SvcTypeOK, RunTypeOK, OpTypeOK, InLaunch, InRelease
<1>5. CASE Publish(t)
  BY <1>0, <1>5, <1>a, <1>b DEF Publish, mqVars, opVars, SvcTypeOK, RunTypeOK,
     OpTypeOK, InLaunch, InRelease
<1>6. CASE MqCreate(t)
  BY <1>0, <1>6, <1>a, <1>b DEF MqCreate, opVars, SvcTypeOK, RunTypeOK,
     OpTypeOK, InLaunch, InRelease
<1>7. CASE InitReturns(t)
  BY <1>0, <1>7, <1>a, <1>b DEF InitReturns, Free, svcVars, mqVars, SvcTypeOK,
     RunTypeOK, OpTypeOK, InLaunch, InRelease
<1>8. CASE InitFails(t)
  BY <1>0, <1>8, <1>a, <1>b DEF InitFails, Log, GrabToPush, Free, mqVars,
     opVars, SvcTypeOK, RunTypeOK, OpTypeOK, InLaunch, InRelease
<1>9. CASE SetInit(t)
  BY <1>0, <1>9, <1>a, <1>b, <1>d DEF SetInit, Free, mqVars, opVars, SvcTypeOK,
     RunTypeOK, OpTypeOK, InLaunch, InRelease
<1>10. CASE Enqueue(t)
  BY <1>0, <1>10, <1>a, <1>b DEF Enqueue, svcVars, opVars, SvcTypeOK,
     RunTypeOK, OpTypeOK, InLaunch, InRelease
<1>11. CASE Report(t)
  BY <1>0, <1>11, <1>a, <1>b DEF Report, Log, GrabToPush, mqVars, opVars,
     SvcTypeOK, RunTypeOK, OpTypeOK, InLaunch, InRelease
<1>12. CASE FailRelease(t)
  BY <1>0, <1>12, <1>a, <1>b DEF FailRelease, Free, svcVars, mqVars, SvcTypeOK,
     RunTypeOK, OpTypeOK, InLaunch, InRelease
<1>13. CASE FailRetire(t)
  BY <1>0, <1>13, <1>a, <1>b DEF FailRetire, Free, Retire, svcVars, mqVars,
     opVars, SvcTypeOK, RunTypeOK, OpTypeOK, InLaunch, InRelease
<1>14. CASE GlobalPop(t)
  BY <1>0, <1>14, <1>a, <1>b DEF GlobalPop, svcVars, opVars, SvcTypeOK,
     RunTypeOK, OpTypeOK, InLaunch, InRelease
<1>15. CASE Take(t)
  BY <1>0, <1>15, <1>a, <1>b, <1>c DEF Take, mqVars, opVars, SvcTypeOK,
     RunTypeOK, OpTypeOK, InLaunch, InRelease
<1>16. CASE PopMessage(t)
  BY <1>0, <1>16, <1>a, <1>b DEF PopMessage, svcVars, opVars, SvcTypeOK,
     RunTypeOK, OpTypeOK, InLaunch, InRelease
<1>17. CASE PopEmpty(t)
  BY <1>0, <1>17, <1>a, <1>b DEF PopEmpty, ReleaseCur, svcVars, SvcTypeOK,
     RunTypeOK, OpTypeOK, InLaunch, InRelease
<1>18. CASE CallbackReturns(t) \/ SizeBatch(t)
  BY <1>0, <1>18, <1>a, <1>b DEF CallbackReturns, SizeBatch, Free, svcVars, mqVars,
     opVars, SvcTypeOK, RunTypeOK, OpTypeOK, InLaunch, InRelease
<1>19. CASE Rotate(t)
  BY <1>0, <1>19, <1>a, <1>b DEF Rotate, ReleaseCur, svcVars, SvcTypeOK,
     RunTypeOK, OpTypeOK, InLaunch, InRelease
<1>20. CASE PushBack(t)
  BY <1>0, <1>20, <1>a, <1>b DEF PushBack, ReleaseCur, svcVars, SvcTypeOK,
     RunTypeOK, OpTypeOK, InLaunch, InRelease
<1>21. CASE Return(t)
  BY <1>0, <1>21, <1>a, <1>b DEF Return, Free, svcVars, mqVars, opVars,
     SvcTypeOK, RunTypeOK, OpTypeOK, InLaunch, InRelease
<1>22. CASE MqRelease(t)
  BY <1>0, <1>22, <1>a, <1>b DEF MqRelease, Free, LeaveMqRelease, svcVars,
     opVars, SvcTypeOK, RunTypeOK, OpTypeOK, InLaunch, InRelease
<1>23. CASE DropMessage(t)
  BY <1>0, <1>23, <1>a, <1>b DEF DropMessage, Free, svcVars, opVars, SvcTypeOK,
     RunTypeOK, OpTypeOK, InLaunch, InRelease
<1>24. CASE Bounce(t)
  BY <1>0, <1>24, <1>a, <1>b DEF Bounce, GrabToPush, mqVars, opVars, SvcTypeOK,
     RunTypeOK, OpTypeOK, InLaunch, InRelease
<1>25. CASE ReleaseMq(t)
  BY <1>0, <1>25, <1>a, <1>b DEF ReleaseMq, Free, LeaveMqRelease, svcVars,
     opVars, SvcTypeOK, RunTypeOK, OpTypeOK, InLaunch, InRelease
<1>26. CASE \E d \in Services : Send(t, d)
  BY <1>0, <1>26, <1>a, <1>b, <1>e DEF Send, GrabToPush, mqVars, runVars,
     SvcTypeOK, RunTypeOK, OpTypeOK, InLaunch, InRelease
<1>27. CASE \E d \in Services : Kill(t, d)
  BY <1>0, <1>27, <1>a, <1>b, <1>e DEF Kill, Retire, mqVars, runVars,
     SvcTypeOK, RunTypeOK, OpTypeOK, InLaunch, InRelease
<1>28. CASE \E d \in Services : Launch(t, d)
  BY <1>0, <1>28, <1>a, <1>b DEF Launch, InCode, Free, mqVars, opVars,
     SvcTypeOK, RunTypeOK, OpTypeOK, InLaunch, InRelease
<1> QED BY <1>1, <1>2, <1>3, <1>4, <1>5, <1>6, <1>7, <1>8, <1>9, <1>10, <1>11,
   <1>12, <1>13, <1>14, <1>15, <1>16, <1>17, <1>18, <1>19, <1>20, <1>21, <1>22,
   <1>23, <1>24, <1>25, <1>26, <1>27, <1>28 DEF Progress, KernelCall,
   Launching, Dispatching, Releasing, Choice

LEMMA InitialisedStep ==
  ASSUME MqInv, MqInv', Initialised, [Next]_vars
  PROVE  Initialised'
<1>0. /\ ThreadInv /\ Newborns /\ RunTypeOK /\ SvcTypeOK /\ NoOne \notin Services
      /\ RunTypeOK'
  BY DispatchAssumption DEF MqInv, RefInv, ThreadInv, TypeOK
<1>1. ASSUME NEW t \in Threads, Progress(t) \/ Choice(t)
      PROVE  Initialised'
  <2>1. Alone(t) /\ InitLocal(t)
    BY <1>0, <1>1, StepsAlone, InitSteps
  <2>2. ASSUME NEW s \in Services, slot'[s] = "published",
               \A u \in Threads : new'[u] # s
        PROVE  init'[s]
    <3>1. slot[s] = "published"
      BY <2>1, <2>2 DEF InitLocal
    <3>2. CASE new[t] = s
      BY <2>1, <2>2, <3>2 DEF InitLocal
    <3>3. CASE new[t] # s
      <4>1. \A u \in Threads : new[u] # s
        BY <2>1, <2>2, <3>3 DEF Alone
      <4>2. init[s] = TRUE
        BY <3>1, <4>1 DEF Initialised
      <4> QED BY <2>1, <4>2 DEF InitLocal
    <3> QED BY <3>2, <3>3
  <2>3. ASSUME NEW u \in Threads
        PROVE  /\ cur'[u] # NoOne => init'[cur'[u]]
               /\ pc'[u] = "enqueue" /\ slot'[new'[u]] = "published" => init'[new'[u]]
               /\ pc'[u] = "launched" /\ op'[u] = "none" /\ slot'[new'[u]] = "published"
                    => ret'[u] = new'[u]
               /\ new'[u] # NoOne /\ pc'[u] \in InRelease
                    => slot'[new'[u]] # "published"
    <3>1. CASE u = t
      BY <2>1, <3>1 DEF InitLocal
    <3>2. CASE u # t
      <4>1. /\ cur'[u] = cur[u] /\ pc'[u] = pc[u] /\ op'[u] = op[u]
            /\ new'[u] = new[u] /\ ret'[u] = ret[u]
        BY <2>1, <3>2 DEF Alone
      <4>2. /\ cur[u] # NoOne => cur[u] \in Services
            /\ new[u] # NoOne => new[u] \in Services
            /\ pc[u] \in InLaunch => new[u] # NoOne
        BY <1>0, HandFacts DEF RunTypeOK, Hand, ThreadInv, Hands
      <4>3. new[u] # NoOne /\ slot'[new[u]] = "published" => slot[new[u]] = "published"
        BY <1>0, <2>1, <3>2, <4>2 DEF InitLocal, Newborns
      <4>4. cur[u] # NoOne => init'[cur[u]] = TRUE
        <5>1. cur[u] # NoOne => init[cur[u]] = TRUE
          BY DEF Initialised
        <5> QED BY <2>1, <4>2, <5>1 DEF InitLocal
      <4>5. pc[u] = "enqueue" /\ slot'[new[u]] = "published" => init'[new[u]] = TRUE
        <5>1. pc[u] = "enqueue" /\ slot[new[u]] = "published" => init[new[u]] = TRUE
          BY DEF Initialised
        <5> QED BY <2>1, <4>2, <4>3, <5>1 DEF InitLocal, InLaunch
      <4>6. /\ pc[u] = "launched" /\ op[u] = "none" /\ slot'[new[u]] = "published"
                 => ret[u] = new[u]
            /\ new[u] # NoOne /\ pc[u] \in InRelease => slot'[new[u]] # "published"
        BY <4>2, <4>3 DEF Initialised, InLaunch
      <4> QED BY <4>1, <4>4, <4>5, <4>6
    <3> QED BY <3>1, <3>2
  <2> QED BY <2>2, <2>3 DEF Initialised
<1>2. CASE UNCHANGED vars
  BY <1>2 DEF vars, svcVars, runVars, opVars, Initialised
<1> QED BY <1>1, <1>2 DEF Next, AllIdle

-----------------------------------------------------------------------------
(* The count of the contexts.                                              *)

\* What t deletes has been counted, and a context being launched has not.
LEMMA CountedFacts ==
  ASSUME MqInv, NEW t \in Threads
  PROVE  /\ op[t] = "free" => arg[t] \in Counted
         /\ pc[t] = "mqcreate" => /\ new[t] \in Services \ Counted
                                 /\ ctx[new[t]] = "live"
<1>0. ThreadInv /\ Births /\ ContextSafe /\ Seals
  BY DEF MqInv, RefInv
<1>1. ASSUME op[t] = "free"
      PROVE  arg[t] \in Counted
  <2>1. PICK d \in Services : d = arg[t]
    BY <1>0, <1>1, Local
  <2>2. ctx[d] = "live" /\ Creators(d) = {}
    BY <1>0, <1>1, <2>1 DEF ContextSafe, Deletes, Referenced
  <2>3. mem[d] # "none"
    BY <1>0, <2>2 DEF Births, Creators
  <2> QED BY <2>1, <2>2, <2>3 DEF Counted
<1>2. ASSUME pc[t] = "mqcreate"
      PROVE  new[t] \in Services \ Counted /\ ctx[new[t]] = "live"
  <2>1. PICK d \in Services : d = new[t]
    BY <1>0, <1>2, Local DEF InLaunch
  <2>2. t \in Creators(d)
    BY <1>2, <2>1 DEF Creators
  <2>3. ctx[d] = "live" /\ mem[d] = "none"
    BY <1>0, <1>2, <2>1, <2>2 DEF ContextSafe, Referenced, Births
  <2> QED BY <2>1, <2>3 DEF Counted
<1> QED BY <1>1, <1>2

LEMMA TotalStep ==
  ASSUME MqInv, MqInv', TotalExact, [Next]_vars
  PROVE  TotalExact'
<1>0. /\ SvcTypeOK /\ MqTypeOK /\ RunTypeOK /\ OpTypeOK /\ ThreadInv /\ Births
      /\ MqTypeOK' /\ Births'
  BY DEF MqInv, RefInv, ThreadInv, TypeOK
<1>a. IsFiniteSet(Counted) /\ Cardinality(Counted) \in Nat
  BY DispatchAssumption, FS_Subset, FS_CardinalityType DEF Counted
<1>1. ASSUME Counted' = Counted, total' = total
      PROVE  TotalExact'
  BY <1>1 DEF TotalExact
<1>2. ASSUME NEW t \in Threads, MqCreate(t)
      PROVE  TotalExact'
  <2>1. PICK x \in Services : x = new[t] /\ x \notin Counted /\ ctx[x] = "live"
    BY <1>2, CountedFacts DEF MqCreate
  <2>2. Counted' = Counted \cup {x} /\ total' = total + 1
    BY <1>0, <1>2, <2>1 DEF MqCreate, Counted, MqTypeOK
  <2>3. Cardinality(Counted \cup {x}) = Cardinality(Counted) + 1
    BY <1>a, <2>1, FS_AddElement
  <2> QED BY <2>2, <2>3 DEF TotalExact
<1>3. ASSUME NEW t \in Threads, DeleteContext(t)
      PROVE  TotalExact'
  <2>1. PICK d \in Services : d = arg[t] /\ d \in Counted
    BY <1>3, CountedFacts DEF DeleteContext, Counted
  <2>2. Counted' = Counted \ {d} /\ total' = total - 1
    BY <1>0, <1>3, <2>1 DEF DeleteContext, mqVars, Counted, SvcTypeOK
  <2>3. Cardinality(Counted \ {d}) = Cardinality(Counted) - 1
    BY <1>a, <2>1, FS_RemoveElement
  <2> QED BY <2>2, <2>3 DEF TotalExact
<1>4. ASSUME NEW t \in Threads, NEW d \in Services, Launch(t, d)
      PROVE  TotalExact'
  <2>1. mem[d] = "none"
    BY <1>0, <1>4 DEF Launch, Births
  <2>2. Counted' = Counted /\ total' = total
    BY <1>0, <1>4, <2>1 DEF Launch, mqVars, Counted, SvcTypeOK
  <2> QED BY <1>1, <2>2
<1>5. ASSUME NEW t \in Threads, ReleaseMq(t)
      PROVE  TotalExact'
  <2>1. PICK v \in Services : v = Victim(t)
    BY <1>0, <1>5, HandFacts DEF ReleaseMq, InRelease
  <2>2. mem[v] # "none"
    BY <1>5, <2>1 DEF ReleaseMq, MqInv, MailboxSafe, Placed, Holds, Victim
  <2>3. Counted' = Counted /\ total' = total
    BY <1>0, <1>5, <2>1, <2>2 DEF ReleaseMq, svcVars, Counted, MqTypeOK
  <2> QED BY <1>1, <2>3
<1>6. ASSUME NEW t \in Threads, Progress(t) \/ Choice(t), ~MqCreate(t),
             ~DeleteContext(t), ~ReleaseMq(t), ~\E d \in Services : Launch(t, d)
      PROVE  UNCHANGED <<ctx, mem, total>>
  <2>1. CASE MqPush(t)
    BY <2>1 DEF MqPush, svcVars
  <2>2. CASE ContextRelease(t)
    BY <2>2 DEF ContextRelease, mqVars
  <2>3. CASE MarkRelease(t)
    BY <2>3 DEF MarkRelease, svcVars
  <2>4. CASE Publish(t)
    BY <2>4 DEF Publish, mqVars
  <2>5. CASE InitReturns(t)
    BY <2>5 DEF InitReturns, svcVars, mqVars
  <2>6. CASE InitFails(t)
    BY <2>6 DEF InitFails, mqVars
  <2>7. CASE SetInit(t)
    BY <2>7 DEF SetInit, mqVars
  <2>8. CASE Enqueue(t)
    BY <2>8 DEF Enqueue, svcVars
  <2>9. CASE Report(t)
    BY <2>9 DEF Report, mqVars
  <2>10. CASE FailRelease(t)
    BY <2>10 DEF FailRelease, svcVars, mqVars
  <2>11. CASE FailRetire(t)
    BY <2>11 DEF FailRetire, Retire, svcVars, mqVars
  <2>12. CASE GlobalPop(t)
    BY <2>12 DEF GlobalPop, svcVars
  <2>13. CASE Take(t)
    BY <2>13 DEF Take, mqVars
  <2>14. CASE PopMessage(t)
    BY <2>14 DEF PopMessage, svcVars
  <2>15. CASE PopEmpty(t)
    BY <2>15 DEF PopEmpty, svcVars
  <2>16. CASE CallbackReturns(t) \/ SizeBatch(t)
    BY <2>16 DEF CallbackReturns, SizeBatch, svcVars, mqVars
  <2>17. CASE Rotate(t)
    BY <2>17 DEF Rotate, svcVars
  <2>18. CASE PushBack(t)
    BY <2>18 DEF PushBack, svcVars
  <2>19. CASE Return(t)
    BY <2>19 DEF Return, svcVars, mqVars
  <2>20. CASE MqRelease(t)
    BY <2>20 DEF MqRelease, svcVars
  <2>21. CASE DropMessage(t)
    BY <2>21 DEF DropMessage, svcVars
  <2>22. CASE Bounce(t)
    BY <2>22 DEF Bounce, mqVars
  <2>23. CASE \E d \in Services : Send(t, d)
    BY <2>23 DEF Send, mqVars
  <2>24. CASE \E d \in Services : Kill(t, d)
    BY <2>24 DEF Kill, Retire, mqVars
  <2> QED BY <1>6, <2>1, <2>2, <2>3, <2>4, <2>5, <2>6, <2>7, <2>8, <2>9, <2>10,
     <2>11, <2>12, <2>13, <2>14, <2>15, <2>16, <2>17, <2>18, <2>19, <2>20,
     <2>21, <2>22, <2>23, <2>24
     DEF Progress, KernelCall, Launching, Dispatching, Releasing, Choice
<1>7. CASE UNCHANGED vars
  BY <1>1, <1>7 DEF vars, svcVars, mqVars, Counted
<1>8. ASSUME UNCHANGED <<ctx, mem, total>>
      PROVE  TotalExact'
  BY <1>1, <1>8 DEF Counted
<1> QED BY <1>2, <1>3, <1>4, <1>5, <1>6, <1>7, <1>8 DEF Next, AllIdle

LEMMA IInit ==
  ASSUME Init
  PROVE  IInv
<1>0. Boot \in Services /\ NoOne \notin Services
  BY DispatchAssumption
<1>1. MqInv
  BY MqInit
<1>2. Initialised
  BY <1>0 DEF Init, Initialised, InRelease
<1>3. TotalExact
  <2>1. Counted = {Boot}
    BY <1>0 DEF Init, Counted
  <2> QED BY <2>1, FS_Singleton DEF Init, TotalExact
<1> QED BY <1>1, <1>2, <1>3 DEF IInv

LEMMA IStep ==
  ASSUME IInv, [Next]_vars
  PROVE  IInv'
BY MqStep, InitialisedStep, TotalStep DEF IInv

\* The invariant holds in every reachable state.
LEMMA Invariance == Spec => []IInv
<1> QED BY IInit, IStep, PTL DEF Spec

\* A callback runs only when ctx->init has been set, on the mailbox of its own
\* service; a mailbox is marked for release once: the assertions of
\* dispatch_message, skynet_context_message_dispatch and skynet_mq_mark_release.
THEOREM AssertionsHold == Spec => []CodeAssertions
<1>1. IInv => CodeAssertions
  <2> SUFFICES ASSUME IInv
               PROVE  CodeAssertions
    OBVIOUS
  <2>1. ASSUME NEW w \in Workers, pc[w] = "callback", cur[w] # NoOne
        PROVE  init[cur[w]] /\ q[w] = cur[w]
    <3>1. w \in Threads
      BY DEF Threads
    <3>2. init[cur[w]]
      BY <2>1, <3>1 DEF IInv, Initialised
    <3>3. q[w] = cur[w]
      BY <2>1, <3>1 DEF IInv, MqInv, RefInv, ThreadInv, Hands
    <3> QED BY <3>2, <3>3
  <2>2. ASSUME NEW t \in Threads, op[t] = "mark"
        PROVE  release[arg[t]] = 0
    <3>1. PICK d \in Services : d = arg[t]
      BY <2>2, Local DEF IInv, MqInv, RefInv
    <3> QED BY <2>2, <3>1, Unsealed DEF IInv
  <2> QED BY <2>1, <2>2 DEF CodeAssertions
<1> QED BY <1>1, Invariance, PTL

\* When G_NODE.total is 0, which ends the process (CHECK_ABORT), no context is
\* left, not even one between skynet_handle_register and context_inc: its launcher
\* runs in the callback of a service that is counted.
THEOREM AbortIsSafe == Spec => []AbortMeansEmpty
<1>1. IInv => AbortMeansEmpty
  <2> SUFFICES ASSUME IInv, total = 0, NEW s \in Services, ctx[s] = "live"
               PROVE  FALSE
    BY DEF AbortMeansEmpty
  <2>0. MqInv /\ ThreadInv /\ Births /\ MailboxSafe /\ ContextSafe
    BY DEF IInv, MqInv, RefInv
  <2>1. Counted = {}
    <3>1. IsFiniteSet(Counted)
      BY DispatchAssumption, FS_Subset DEF Counted
    <3> QED BY <3>1, FS_EmptySet DEF IInv, TotalExact
  <2>2. mem[s] = "none"
    BY <2>1 DEF Counted
  <2>3. PICK t \in Threads : pc[t] \in {"publish", "mqcreate"}
    BY <2>0, <2>2 DEF Births
  <2>4. cur[t] \in Services /\ q[t] = cur[t]
    BY <2>0, <2>3, HandFacts DEF ThreadInv, Hands, InRelease
  <2>5. ctx[cur[t]] = "live"
    BY <2>0, <2>4 DEF ContextSafe, Referenced, Dispatchers
  <2>6. mem[cur[t]] = "live"
    BY <2>0, <2>4 DEF MailboxSafe, Placed, Holds
  <2> QED BY <2>1, <2>4, <2>5, <2>6 DEF Counted
<1> QED BY <1>1, Invariance, PTL
==============================================================================
