-------------------------- MODULE SkynetLua_proofs --------------------------
(***************************************************************************)
(* What a Lua service promises to its coroutines, for every number of       *)
(* coroutines, services, sessions and levels: skynet.queue is exclusive,    *)
(* whoever waits is found, and nobody is stranded without an error.         *)
(*                                                                         *)
(* The invariant has three layers, each used by the next.  LuaIInv: only    *)
(* coroutines are resumed, which takes that the sessions of timers, where   *)
(* "BREAK" is left, and those of calls, which are told of errors, are       *)
(* apart.  WaitersIInv: where a coroutine is agrees with the tables.        *)
(* CleanIInv: until an error, what was woken is resumed in the turn, and    *)
(* the queue is handed over to a coroutine that has been woken.             *)
(***************************************************************************)
EXTENDS SkynetLua, TLAPS

\* A sequence over a set is one over a larger set.
LEMMA SeqMonotonic ==
  ASSUME NEW S, NEW T, S \subseteq T, NEW q \in Seq(S) PROVE q \in Seq(T)
OBVIOUS

\* The tail of a sequence over a set is one over the set.
LEMMA TailOf ==
  ASSUME NEW S, NEW q \in Seq(S), q # <<>> PROVE Tail(q) \in Seq(S)
OBVIOUS

\* What does not touch the closure of skynet.queue keeps what holds of it.
LEMMA QueueKept ==
  ASSUME QueueOK, UNCHANGED mutexQ PROVE QueueOK'
BY DEF QueueOK, QueueExclusive, mutexQ

\* No call and no timer begins, and no error is reported.
LEMMA SessionsKept ==
  ASSUME SessionsOK,
         session' = session, timers' \subseteq timers,
         DOMAIN watching_session' \subseteq DOMAIN watching_session,
         \/ error_queue' = error_queue
         \/ error_queue # <<>> /\ error_queue' = Tail(error_queue)
  PROVE  SessionsOK'
<1>1. (1..session) \ timers \subseteq (1..session') \ timers'
  OBVIOUS
<1>2. error_queue' \in Seq((1..session) \ timers)
  BY DEF SessionsOK
<1>3. error_queue' \in Seq((1..session') \ timers')
  BY <1>1, <1>2, SeqMonotonic
<1> QED BY <1>3 DEF SessionsOK

\* A call, a sleep or a timer begins, with the next session.
LEMMA SessionBegins ==
  ASSUME SessionsOK,
         session' = session + 1, error_queue' = error_queue,
         \/ timers' = timers /\ DOMAIN watching_session' \subseteq DOMAIN watching_session \cup {session'}
         \/ timers' \subseteq timers \cup {session'} /\ watching_session' = watching_session
  PROVE  SessionsOK'
<1>1. (1..session) \ timers \subseteq (1..session') \ timers'
  BY DEF SessionsOK
<1>2. error_queue' \in Seq((1..session') \ timers')
  BY <1>1, SeqMonotonic DEF SessionsOK
<1>3. session' \in Nat /\ timers' \subseteq 1..session'
  <2>1. session' \in Nat /\ session' \in 1..session'
    BY DEF SessionsOK
  <2>2. timers \subseteq 1..session'
    BY DEF SessionsOK
  <2> QED BY <2>1, <2>2
<1>4. DOMAIN watching_session' \subseteq (1..session') \ timers'
  <2>1. session' \in 1..session' /\ session' \notin timers /\ session' \notin DOMAIN watching_session
    BY DEF SessionsOK
  <2>2. DOMAIN watching_session \subseteq 1..session'
    BY DEF SessionsOK
  <2>3. DOMAIN watching_session \cap timers = {}
    BY DEF SessionsOK
  <2> QED BY <2>1, <2>2, <2>3
<1> QED BY <1>2, <1>3, <1>4 DEF SessionsOK

-----------------------------------------------------------------------------
(* What a coroutine does.                                                  *)

LEMMA CallKeeps ==
  ASSUME NEW v, LuaIInv, Call(v) PROVE LuaIInv'
<1>1. QueueOK'
  BY QueueKept DEF LuaIInv, Call, mutexQ
<1>2. SessionsOK'
  BY SessionBegins DEF LuaIInv, Call, Yield, With
<1>3. ResumedOK'
  BY DEF LuaIInv, ResumedOK, Call, Yield, With, Runs
<1> QED BY <1>1, <1>2, <1>3 DEF LuaIInv

LEMMA SleepKeeps ==
  ASSUME NEW timed \in BOOLEAN, LuaIInv, Sleep(timed) PROVE LuaIInv'
<1>1. QueueOK'
  BY QueueKept DEF LuaIInv, Sleep, mutexQ
<1>2. SessionsOK'
  BY SessionBegins DEF LuaIInv, Sleep, Yield
<1>3. ResumedOK'
  BY DEF LuaIInv, ResumedOK, Sleep, Yield, With, Runs
<1> QED BY <1>1, <1>2, <1>3 DEF LuaIInv

LEMMA TimeoutFuncKeeps ==
  ASSUME NEW c \in Cos, LuaIInv, TimeoutFunc(c) PROVE LuaIInv'
<1>1. QueueOK'
  BY QueueKept DEF LuaIInv, TimeoutFunc, mutexQ
<1>2. SessionsOK'
  BY SessionBegins DEF LuaIInv, TimeoutFunc
<1>3. ResumedOK'
  BY DEF LuaIInv, ResumedOK, TimeoutFunc, With
<1> QED BY <1>1, <1>2, <1>3 DEF LuaIInv

LEMMA ForkKeeps ==
  ASSUME NEW c \in Cos, LuaIInv, Fork(c) PROVE LuaIInv'
<1>1. QueueOK'
  BY QueueKept DEF LuaIInv, Fork, mutexQ
<1>2. SessionsOK'
  BY SessionsKept DEF LuaIInv, Fork, tables, outside
<1>3. ResumedOK'
  BY DEF LuaIInv, ResumedOK, Fork, tables, outside
<1> QED BY <1>1, <1>2, <1>3 DEF LuaIInv

LEMMA WakeupCoKeeps ==
  ASSUME NEW c \in Cos, LuaIInv, WakeupCo(c) PROVE LuaIInv'
<1>1. QueueOK'
  BY QueueKept DEF LuaIInv, WakeupCo, mutexQ
<1>2. SessionsOK'
  BY SessionsKept DEF LuaIInv, WakeupCo, outside
<1>3. ResumedOK'
  BY DEF LuaIInv, ResumedOK, WakeupCo, Woken1, outside
<1> QED BY <1>1, <1>2, <1>3 DEF LuaIInv

LEMMA EnterQueueKeeps ==
  ASSUME LuaIInv, EnterQueue PROVE LuaIInv'
<1>1. QueueOK'
  BY LuaAssumption DEF LuaIInv, QueueOK, QueueExclusive, ResumedOK, EnterQueue, Runs
<1>2. SessionsOK'
  BY SessionsKept DEF LuaIInv, EnterQueue, outside, tables
<1>3. ResumedOK'
  BY DEF LuaIInv, ResumedOK, EnterQueue, tables, outside
<1> QED BY <1>1, <1>2, <1>3 DEF LuaIInv

LEMMA WaitInQueueKeeps ==
  ASSUME LuaIInv, WaitInQueue PROVE LuaIInv'
<1>1. QueueOK'
  BY LuaAssumption DEF LuaIInv, QueueOK, QueueExclusive, ResumedOK, WaitInQueue, Runs
<1>2. SessionsOK'
  BY SessionBegins DEF LuaIInv, WaitInQueue, Yield
<1>3. ResumedOK'
  BY DEF LuaIInv, ResumedOK, WaitInQueue, Yield, With, Runs
<1> QED BY <1>1, <1>2, <1>3 DEF LuaIInv

LEMMA BackInQueueKeeps ==
  ASSUME LuaIInv, BackInQueue PROVE LuaIInv'
<1>1. QueueOK'
  BY LuaAssumption DEF LuaIInv, QueueOK, QueueExclusive, ResumedOK, BackInQueue
<1>2. SessionsOK'
  BY SessionsKept DEF LuaIInv, BackInQueue, outside, tables
<1>3. ResumedOK'
  BY DEF LuaIInv, ResumedOK, BackInQueue, tables, outside, Thrown
<1> QED BY <1>1, <1>2, <1>3 DEF LuaIInv

\* Whoever leaves some levels keeps the section, and whoever leaves all gives it up.
LEMMA Leaving ==
  ASSUME LuaIInv, running \in Cos, NEW n \in 1..depth[running], Leave(n)
  PROVE  QueueOK' /\ wakeup_session' \subseteq Cos
<1>1. ref = depth[running] /\ current_thread = running
      /\ \A c \in Cos : c # running => depth[c] = 0
  BY DEF LuaIInv, QueueOK, QueueExclusive
<1>2. depth' \in [Cos -> Nat] /\ ref' \in Nat /\ depth'[running] = ref'
      /\ \A c \in Cos : c # running => depth'[c] = 0
  BY <1>1 DEF LuaIInv, QueueOK, Leave
<1>3. thread_queue' \in Seq(Cos)
  <2>1. \/ thread_queue' = thread_queue
        \/ thread_queue # <<>> /\ thread_queue' = Tail(thread_queue)
    BY DEF Leave
  <2>2. thread_queue \in Seq(Cos)
    BY DEF LuaIInv, QueueOK
  <2> QED BY <2>1, <2>2, TailOf
<1>5. ref' # 0 => current_thread' = current_thread
  BY DEF Leave
<1>4. wakeup_session' \subseteq Cos
  BY DEF LuaIInv, QueueOK, ResumedOK, Leave, Woken1
<1> QED BY <1>1, <1>2, <1>3, <1>4, <1>5 DEF QueueOK, QueueExclusive

LEMMA LeaveQueueKeeps ==
  ASSUME LuaIInv, LeaveQueue PROVE LuaIInv'
<1>1. QueueOK'
  BY Leaving DEF LuaIInv, QueueOK, ResumedOK, LeaveQueue, Runs
<1>2. SessionsOK'
  BY SessionsKept DEF LuaIInv, LeaveQueue, outside
<1>3. ResumedOK'
  BY Leaving DEF LuaIInv, ResumedOK, LeaveQueue, Runs, outside, QueueOK
<1> QED BY <1>1, <1>2, <1>3 DEF LuaIInv

LEMMA CoErrorKeeps ==
  ASSUME LuaIInv, CoError PROVE LuaIInv'
<1>0. QueueOK' /\ wakeup_session' \subseteq Cos
  <2>1. CASE depth[running] > 0
    <3>1. running \in Cos /\ depth[running] \in 1..depth[running]
      BY <2>1 DEF LuaIInv, QueueOK, ResumedOK, CoError, Runs
    <3>2. Leave(depth[running])
      BY <2>1 DEF CoError
    <3> QED BY <3>1, <3>2, Leaving
  <2>2. CASE ~(depth[running] > 0)
    BY <2>2, QueueKept DEF LuaIInv, ResumedOK, CoError
  <2> QED BY <2>1, <2>2
<1>1. QueueOK'
  BY <1>0
<1>2. SessionsOK'
  BY SessionsKept DEF LuaIInv, CoError, outside
<1>3. ResumedOK'
  BY <1>0 DEF LuaIInv, ResumedOK, CoError, Thrown, outside
<1> QED BY <1>1, <1>2, <1>3 DEF LuaIInv

LEMMA CoExitKeeps ==
  ASSUME LuaIInv, CoExit PROVE LuaIInv'
<1>1. QueueOK'
  BY QueueKept DEF LuaIInv, CoExit, mutexQ
<1>2. SessionsOK'
  BY SessionsKept DEF LuaIInv, CoExit, tables, outside
<1>3. ResumedOK'
  BY DEF LuaIInv, ResumedOK, CoExit, tables, outside
<1> QED BY <1>1, <1>2, <1>3 DEF LuaIInv

-----------------------------------------------------------------------------
(* The end of suspend, and of dispatch_message.                            *)

LEMMA DispatchWakeupKeeps ==
  ASSUME LuaIInv, DispatchWakeup PROVE LuaIInv'
<1>1. QueueOK'
  BY QueueKept DEF LuaIInv, DispatchWakeup, mutexQ
<1>2. SessionsOK'
  BY SessionsKept DEF LuaIInv, DispatchWakeup, tables, outside
<1>3. ResumedOK'
  <2>1. wakeup_session' \subseteq Cos /\ fork_queue' \subseteq Cos /\ timers' = timers
    BY DEF LuaIInv, ResumedOK, DispatchWakeup, tables, outside
  <2>2. turn' = "run" => running' \in Cos
    BY DEF LuaIInv, ResumedOK, DispatchWakeup, Resume
  <2>3. \/ session_id_coroutine' = session_id_coroutine
        \/ \E s \in timers : session_id_coroutine' = With(session_id_coroutine, s, "BREAK")
        \/ \E s : session_id_coroutine' = Without(session_id_coroutine, s)
    BY DEF DispatchWakeup, tables
  <2>4. \A s \in DOMAIN session_id_coroutine' :
          \/ session_id_coroutine'[s] \in Cos
          \/ session_id_coroutine'[s] = "BREAK" /\ s \in timers
    BY <2>3 DEF LuaIInv, ResumedOK, With, Without
  <2> QED BY <2>1, <2>2, <2>4 DEF ResumedOK
<1> QED BY <1>1, <1>2, <1>3 DEF LuaIInv

LEMMA DispatchErrorKeeps ==
  ASSUME LuaIInv, DispatchError PROVE LuaIInv'
<1>1. QueueOK'
  BY QueueKept DEF LuaIInv, DispatchError, mutexQ
<1>2. SessionsOK'
  BY SessionsKept DEF LuaIInv, DispatchError, tables, outside, Without
<1>3. ResumedOK'
  <2>1. error_queue # <<>> => Head(error_queue) \notin timers
    BY DEF LuaIInv, SessionsOK
  <2> QED BY <2>1 DEF LuaIInv, ResumedOK, DispatchError, Resume, Without, Thrown,
    tables, outside
<1> QED BY <1>1, <1>2, <1>3 DEF LuaIInv

LEMMA DispatchForkKeeps ==
  ASSUME LuaIInv, DispatchFork PROVE LuaIInv'
<1>1. QueueOK'
  BY QueueKept DEF LuaIInv, DispatchFork, mutexQ
<1>2. SessionsOK'
  BY SessionsKept DEF LuaIInv, DispatchFork, tables, outside
<1>3. ResumedOK'
  BY DEF LuaIInv, ResumedOK, DispatchFork, tables, outside, Resume
<1> QED BY <1>1, <1>2, <1>3 DEF LuaIInv

-----------------------------------------------------------------------------
(* The messages.                                                           *)

LEMMA RequestKeeps ==
  ASSUME NEW c \in Cos, LuaIInv, Request(c) PROVE LuaIInv'
<1>1. QueueOK'
  BY QueueKept DEF LuaIInv, Request, mutexQ
<1>2. SessionsOK'
  BY SessionsKept DEF LuaIInv, Request, tables, outside
<1>3. ResumedOK'
  BY DEF LuaIInv, ResumedOK, Request, tables, outside, Resume
<1> QED BY <1>1, <1>2, <1>3 DEF LuaIInv

LEMMA ResponseKeeps ==
  ASSUME NEW s, LuaIInv, Response(s) PROVE LuaIInv'
<1>1. QueueOK'
  BY QueueKept DEF LuaIInv, Response, mutexQ
<1>2. SessionsOK'
  BY SessionsKept DEF LuaIInv, Response, Without
<1>3. ResumedOK'
  BY LuaAssumption DEF LuaIInv, ResumedOK, Response, Resume, Without
<1> QED BY <1>1, <1>2, <1>3 DEF LuaIInv

LEMMA ErrorForSessionKeeps ==
  ASSUME NEW s, LuaIInv, ErrorForSession(s) PROVE LuaIInv'
<1>1. QueueOK'
  BY QueueKept DEF LuaIInv, ErrorForSession, mutexQ
<1>2. SessionsOK'
  <2>1. error_queue' \in Seq((1..session) \ timers)
    BY DEF LuaIInv, SessionsOK, ErrorForSession
  <2> QED BY <2>1 DEF LuaIInv, SessionsOK, ErrorForSession, tables
<1>3. ResumedOK'
  BY DEF LuaIInv, ResumedOK, ErrorForSession, tables
<1> QED BY <1>1, <1>2, <1>3 DEF LuaIInv

LEMMA ServiceDownKeeps ==
  ASSUME NEW v, LuaIInv, ServiceDown(v) PROVE LuaIInv'
<1>1. QueueOK'
  BY QueueKept DEF LuaIInv, ServiceDown, mutexQ
<1>2. SessionsOK'
  <2>1. PICK order \in Orders(Watched(v)) : error_queue' = error_queue \o order
    BY DEF ServiceDown
  <2>2. Watched(v) \subseteq (1..session) \ timers
    BY DEF LuaIInv, SessionsOK, Watched
  <2>3. order \in Seq(Watched(v))
    BY LuaAssumption DEF Orders
  <2>4. order \in Seq((1..session) \ timers)
    BY <2>2, <2>3, SeqMonotonic
  <2>5. error_queue' \in Seq((1..session) \ timers)
    BY <2>1, <2>4 DEF LuaIInv, SessionsOK
  <2> QED BY <2>5 DEF LuaIInv, SessionsOK, ServiceDown, tables
<1>3. ResumedOK'
  BY DEF LuaIInv, ResumedOK, ServiceDown, tables
<1> QED BY <1>1, <1>2, <1>3 DEF LuaIInv

-----------------------------------------------------------------------------
LEMMA LuaInitFacts == LuaInit => LuaIInv
BY LuaAssumption DEF LuaInit, LuaIInv, QueueOK, QueueExclusive, SessionsOK, ResumedOK

LEMMA LuaStep == LuaIInv /\ [LuaNext]_luaVars => LuaIInv'
<1> SUFFICES ASSUME LuaIInv, [LuaNext]_luaVars PROVE LuaIInv'
  OBVIOUS
<1>1. CASE Delivery
  BY <1>1, RequestKeeps, ResponseKeeps, ErrorForSessionKeeps, ServiceDownKeeps
   DEF Delivery
<1>2. CASE Coroutine
  BY <1>2, CallKeeps, SleepKeeps, TimeoutFuncKeeps, ForkKeeps, WakeupCoKeeps,
     EnterQueueKeeps, WaitInQueueKeeps, BackInQueueKeeps, LeaveQueueKeeps, CoErrorKeeps, CoExitKeeps
  DEF Coroutine
<1>3. CASE DispatchWakeup \/ DispatchError \/ DispatchFork
  BY <1>3, DispatchWakeupKeeps, DispatchErrorKeeps, DispatchForkKeeps
<1>4. CASE UNCHANGED luaVars
  <2>1. QueueOK'
    BY <1>4, QueueKept DEF LuaIInv, luaVars
  <2>2. SessionsOK' /\ ResumedOK'
    BY <1>4 DEF LuaIInv, SessionsOK, ResumedOK, luaVars, tables, outside
  <2> QED BY <2>1, <2>2 DEF LuaIInv
<1> QED BY <1>1, <1>2, <1>3, <1>4 DEF LuaNext, LuaIdle

\* skynet.queue is a critical section whoever is woken, told of an error or dies in
\* it: never two coroutines inside, and ref is how often the one inside has entered.
THEOREM QueueIsExclusive == LuaSpec => []QueueExclusive
<1>1. LuaIInv => QueueExclusive
  BY DEF LuaIInv, QueueOK
<1> QED BY <1>1, LuaInitFacts, LuaStep, PTL DEF LuaSpec

-----------------------------------------------------------------------------
(* Whoever waits is found.                                                 *)

LEMMA CallKeepsWaiters ==
  ASSUME NEW v, LuaIInv, WaitersIInv, Call(v) PROVE WaitersIInv'
<1>1. WaiterFound'
  <2> SUFFICES ASSUME NEW x \in Cos, Suspended(x)'
               PROVE  \E s \in DOMAIN session_id_coroutine' : WaitsFor(x, s)'
    BY DEF WaiterFound
  <2>1. CASE x = running
    <3>1. PICK r : r = session + 1
      OBVIOUS
    <3>2. r \in DOMAIN session_id_coroutine' /\ WaitsFor(x, r)'
      BY <2>1, <3>1, LuaAssumption DEF LuaIInv, WaitersIInv, PlacesOK, ResumedOK,
        SessionsOK, WaitsFor, Call, Yield, With, Runs, Suspended
    <3> QED BY <3>2
  <2>2. CASE x # running
    <3>1. PICK s \in DOMAIN session_id_coroutine : WaitsFor(x, s)
      BY <2>2 DEF WaitersIInv, WaitersKept, WaiterFound, Suspended, PlacesOK, Call,
        Yield, With, Runs, Suspended
    <3>2. s \in DOMAIN session_id_coroutine' /\ WaitsFor(x, s)'
      BY <2>2, <3>1, LuaAssumption DEF LuaIInv, WaitersIInv, PlacesOK, ResumedOK,
        SessionsOK, CallersOK, WaitsFor, Call, Yield, With, Runs, Suspended
    <3> QED BY <3>2
  <2> QED BY <2>1, <2>2
<1>2. WaiterOnce'
  BY LuaAssumption DEF LuaIInv, WaitersIInv, WaitersKept, Suspended, WaiterOnce,
    PlacesOK, ResumedOK, CallersOK, SessionsOK, Call, Yield, With, Runs
<1>3. PlacesOK'
  BY LuaAssumption DEF LuaIInv, WaitersIInv, WaitersKept, Suspended, PlacesOK,
    ResumedOK, WaiterOnce, Call, Yield, With, Runs
<1>4. SleepersOK'
  BY LuaAssumption DEF LuaIInv, WaitersIInv, WaitersKept, Suspended, SleepersOK,
    PlacesOK, ResumedOK, CallersOK, SessionsOK, Call, Yield, With, Runs
<1>5. CallersOK'
  BY LuaAssumption DEF LuaIInv, WaitersIInv, WaitersKept, Suspended, CallersOK,
    PlacesOK, ResumedOK, WaiterOnce, SessionsOK, Call, Yield, With, Runs
<1> QED BY <1>1, <1>2, <1>3, <1>4, <1>5 DEF WaitersIInv, WaitersKept

LEMMA SleepKeepsWaiters ==
  ASSUME NEW timed \in BOOLEAN, LuaIInv, WaitersIInv, Sleep(timed) PROVE WaitersIInv'
<1>1. WaiterFound'
  <2> SUFFICES ASSUME NEW x \in Cos, Suspended(x)'
               PROVE  \E s \in DOMAIN session_id_coroutine' : WaitsFor(x, s)'
    BY DEF WaiterFound
  <2>1. CASE x = running
    <3>1. PICK r : r = session + 1
      OBVIOUS
    <3>2. r \in DOMAIN session_id_coroutine' /\ WaitsFor(x, r)'
      BY <2>1, <3>1, LuaAssumption DEF LuaIInv, WaitersIInv, PlacesOK, ResumedOK,
        SessionsOK, WaitsFor, Sleep, Yield, With, Runs, Suspended
    <3> QED BY <3>2
  <2>2. CASE x # running
    <3>1. PICK s \in DOMAIN session_id_coroutine : WaitsFor(x, s)
      BY <2>2 DEF WaitersIInv, WaitersKept, WaiterFound, Suspended, PlacesOK, Sleep,
        Yield, With, Runs, Suspended
    <3>2. s \in DOMAIN session_id_coroutine' /\ WaitsFor(x, s)'
      BY <2>2, <3>1, LuaAssumption DEF LuaIInv, WaitersIInv, PlacesOK, ResumedOK,
        SessionsOK, CallersOK, WaitsFor, Sleep, Yield, With, Runs, Suspended
    <3> QED BY <3>2
  <2> QED BY <2>1, <2>2
<1>2. WaiterOnce'
  BY LuaAssumption DEF LuaIInv, WaitersIInv, WaitersKept, Suspended, WaiterOnce,
    PlacesOK, ResumedOK, CallersOK, SessionsOK, Sleep, Yield, With, Runs
<1>3. PlacesOK'
  BY LuaAssumption DEF LuaIInv, WaitersIInv, WaitersKept, Suspended, PlacesOK,
    ResumedOK, WaiterOnce, Sleep, Yield, With, Runs
<1>4. SleepersOK'
  BY LuaAssumption DEF LuaIInv, WaitersIInv, WaitersKept, Suspended, SleepersOK,
    PlacesOK, ResumedOK, CallersOK, SessionsOK, Sleep, Yield, With, Runs
<1>5. CallersOK'
  BY LuaAssumption DEF LuaIInv, WaitersIInv, WaitersKept, Suspended, CallersOK,
    PlacesOK, ResumedOK, WaiterOnce, SessionsOK, Sleep, Yield, With, Runs
<1> QED BY <1>1, <1>2, <1>3, <1>4, <1>5 DEF WaitersIInv, WaitersKept

LEMMA TimeoutFuncKeepsWaiters ==
  ASSUME NEW c \in Cos, LuaIInv, WaitersIInv, TimeoutFunc(c) PROVE WaitersIInv'
<1>1. WaiterFound'
  <2> SUFFICES ASSUME NEW x \in Cos, Suspended(x)'
               PROVE  \E s \in DOMAIN session_id_coroutine' : WaitsFor(x, s)'
    BY DEF WaiterFound
  <2>1. CASE x = c
    <3>1. PICK r : r = session + 1
      OBVIOUS
    <3>2. r \in DOMAIN session_id_coroutine' /\ WaitsFor(x, r)'
      BY <2>1, <3>1, LuaAssumption DEF LuaIInv, WaitersIInv, PlacesOK, ResumedOK,
        SessionsOK, WaitsFor, TimeoutFunc, With, Runs, Suspended
    <3> QED BY <3>2
  <2>2. CASE x # c
    <3>1. PICK s \in DOMAIN session_id_coroutine : WaitsFor(x, s)
      BY <2>2 DEF WaitersIInv, WaitersKept, WaiterFound, Suspended, PlacesOK,
        TimeoutFunc, With, Runs, Suspended
    <3>2. s \in DOMAIN session_id_coroutine' /\ WaitsFor(x, s)'
      BY <2>2, <3>1, LuaAssumption DEF LuaIInv, WaitersIInv, PlacesOK, ResumedOK,
        SessionsOK, CallersOK, WaitsFor, TimeoutFunc, With, Runs, Suspended
    <3> QED BY <3>2
  <2> QED BY <2>1, <2>2
<1>2. WaiterOnce'
  BY LuaAssumption DEF LuaIInv, WaitersIInv, WaitersKept, Suspended, WaiterOnce,
    PlacesOK, ResumedOK, CallersOK, SessionsOK, TimeoutFunc, With, Runs
<1>3. PlacesOK'
  BY LuaAssumption DEF LuaIInv, WaitersIInv, WaitersKept, Suspended, PlacesOK,
    ResumedOK, WaiterOnce, TimeoutFunc, With, Runs
<1>4. SleepersOK'
  BY LuaAssumption DEF LuaIInv, WaitersIInv, WaitersKept, Suspended, SleepersOK,
    PlacesOK, ResumedOK, CallersOK, SessionsOK, TimeoutFunc, With, Runs
<1>5. CallersOK'
  BY LuaAssumption DEF LuaIInv, WaitersIInv, WaitersKept, Suspended, CallersOK,
    PlacesOK, ResumedOK, WaiterOnce, SessionsOK, TimeoutFunc, With, Runs
<1> QED BY <1>1, <1>2, <1>3, <1>4, <1>5 DEF WaitersIInv, WaitersKept

LEMMA ForkKeepsWaiters ==
  ASSUME NEW c \in Cos, LuaIInv, WaitersIInv, Fork(c) PROVE WaitersIInv'
<1>1. WaiterFound'
  BY LuaAssumption DEF LuaIInv, WaitersIInv, WaitersKept, Suspended, WaiterFound,
    WaitsFor, PlacesOK, ResumedOK, Fork, Runs, tables, outside
<1>2. WaiterOnce'
  BY LuaAssumption DEF LuaIInv, WaitersIInv, WaitersKept, Suspended, WaiterOnce,
    PlacesOK, ResumedOK, CallersOK, SessionsOK, Fork, Runs, tables, outside
<1>3. PlacesOK'
  BY LuaAssumption DEF LuaIInv, WaitersIInv, WaitersKept, Suspended, PlacesOK,
    ResumedOK, WaiterOnce, Fork, Runs, tables, outside
<1>4. SleepersOK'
  BY LuaAssumption DEF LuaIInv, WaitersIInv, WaitersKept, Suspended, SleepersOK,
    PlacesOK, ResumedOK, CallersOK, SessionsOK, Fork, Runs, tables, outside
<1>5. CallersOK'
  BY LuaAssumption DEF LuaIInv, WaitersIInv, WaitersKept, Suspended, CallersOK,
    PlacesOK, ResumedOK, WaiterOnce, SessionsOK, Fork, Runs, tables, outside
<1> QED BY <1>1, <1>2, <1>3, <1>4, <1>5 DEF WaitersIInv, WaitersKept

LEMMA WakeupCoKeepsWaiters ==
  ASSUME NEW c \in Cos, LuaIInv, WaitersIInv, WakeupCo(c) PROVE WaitersIInv'
<1>1. WaiterFound'
  BY LuaAssumption DEF LuaIInv, WaitersIInv, WaitersKept, Suspended, WaiterFound,
    WaitsFor, PlacesOK, ResumedOK, WakeupCo, Runs, outside
<1>2. WaiterOnce'
  BY LuaAssumption DEF LuaIInv, WaitersIInv, WaitersKept, Suspended, WaiterOnce,
    PlacesOK, ResumedOK, CallersOK, SessionsOK, WakeupCo, Runs, outside
<1>3. PlacesOK'
  BY LuaAssumption DEF LuaIInv, WaitersIInv, WaitersKept, Suspended, PlacesOK,
    ResumedOK, WaiterOnce, WakeupCo, Runs, outside
<1>4. SleepersOK'
  BY LuaAssumption DEF LuaIInv, WaitersIInv, WaitersKept, Suspended, SleepersOK,
    PlacesOK, ResumedOK, CallersOK, SessionsOK, WakeupCo, Runs, outside
<1>5. CallersOK'
  BY LuaAssumption DEF LuaIInv, WaitersIInv, WaitersKept, Suspended, CallersOK,
    PlacesOK, ResumedOK, WaiterOnce, SessionsOK, WakeupCo, Runs, outside
<1> QED BY <1>1, <1>2, <1>3, <1>4, <1>5 DEF WaitersIInv, WaitersKept

LEMMA EnterQueueKeepsWaiters ==
  ASSUME LuaIInv, WaitersIInv, EnterQueue PROVE WaitersIInv'
<1>1. WaiterFound'
  BY LuaAssumption DEF LuaIInv, WaitersIInv, WaitersKept, Suspended, WaiterFound,
    WaitsFor, PlacesOK, ResumedOK, EnterQueue, Runs, tables, outside
<1>2. WaiterOnce'
  BY LuaAssumption DEF LuaIInv, WaitersIInv, WaitersKept, Suspended, WaiterOnce,
    PlacesOK, ResumedOK, CallersOK, SessionsOK, EnterQueue, Runs, tables, outside
<1>3. PlacesOK'
  BY LuaAssumption DEF LuaIInv, WaitersIInv, WaitersKept, Suspended, PlacesOK,
    ResumedOK, WaiterOnce, EnterQueue, Runs, tables, outside
<1>4. SleepersOK'
  BY LuaAssumption DEF LuaIInv, WaitersIInv, WaitersKept, Suspended, SleepersOK,
    PlacesOK, ResumedOK, CallersOK, SessionsOK, EnterQueue, Runs, tables, outside
<1>5. CallersOK'
  BY LuaAssumption DEF LuaIInv, WaitersIInv, WaitersKept, Suspended, CallersOK,
    PlacesOK, ResumedOK, WaiterOnce, SessionsOK, EnterQueue, Runs, tables, outside
<1> QED BY <1>1, <1>2, <1>3, <1>4, <1>5 DEF WaitersIInv, WaitersKept

LEMMA WaitInQueueKeepsWaiters ==
  ASSUME LuaIInv, WaitersIInv, WaitInQueue PROVE WaitersIInv'
<1>1. WaiterFound'
  <2> SUFFICES ASSUME NEW x \in Cos, Suspended(x)'
               PROVE  \E s \in DOMAIN session_id_coroutine' : WaitsFor(x, s)'
    BY DEF WaiterFound
  <2>1. CASE x = running
    <3>1. PICK r : r = session + 1
      OBVIOUS
    <3>2. r \in DOMAIN session_id_coroutine' /\ WaitsFor(x, r)'
      BY <2>1, <3>1, LuaAssumption DEF LuaIInv, WaitersIInv, PlacesOK, ResumedOK,
        SessionsOK, WaitsFor, WaitInQueue, Yield, With, Runs, Suspended
    <3> QED BY <3>2
  <2>2. CASE x # running
    <3>1. PICK s \in DOMAIN session_id_coroutine : WaitsFor(x, s)
      BY <2>2 DEF WaitersIInv, WaitersKept, WaiterFound, Suspended, PlacesOK,
        WaitInQueue, Yield, With, Runs, Suspended
    <3>2. s \in DOMAIN session_id_coroutine' /\ WaitsFor(x, s)'
      BY <2>2, <3>1, LuaAssumption DEF LuaIInv, WaitersIInv, PlacesOK, ResumedOK,
        SessionsOK, CallersOK, WaitsFor, WaitInQueue, Yield, With, Runs, Suspended
    <3> QED BY <3>2
  <2> QED BY <2>1, <2>2
<1>2. WaiterOnce'
  BY LuaAssumption DEF LuaIInv, WaitersIInv, WaitersKept, Suspended, WaiterOnce,
    PlacesOK, ResumedOK, CallersOK, SessionsOK, WaitInQueue, Yield, With, Runs
<1>3. PlacesOK'
  BY LuaAssumption DEF LuaIInv, WaitersIInv, WaitersKept, Suspended, PlacesOK,
    ResumedOK, WaiterOnce, WaitInQueue, Yield, With, Runs
<1>4. SleepersOK'
  BY LuaAssumption DEF LuaIInv, WaitersIInv, WaitersKept, Suspended, SleepersOK,
    PlacesOK, ResumedOK, CallersOK, SessionsOK, WaitInQueue, Yield, With, Runs
<1>5. CallersOK'
  BY LuaAssumption DEF LuaIInv, WaitersIInv, WaitersKept, Suspended, CallersOK,
    PlacesOK, ResumedOK, WaiterOnce, SessionsOK, WaitInQueue, Yield, With, Runs
<1> QED BY <1>1, <1>2, <1>3, <1>4, <1>5 DEF WaitersIInv, WaitersKept

LEMMA BackInQueueKeepsWaiters ==
  ASSUME LuaIInv, WaitersIInv, BackInQueue PROVE WaitersIInv'
<1>1. WaiterFound'
  BY LuaAssumption DEF LuaIInv, WaitersIInv, WaitersKept, Suspended, WaiterFound,
    WaitsFor, PlacesOK, ResumedOK, BackInQueue, tables, outside, Thrown
<1>2. WaiterOnce'
  BY LuaAssumption DEF LuaIInv, WaitersIInv, WaitersKept, Suspended, WaiterOnce,
    PlacesOK, ResumedOK, CallersOK, SessionsOK, BackInQueue, tables, outside, Thrown
<1>3. PlacesOK'
  BY LuaAssumption DEF LuaIInv, WaitersIInv, WaitersKept, Suspended, PlacesOK,
    ResumedOK, WaiterOnce, BackInQueue, tables, outside, Thrown
<1>4. SleepersOK'
  BY LuaAssumption DEF LuaIInv, WaitersIInv, WaitersKept, Suspended, SleepersOK,
    PlacesOK, ResumedOK, CallersOK, SessionsOK, BackInQueue, tables, outside, Thrown
<1>5. CallersOK'
  BY LuaAssumption DEF LuaIInv, WaitersIInv, WaitersKept, Suspended, CallersOK,
    PlacesOK, ResumedOK, WaiterOnce, SessionsOK, BackInQueue, tables, outside, Thrown
<1> QED BY <1>1, <1>2, <1>3, <1>4, <1>5 DEF WaitersIInv, WaitersKept

LEMMA LeaveQueueKeepsWaiters ==
  ASSUME LuaIInv, WaitersIInv, LeaveQueue PROVE WaitersIInv'
<1>1. WaiterFound'
  BY LuaAssumption DEF LuaIInv, WaitersIInv, WaitersKept, Suspended, WaiterFound,
    WaitsFor, PlacesOK, ResumedOK, LeaveQueue, Runs, outside
<1>2. WaiterOnce'
  BY LuaAssumption DEF LuaIInv, WaitersIInv, WaitersKept, Suspended, WaiterOnce,
    PlacesOK, ResumedOK, CallersOK, SessionsOK, LeaveQueue, Runs, outside
<1>3. PlacesOK'
  BY LuaAssumption DEF LuaIInv, WaitersIInv, WaitersKept, Suspended, PlacesOK,
    ResumedOK, WaiterOnce, LeaveQueue, Runs, outside
<1>4. SleepersOK'
  BY LuaAssumption DEF LuaIInv, WaitersIInv, WaitersKept, Suspended, SleepersOK,
    PlacesOK, ResumedOK, CallersOK, SessionsOK, LeaveQueue, Runs, outside
<1>5. CallersOK'
  BY LuaAssumption DEF LuaIInv, WaitersIInv, WaitersKept, Suspended, CallersOK,
    PlacesOK, ResumedOK, WaiterOnce, SessionsOK, LeaveQueue, Runs, outside
<1> QED BY <1>1, <1>2, <1>3, <1>4, <1>5 DEF WaitersIInv, WaitersKept

LEMMA CoErrorKeepsWaiters ==
  ASSUME LuaIInv, WaitersIInv, CoError PROVE WaitersIInv'
<1>1. WaiterFound'
  BY LuaAssumption DEF LuaIInv, WaitersIInv, WaitersKept, Suspended, WaiterFound,
    WaitsFor, PlacesOK, ResumedOK, CoError, Runs, Thrown, outside
<1>2. WaiterOnce'
  BY LuaAssumption DEF LuaIInv, WaitersIInv, WaitersKept, Suspended, WaiterOnce,
    PlacesOK, ResumedOK, CallersOK, SessionsOK, CoError, Runs, Thrown, outside
<1>3. PlacesOK'
  BY LuaAssumption DEF LuaIInv, WaitersIInv, WaitersKept, Suspended, PlacesOK,
    ResumedOK, WaiterOnce, CoError, Runs, Thrown, outside
<1>4. SleepersOK'
  BY LuaAssumption DEF LuaIInv, WaitersIInv, WaitersKept, Suspended, SleepersOK,
    PlacesOK, ResumedOK, CallersOK, SessionsOK, CoError, Runs, Thrown, outside
<1>5. CallersOK'
  BY LuaAssumption DEF LuaIInv, WaitersIInv, WaitersKept, Suspended, CallersOK,
    PlacesOK, ResumedOK, WaiterOnce, SessionsOK, CoError, Runs, Thrown, outside
<1> QED BY <1>1, <1>2, <1>3, <1>4, <1>5 DEF WaitersIInv, WaitersKept

LEMMA CoExitKeepsWaiters ==
  ASSUME LuaIInv, WaitersIInv, CoExit PROVE WaitersIInv'
<1>1. WaiterFound'
  BY LuaAssumption DEF LuaIInv, WaitersIInv, WaitersKept, Suspended, WaiterFound,
    WaitsFor, PlacesOK, ResumedOK, CoExit, Runs, tables, outside
<1>2. WaiterOnce'
  BY LuaAssumption DEF LuaIInv, WaitersIInv, WaitersKept, Suspended, WaiterOnce,
    PlacesOK, ResumedOK, CallersOK, SessionsOK, CoExit, Runs, tables, outside
<1>3. PlacesOK'
  BY LuaAssumption DEF LuaIInv, WaitersIInv, WaitersKept, Suspended, PlacesOK,
    ResumedOK, WaiterOnce, CoExit, Runs, tables, outside
<1>4. SleepersOK'
  BY LuaAssumption DEF LuaIInv, WaitersIInv, WaitersKept, Suspended, SleepersOK,
    PlacesOK, ResumedOK, CallersOK, SessionsOK, CoExit, Runs, tables, outside
<1>5. CallersOK'
  BY LuaAssumption DEF LuaIInv, WaitersIInv, WaitersKept, Suspended, CallersOK,
    PlacesOK, ResumedOK, WaiterOnce, SessionsOK, CoExit, Runs, tables, outside
<1> QED BY <1>1, <1>2, <1>3, <1>4, <1>5 DEF WaitersIInv, WaitersKept

LEMMA ErrorForSessionKeepsWaiters ==
  ASSUME NEW s, LuaIInv, WaitersIInv, ErrorForSession(s) PROVE WaitersIInv'
<1>1. WaiterFound'
  <2> SUFFICES ASSUME NEW x \in Cos, Suspended(x)'
               PROVE  \E r \in DOMAIN session_id_coroutine' : WaitsFor(x, r)'
    BY DEF WaiterFound
  <2>1. PICK r \in DOMAIN session_id_coroutine : WaitsFor(x, r)
    BY DEF WaitersIInv, WaitersKept, WaiterFound, Suspended, ErrorForSession, tables
  <2>2. DOMAIN error_queue \subseteq DOMAIN error_queue'
        /\ \A i \in DOMAIN error_queue : error_queue'[i] = error_queue[i]
    BY DEF LuaIInv, SessionsOK, ErrorForSession
  <2>3. r = s /\ s \in DOMAIN watching_session => \E i \in DOMAIN error_queue' : error_queue'[i] = s
    BY DEF LuaIInv, SessionsOK, ErrorForSession
  <2>4. WaitsFor(x, r)'
    BY <2>1, <2>2, <2>3 DEF WaitsFor, WaitersIInv, CallersOK, ErrorForSession, tables
  <2> QED BY <2>1, <2>4 DEF ErrorForSession, tables
<1>2. WaiterOnce'
  BY LuaAssumption DEF LuaIInv, WaitersIInv, WaitersKept, Suspended, WaiterOnce,
    PlacesOK, ResumedOK, CallersOK, SessionsOK, ErrorForSession, tables
<1>3. PlacesOK'
  BY LuaAssumption DEF LuaIInv, WaitersIInv, WaitersKept, Suspended, PlacesOK,
    ResumedOK, WaiterOnce, ErrorForSession, tables
<1>4. SleepersOK'
  BY LuaAssumption DEF LuaIInv, WaitersIInv, WaitersKept, Suspended, SleepersOK,
    PlacesOK, ResumedOK, CallersOK, SessionsOK, ErrorForSession, tables
<1>5. CallersOK'
  BY LuaAssumption DEF LuaIInv, WaitersIInv, WaitersKept, Suspended, CallersOK,
    PlacesOK, ResumedOK, WaiterOnce, SessionsOK, ErrorForSession, tables
<1> QED BY <1>1, <1>2, <1>3, <1>4, <1>5 DEF WaitersIInv, WaitersKept

LEMMA ServiceDownKeepsWaiters ==
  ASSUME NEW v, LuaIInv, WaitersIInv, ServiceDown(v) PROVE WaitersIInv'
<1>0. PICK order \in Orders(Watched(v)) : error_queue' = error_queue \o order
  BY DEF ServiceDown
<1>a. /\ order \in Seq(Watched(v)) /\ error_queue \in Seq((1..session) \ timers)
      /\ Watched(v) = {order[i] : i \in DOMAIN order}
  BY LuaAssumption DEF Orders, LuaIInv, SessionsOK
<1>b. /\ DOMAIN error_queue \subseteq DOMAIN error_queue'
      /\ \A i \in DOMAIN error_queue : error_queue'[i] = error_queue[i]
  BY <1>0, <1>a
<1>c. \A s \in Watched(v) : \E i \in DOMAIN error_queue' : error_queue'[i] = s
  <2> TAKE s \in Watched(v)
  <2>1. PICK i \in DOMAIN order : order[i] = s
    BY <1>a
  <2>2. Len(error_queue) + i \in DOMAIN error_queue' /\ error_queue'[Len(error_queue) + i] = s
    BY <1>0, <1>a, <2>1
  <2> QED BY <2>2
<1>d. \A i \in DOMAIN error_queue' :
        error_queue'[i] \in Watched(v) \/ \E j \in DOMAIN error_queue : error_queue'[i] = error_queue[j]
  BY <1>0, <1>a
<1>1. WaiterFound'
  <2> SUFFICES ASSUME NEW x \in Cos, Suspended(x)'
               PROVE  \E r \in DOMAIN session_id_coroutine' : WaitsFor(x, r)'
    BY DEF WaiterFound
  <2>1. PICK r \in DOMAIN session_id_coroutine : WaitsFor(x, r)
    BY DEF WaitersIInv, WaitersKept, WaiterFound, Suspended, ServiceDown, tables
  <2>2. WaitsFor(x, r)'
    BY <1>b, <1>c, <2>1 DEF WaitsFor, ServiceDown, tables
  <2> QED BY <2>1, <2>2 DEF ServiceDown, tables
<1>2. WaiterOnce'
  BY LuaAssumption DEF LuaIInv, WaitersIInv, WaitersKept, Suspended, WaiterOnce,
    PlacesOK, ResumedOK, CallersOK, SessionsOK, ServiceDown, tables
<1>3. PlacesOK'
  BY LuaAssumption DEF LuaIInv, WaitersIInv, WaitersKept, Suspended, PlacesOK,
    ResumedOK, WaiterOnce, ServiceDown, tables
<1>4. SleepersOK'
  BY LuaAssumption DEF LuaIInv, WaitersIInv, WaitersKept, Suspended, SleepersOK,
    PlacesOK, ResumedOK, CallersOK, SessionsOK, ServiceDown, tables
<1>5. CallersOK'
  <2>1. \A s \in Watched(v) : s \in DOMAIN session_id_coroutine =>
          session_id_coroutine[s] \in Cos /\ at[session_id_coroutine[s]] = "call"
    BY DEF WaitersIInv, CallersOK, Watched
  <2> QED BY <1>d, <2>1 DEF WaitersIInv, CallersOK, ServiceDown, tables
<1> QED BY <1>1, <1>2, <1>3, <1>4, <1>5 DEF WaitersIInv, WaitersKept

\* The coroutine c is resumed: it and its session leave the tables, and nobody else.
LEMMA Resuming ==
  ASSUME LuaIInv, LuaIInv', WaitersIInv, turn # "run", NEW c \in Cos, Resume(c),
         Suspended(c) \/ at[c] \in {"pool", "forked"},
         \A s \in DOMAIN session_id_coroutine' :
           /\ s \in DOMAIN session_id_coroutine /\ session_id_coroutine'[s] # c
           /\ \/ session_id_coroutine'[s] = session_id_coroutine[s]
              \/ session_id_coroutine'[s] = "BREAK",
         \A s \in DOMAIN session_id_coroutine :
           session_id_coroutine[s] \notin {c, "BREAK"} =>
             s \in DOMAIN session_id_coroutine' /\ session_id_coroutine'[s] = session_id_coroutine[s],
         DOMAIN sleep_session' = DOMAIN sleep_session \ {c},
         \A d \in DOMAIN sleep_session' : sleep_session'[d] = sleep_session[d],
         DOMAIN watching_session' \subseteq DOMAIN watching_session,
         \A s \in DOMAIN session_id_coroutine' :
           /\ s \in DOMAIN watching_session => s \in DOMAIN watching_session'
           /\ s \in answers => s \in answers'
           /\ s \in timers => s \in timers'
           /\ (\E i \in DOMAIN error_queue : error_queue[i] = s) => (\E i \in DOMAIN error_queue' : error_queue'[i] = s),
         \A i \in DOMAIN error_queue' : \E j \in DOMAIN error_queue : error_queue'[i] = error_queue[j],
         session' = session, fork_queue' \subseteq fork_queue \ {c}
  PROVE  WaitersIInv'
<1>0. \A x \in Cos : Suspended(x)' <=> Suspended(x) /\ x # c
  BY LuaAssumption DEF Suspended, Resume, WaitersIInv, PlacesOK
<1>1. WaiterFound'
  <2> SUFFICES ASSUME NEW x \in Cos, Suspended(x)'
               PROVE  \E r \in DOMAIN session_id_coroutine' : WaitsFor(x, r)'
    BY DEF WaiterFound
  <2>1. PICK r \in DOMAIN session_id_coroutine : WaitsFor(x, r)
    BY <1>0 DEF WaitersIInv, WaitersKept, WaiterFound
  <2>2. r \in DOMAIN session_id_coroutine' /\ session_id_coroutine'[r] = x /\ at'[x] = at[x]
    BY <1>0, <2>1, LuaAssumption DEF WaitsFor, Resume
  <2>3. WaitsFor(x, r)'
    BY <1>0, <2>1, <2>2 DEF WaitsFor
  <2> QED BY <2>2, <2>3
<1>2. WaiterOnce'
  BY <1>0, LuaAssumption DEF WaitersIInv, WaitersKept, WaiterOnce, LuaIInv, ResumedOK
<1>3. PlacesOK'
  BY DEF WaitersIInv, PlacesOK, Resume, LuaIInv, ResumedOK, Suspended
<1>4. SleepersOK'
  BY <1>0, LuaAssumption DEF WaitersIInv, SleepersOK, Resume
<1>5. CallersOK'
  <2>1. \A s \in DOMAIN session_id_coroutine' : session_id_coroutine'[s] = "BREAK" =>
          s \notin DOMAIN watching_session' /\ s \in timers'
    BY LuaAssumption DEF LuaIInv, ResumedOK, SessionsOK
  <2>2. \A s \in DOMAIN session_id_coroutine' :
          s \in DOMAIN watching_session'
            <=> session_id_coroutine'[s] \in Cos /\ at'[session_id_coroutine'[s]] = "call"
    BY <2>1, LuaAssumption DEF WaitersIInv, CallersOK, Resume
  <2>3. \A i \in DOMAIN error_queue' : error_queue'[i] \notin timers'
    BY DEF LuaIInv, SessionsOK
  <2>4. \A i \in DOMAIN error_queue' : error_queue'[i] \in DOMAIN session_id_coroutine' =>
          session_id_coroutine'[error_queue'[i]] \in Cos
          /\ at'[session_id_coroutine'[error_queue'[i]]] = "call"
    <3> TAKE i \in DOMAIN error_queue'
    <3> HAVE error_queue'[i] \in DOMAIN session_id_coroutine'
    <3>1. session_id_coroutine'[error_queue'[i]] = session_id_coroutine[error_queue'[i]]
      BY <2>1, <2>3
    <3>2. session_id_coroutine[error_queue'[i]] \in Cos /\ at[session_id_coroutine[error_queue'[i]]] = "call"
      BY DEF WaitersIInv, CallersOK
    <3> QED BY <3>1, <3>2 DEF Resume
  <2> QED BY <2>2, <2>4 DEF WaitersIInv, CallersOK
<1> QED BY <1>1, <1>2, <1>3, <1>4, <1>5 DEF WaitersIInv, WaitersKept

\* What is left when nobody is resumed.
LEMMA NobodyResumed ==
  ASSUME WaitersIInv, UNCHANGED <<session_id_coroutine, sleep_session, watching_session, error_queue,
                                   at, running, session, answers, timers>>,
         turn # "run", turn' # "run", fork_queue' = fork_queue
  PROVE  WaitersIInv'
<1>1. WaiterFound' /\ WaiterOnce'
  BY DEF WaitersIInv, WaitersKept, WaiterFound, WaiterOnce, WaitsFor, Suspended
<1>2. PlacesOK' /\ SleepersOK' /\ CallersOK'
  BY DEF WaitersIInv, PlacesOK, SleepersOK, CallersOK, Suspended
<1> QED BY <1>1, <1>2 DEF WaitersIInv, WaitersKept

LEMMA RequestKeepsWaiters ==
  ASSUME NEW c \in Cos, LuaIInv, LuaIInv', WaitersIInv, Request(c) PROVE WaitersIInv'
<1>1. c \notin DOMAIN sleep_session
  BY DEF WaitersIInv, SleepersOK, Request
<1>2. \A s \in DOMAIN session_id_coroutine : session_id_coroutine[s] # c
  BY LuaAssumption DEF WaitersIInv, WaitersKept, WaiterOnce, Suspended, Request
<1>3. c \notin fork_queue
  BY DEF WaitersIInv, PlacesOK, Request
<1> QED BY <1>1, <1>2, <1>3, Resuming DEF Request, tables, outside

LEMMA DispatchForkKeepsWaiters ==
  ASSUME LuaIInv, LuaIInv', WaitersIInv, DispatchFork PROVE WaitersIInv'
<1>1. CASE turn' = "idle" /\ UNCHANGED <<fork_queue, at, running>>
  BY <1>1, NobodyResumed DEF DispatchFork, tables, outside
<1>2. ASSUME NEW c \in fork_queue, fork_queue' = fork_queue \ {c}, Resume(c)
      PROVE  WaitersIInv'
  <2>1. c \in Cos /\ at[c] = "forked"
    BY DEF LuaIInv, ResumedOK, WaitersIInv, PlacesOK
  <2>2. c \notin DOMAIN sleep_session
    BY <2>1 DEF WaitersIInv, SleepersOK
  <2>3. \A s \in DOMAIN session_id_coroutine : session_id_coroutine[s] # c
    BY <2>1, LuaAssumption DEF WaitersIInv, WaitersKept, WaiterOnce, Suspended
  <2> QED BY <1>2, <2>1, <2>2, <2>3, Resuming DEF DispatchFork, tables, outside
<1> QED BY <1>1, <1>2 DEF DispatchFork

LEMMA DispatchWakeupKeepsWaiters ==
  ASSUME LuaIInv, LuaIInv', WaitersIInv, DispatchWakeup PROVE WaitersIInv'
<1>1. CASE turn' = "errors" /\ UNCHANGED <<session_id_coroutine, sleep_session, at, running>>
  BY <1>1, NobodyResumed DEF DispatchWakeup, tables, outside
<1>2. ASSUME NEW c \in wakeup_session, c \in DOMAIN sleep_session,
             NEW s, s = sleep_session[c],
             session_id_coroutine' = IF s \in timers THEN With(session_id_coroutine, s, "BREAK")
                                                     ELSE Without(session_id_coroutine, s),
             sleep_session' = Without(sleep_session, c), Resume(c)
      PROVE  WaitersIInv'
  <2>1. /\ c \in Cos /\ Suspended(c) /\ at[c] \in {"sleep", "queued"}
        /\ s \in DOMAIN session_id_coroutine /\ session_id_coroutine[s] = c
    BY <1>2 DEF WaitersIInv, SleepersOK
  <2>2. \A r \in DOMAIN session_id_coroutine : session_id_coroutine[r] = c => r = s
    BY <2>1, LuaAssumption DEF WaitersIInv, WaitersKept, WaiterOnce
  <2>3. c \notin fork_queue
    BY <2>1 DEF WaitersIInv, PlacesOK
  <2>4. \A r \in DOMAIN session_id_coroutine' :
          /\ r \in DOMAIN session_id_coroutine /\ session_id_coroutine'[r] # c
          /\ \/ session_id_coroutine'[r] = session_id_coroutine[r]
             \/ session_id_coroutine'[r] = "BREAK"
    BY <1>2, <2>1, <2>2, LuaAssumption DEF With, Without
  <2>5. \A r \in DOMAIN session_id_coroutine : session_id_coroutine[r] \notin {c, "BREAK"} =>
          r \in DOMAIN session_id_coroutine' /\ session_id_coroutine'[r] = session_id_coroutine[r]
    BY <1>2, <2>1, LuaAssumption DEF With, Without
  <2>6. /\ DOMAIN sleep_session' = DOMAIN sleep_session \ {c}
        /\ \A d \in DOMAIN sleep_session' : sleep_session'[d] = sleep_session[d]
    BY <1>2 DEF Without
  <2>7. /\ turn # "run"
        /\ UNCHANGED <<watching_session, answers, timers, error_queue, session, fork_queue>>
    BY DEF DispatchWakeup, outside
  <2> QED BY <1>2, <2>1, <2>3, <2>4, <2>5, <2>6, <2>7, Resuming
<1> QED BY <1>1, <1>2 DEF DispatchWakeup, tables

LEMMA DispatchErrorKeepsWaiters ==
  ASSUME LuaIInv, LuaIInv', WaitersIInv, DispatchError PROVE WaitersIInv'
<1>1. CASE error_queue = <<>>
  BY <1>1, NobodyResumed DEF DispatchError, tables, outside
<1>2. CASE error_queue # <<>>
  <2> DEFINE s == Head(error_queue)
  <2>1. /\ error_queue' = Tail(error_queue) /\ turn # "run"
        /\ UNCHANGED <<session, answers, timers, fork_queue, wakeup_session, sleep_session>>
    BY <1>2 DEF DispatchError, outside, tables
  <2>2. /\ \A i \in DOMAIN error_queue' : \E j \in DOMAIN error_queue : error_queue'[i] = error_queue[j]
        /\ \A r : r # s /\ (\E i \in DOMAIN error_queue : error_queue[i] = r)
             => \E i \in DOMAIN error_queue' : error_queue'[i] = r
        /\ \E i \in DOMAIN error_queue : error_queue[i] = s
    <3>1. error_queue \in Seq((1..session) \ timers)
      BY DEF LuaIInv, SessionsOK
    <3>2. \A i \in DOMAIN error_queue' : i + 1 \in DOMAIN error_queue /\ error_queue'[i] = error_queue[i + 1]
      BY <1>2, <2>1, <3>1
    <3>3. \A i \in DOMAIN error_queue : i # 1 => i - 1 \in DOMAIN error_queue' /\ error_queue'[i - 1] = error_queue[i]
      BY <1>2, <2>1, <3>1
    <3>4. 1 \in DOMAIN error_queue /\ error_queue[1] = s
      BY <1>2, <3>1
    <3>5. \A r : r # s /\ (\E i \in DOMAIN error_queue : error_queue[i] = r)
             => \E i \in DOMAIN error_queue' : error_queue'[i] = r
      BY <3>3, <3>4
    <3> QED BY <3>2, <3>4, <3>5
  <2>3. CASE s \in DOMAIN session_id_coroutine
    <3> DEFINE c == session_id_coroutine[s]
    <3>1. /\ Resume(c)
          /\ session_id_coroutine' = Without(session_id_coroutine, s)
          /\ watching_session' = Without(watching_session, s)
      BY <1>2, <2>3 DEF DispatchError
    <3>2. c \in Cos /\ at[c] = "call" /\ Suspended(c)
      BY <2>2, <2>3, LuaAssumption DEF WaitersIInv, WaitersKept, WaiterOnce, CallersOK
    <3>3. \A r \in DOMAIN session_id_coroutine : session_id_coroutine[r] = c => r = s
      BY <2>3, <3>2, LuaAssumption DEF WaitersIInv, WaitersKept, WaiterOnce
    <3>4. c \notin fork_queue /\ c \notin DOMAIN sleep_session
      BY <3>2 DEF WaitersIInv, PlacesOK, SleepersOK
    <3>5. \A r \in DOMAIN session_id_coroutine' :
            /\ r \in DOMAIN session_id_coroutine /\ session_id_coroutine'[r] # c /\ r # s
            /\ session_id_coroutine'[r] = session_id_coroutine[r]
      BY <3>1, <3>3 DEF Without
    <3>6. \A r \in DOMAIN session_id_coroutine : session_id_coroutine[r] \notin {c, "BREAK"} =>
            r \in DOMAIN session_id_coroutine' /\ session_id_coroutine'[r] = session_id_coroutine[r]
      BY <3>1 DEF Without
    <3>7. DOMAIN watching_session' = DOMAIN watching_session \ {s}
      BY <3>1 DEF Without
    <3> HIDE DEF c, s
    <3> QED BY <2>1, <2>2, <3>1, <3>2, <3>4, <3>5, <3>6, <3>7, Resuming
  <2>4. CASE s \notin DOMAIN session_id_coroutine
    <3>1. Thrown /\ UNCHANGED tables /\ UNCHANGED at
      BY <1>2, <2>4 DEF DispatchError
    <3>2. WaiterFound'
      <4> SUFFICES ASSUME NEW x \in Cos, Suspended(x)'
                   PROVE  \E r \in DOMAIN session_id_coroutine' : WaitsFor(x, r)'
        BY DEF WaiterFound
      <4>1. PICK r \in DOMAIN session_id_coroutine : WaitsFor(x, r)
        BY <2>1, <3>1 DEF WaitersIInv, WaitersKept, WaiterFound, Suspended, PlacesOK,
          Thrown
      <4>2. r # s
        BY <2>4, <4>1
      <4> HIDE DEF s
      <4>3. WaitsFor(x, r)'
        BY <2>1, <2>2, <3>1, <4>1, <4>2 DEF WaitsFor, tables
      <4> QED BY <3>1, <4>1, <4>3 DEF tables
    <3> HIDE DEF s
    <3>3. WaiterOnce' /\ PlacesOK' /\ SleepersOK'
      BY <2>1, <3>1 DEF WaitersIInv, WaitersKept, WaiterOnce, Suspended, PlacesOK,
        SleepersOK, Thrown, tables
    <3>4. CallersOK'
      BY <2>1, <2>2, <3>1 DEF WaitersIInv, CallersOK, tables
    <3> QED BY <3>2, <3>3, <3>4 DEF WaitersIInv, WaitersKept
  <2> QED BY <2>3, <2>4
<1> QED BY <1>1, <1>2

LEMMA ResponseKeepsWaiters ==
  ASSUME NEW s, LuaIInv, LuaIInv', WaitersIInv, Response(s) PROVE WaitersIInv'
<1>0. /\ turn = "idle" /\ answers' = answers \ {s} /\ timers' = timers \ {s}
      /\ UNCHANGED <<error_queue, fork_queue, session>>
  BY DEF Response
<1>1. CASE s \in DOMAIN session_id_coroutine /\ session_id_coroutine[s] \in Cos
  <2> DEFINE c == session_id_coroutine[s]
  <2>1. /\ Resume(c)
        /\ session_id_coroutine' = Without(session_id_coroutine, s)
        /\ sleep_session' = Without(sleep_session, c)
        /\ watching_session' = Without(watching_session, s)
    BY <1>1, LuaAssumption DEF Response
  <2>2. c \in Cos /\ Suspended(c)
    BY <1>1, LuaAssumption DEF WaitersIInv, WaitersKept, WaiterOnce
  <2>3. \A r \in DOMAIN session_id_coroutine : session_id_coroutine[r] = c => r = s
    BY <1>1, LuaAssumption DEF WaitersIInv, WaitersKept, WaiterOnce
  <2>4. c \notin fork_queue
    BY <2>2 DEF WaitersIInv, PlacesOK, Suspended
  <2>5. \A r \in DOMAIN session_id_coroutine' :
          /\ r \in DOMAIN session_id_coroutine /\ session_id_coroutine'[r] # c /\ r # s
          /\ session_id_coroutine'[r] = session_id_coroutine[r]
    BY <2>1, <2>3 DEF Without
  <2>6. \A r \in DOMAIN session_id_coroutine : session_id_coroutine[r] \notin {c, "BREAK"} =>
          r \in DOMAIN session_id_coroutine' /\ session_id_coroutine'[r] = session_id_coroutine[r]
    BY <2>1 DEF Without
  <2>7. DOMAIN watching_session' = DOMAIN watching_session \ {s}
    BY <2>1 DEF Without
  <2>8. /\ DOMAIN sleep_session' = DOMAIN sleep_session \ {c}
        /\ \A d \in DOMAIN sleep_session' : sleep_session'[d] = sleep_session[d]
    BY <2>1 DEF Without
  <2> HIDE DEF c
  <2> QED BY <1>0, <2>1, <2>2, <2>4, <2>5, <2>6, <2>7, <2>8, Resuming
<1>2. CASE ~(s \in DOMAIN session_id_coroutine /\ session_id_coroutine[s] \in Cos)
  <2>1. UNCHANGED <<sleep_session, at, running>> /\ turn' = "forks"
    BY <1>2 DEF Response, LuaIInv, ResumedOK
  <2>2. /\ \A r \in DOMAIN session_id_coroutine : r # s =>
             r \in DOMAIN session_id_coroutine' /\ session_id_coroutine'[r] = session_id_coroutine[r]
        /\ \A r \in DOMAIN session_id_coroutine' :
             /\ r \in DOMAIN session_id_coroutine /\ r # s
             /\ session_id_coroutine'[r] = session_id_coroutine[r]
        /\ \A r : r # s => (r \in DOMAIN watching_session' <=> r \in DOMAIN watching_session)
    BY <1>2 DEF Response, Without
  <2>3. WaiterFound'
    <3> SUFFICES ASSUME NEW x \in Cos, Suspended(x)'
                 PROVE  \E r \in DOMAIN session_id_coroutine' : WaitsFor(x, r)'
      BY DEF WaiterFound
    <3>1. PICK r \in DOMAIN session_id_coroutine : WaitsFor(x, r)
      BY <2>1 DEF WaitersIInv, WaitersKept, WaiterFound, Suspended
    <3>2. r # s
      BY <1>2, <3>1 DEF WaitsFor
    <3>3. WaitsFor(x, r)'
      BY <1>0, <2>1, <2>2, <3>1, <3>2 DEF WaitsFor
    <3> QED BY <2>2, <3>2, <3>3
  <2>4. WaiterOnce'
    BY <1>0, <2>1, <2>2 DEF WaitersIInv, WaitersKept, WaiterOnce, Suspended
  <2>5. PlacesOK'
    BY <1>0, <2>1 DEF WaitersIInv, PlacesOK
  <2>6. SleepersOK'
    <3> SUFFICES ASSUME NEW c \in DOMAIN sleep_session
                 PROVE  /\ c \in Cos /\ Suspended(c)' /\ at'[c] \in {"sleep", "queued"}
                        /\ sleep_session[c] \in DOMAIN session_id_coroutine'
                        /\ session_id_coroutine'[sleep_session[c]] = c
      BY <2>1 DEF SleepersOK
    <3>1. /\ c \in Cos /\ Suspended(c) /\ at[c] \in {"sleep", "queued"}
          /\ sleep_session[c] \in DOMAIN session_id_coroutine
          /\ session_id_coroutine[sleep_session[c]] = c
      BY DEF WaitersIInv, SleepersOK
    <3>2. sleep_session[c] # s
      BY <1>2, <3>1
    <3> QED BY <2>1, <2>2, <3>1, <3>2 DEF Suspended
  <2>7. CallersOK'
    BY <1>0, <2>1, <2>2 DEF WaitersIInv, CallersOK
  <2> QED BY <2>3, <2>4, <2>5, <2>6, <2>7 DEF WaitersIInv, WaitersKept
<1> QED BY <1>1, <1>2

LEMMA WaitersStep ==
  ASSUME LuaIInv, LuaIInv', WaitersIInv, [LuaNext]_luaVars PROVE WaitersIInv'
<1>1. CASE Delivery
  BY <1>1, RequestKeepsWaiters, ResponseKeepsWaiters, ErrorForSessionKeepsWaiters,
      ServiceDownKeepsWaiters
  DEF Delivery
<1>2. CASE Coroutine
  BY <1>2, CallKeepsWaiters, SleepKeepsWaiters, TimeoutFuncKeepsWaiters,
      ForkKeepsWaiters, WakeupCoKeepsWaiters, EnterQueueKeepsWaiters,
      WaitInQueueKeepsWaiters, BackInQueueKeepsWaiters, LeaveQueueKeepsWaiters,
      CoErrorKeepsWaiters, CoExitKeepsWaiters
  DEF Coroutine
<1>3. CASE DispatchWakeup \/ DispatchError \/ DispatchFork
  BY <1>3, DispatchWakeupKeepsWaiters, DispatchErrorKeepsWaiters,
      DispatchForkKeepsWaiters
<1>4. CASE UNCHANGED luaVars
  BY <1>4 DEF WaitersIInv, WaitersKept, WaiterFound, WaiterOnce, WaitsFor, Suspended,
    PlacesOK,
         SleepersOK, CallersOK, luaVars, tables, outside, mutexQ, history
<1> QED BY <1>1, <1>2, <1>3, <1>4 DEF LuaNext, LuaIdle

-----------------------------------------------------------------------------
(* Nobody is stranded without an error.                                    *)

LEMMA CallKeepsClean ==
  ASSUME NEW v, LuaIInv, LuaIInv', WaitersIInv, WaitersIInv', CleanIInv, Call(v) PROVE CleanIInv'
<1>1. QueuedOK'
  BY LuaAssumption DEF CleanIInv, LuaIInv, SessionsOK, ResumedOK, WaitersIInv,
    PlacesOK, SleepersOK, CallersOK, QueuedOK, Suspended, Call, Yield, With, Runs,
    history, mutexQ
<1>2. ASSUME ~erred' PROVE ~failed' /\ HandoverOK' /\ DrainedOK'
  <2>0. ~erred /\ ~failed /\ HandoverOK /\ DrainedOK
    BY <1>2 DEF CleanIInv, Call, history
  <2>1. ~failed'
    BY <2>0, LuaAssumption DEF LuaIInv, QueueOK, ResumedOK, HandoverOK, DrainedOK,
      Handed, Call, Yield, With, Runs, history, mutexQ
  <2>2. HandoverOK'
    BY <2>0, LuaAssumption DEF LuaIInv, QueueOK, QueueExclusive, ResumedOK,
      WaitersIInv, PlacesOK, HandoverOK, Handed, Suspended, Call, Yield, With, Runs,
      history, mutexQ
  <2>3. DrainedOK'
    BY <2>0, LuaAssumption DEF LuaIInv, SessionsOK, ResumedOK, WaitersIInv, PlacesOK,
      SleepersOK, CallersOK, DrainedOK, Suspended, WaitersKept, WaiterOnce, Call,
      Yield, With, Runs, history, mutexQ
  <2> QED BY <2>1, <2>2, <2>3
<1> QED BY <1>1, <1>2 DEF CleanIInv

LEMMA SleepKeepsClean ==
  ASSUME NEW timed \in BOOLEAN, LuaIInv, LuaIInv', WaitersIInv, WaitersIInv', CleanIInv, Sleep(timed) PROVE CleanIInv'
<1>1. QueuedOK'
  BY LuaAssumption DEF CleanIInv, LuaIInv, SessionsOK, ResumedOK, WaitersIInv,
    PlacesOK, SleepersOK, CallersOK, QueuedOK, Suspended, Sleep, Yield, With, Runs,
    history, mutexQ
<1>2. ASSUME ~erred' PROVE ~failed' /\ HandoverOK' /\ DrainedOK'
  <2>0. ~erred /\ ~failed /\ HandoverOK /\ DrainedOK
    BY <1>2 DEF CleanIInv, Sleep, history
  <2>1. ~failed'
    BY <2>0, LuaAssumption DEF LuaIInv, QueueOK, ResumedOK, HandoverOK, DrainedOK,
      Handed, Sleep, Yield, With, Runs, history, mutexQ
  <2>2. HandoverOK'
    BY <2>0, LuaAssumption DEF LuaIInv, QueueOK, QueueExclusive, ResumedOK,
      WaitersIInv, PlacesOK, HandoverOK, Handed, Suspended, Sleep, Yield, With, Runs,
      history, mutexQ
  <2>3. DrainedOK'
    BY <2>0, LuaAssumption DEF LuaIInv, SessionsOK, ResumedOK, WaitersIInv, PlacesOK,
      SleepersOK, CallersOK, DrainedOK, Suspended, WaitersKept, WaiterOnce, Sleep,
      Yield, With, Runs, history, mutexQ
  <2> QED BY <2>1, <2>2, <2>3
<1> QED BY <1>1, <1>2 DEF CleanIInv

LEMMA TimeoutFuncKeepsClean ==
  ASSUME NEW c \in Cos, LuaIInv, LuaIInv', WaitersIInv, WaitersIInv', CleanIInv, TimeoutFunc(c) PROVE CleanIInv'
<1>1. QueuedOK'
  BY LuaAssumption DEF CleanIInv, LuaIInv, SessionsOK, ResumedOK, WaitersIInv,
    PlacesOK, SleepersOK, CallersOK, QueuedOK, Suspended, TimeoutFunc, With, Runs,
    history, mutexQ
<1>2. ASSUME ~erred' PROVE ~failed' /\ HandoverOK' /\ DrainedOK'
  <2>0. ~erred /\ ~failed /\ HandoverOK /\ DrainedOK
    BY <1>2 DEF CleanIInv, TimeoutFunc, history
  <2>1. ~failed'
    BY <2>0, LuaAssumption DEF LuaIInv, QueueOK, ResumedOK, HandoverOK, DrainedOK,
      Handed, TimeoutFunc, With, Runs, history, mutexQ
  <2>2. HandoverOK'
    BY <2>0, LuaAssumption DEF LuaIInv, QueueOK, QueueExclusive, ResumedOK,
      WaitersIInv, PlacesOK, HandoverOK, Handed, Suspended, TimeoutFunc, With, Runs,
      history, mutexQ
  <2>3. DrainedOK'
    BY <2>0, LuaAssumption DEF LuaIInv, SessionsOK, ResumedOK, WaitersIInv, PlacesOK,
      SleepersOK, CallersOK, DrainedOK, Suspended, WaitersKept, WaiterOnce,
      TimeoutFunc, With, Runs, history, mutexQ
  <2> QED BY <2>1, <2>2, <2>3
<1> QED BY <1>1, <1>2 DEF CleanIInv

LEMMA ForkKeepsClean ==
  ASSUME NEW c \in Cos, LuaIInv, LuaIInv', WaitersIInv, WaitersIInv', CleanIInv, Fork(c) PROVE CleanIInv'
<1>1. QueuedOK'
  BY LuaAssumption DEF CleanIInv, LuaIInv, SessionsOK, ResumedOK, WaitersIInv,
    PlacesOK, SleepersOK, CallersOK, QueuedOK, Suspended, Fork, Runs, tables, outside,
    history, mutexQ
<1>2. ASSUME ~erred' PROVE ~failed' /\ HandoverOK' /\ DrainedOK'
  <2>0. ~erred /\ ~failed /\ HandoverOK /\ DrainedOK
    BY <1>2 DEF CleanIInv, Fork, history
  <2>1. ~failed'
    BY <2>0, LuaAssumption DEF LuaIInv, QueueOK, ResumedOK, HandoverOK, DrainedOK,
      Handed, Fork, Runs, tables, outside, history, mutexQ
  <2>2. HandoverOK'
    BY <2>0, LuaAssumption DEF LuaIInv, QueueOK, QueueExclusive, ResumedOK,
      WaitersIInv, PlacesOK, HandoverOK, Handed, Suspended, Fork, Runs, tables,
      outside, history, mutexQ
  <2>3. DrainedOK'
    BY <2>0, LuaAssumption DEF LuaIInv, SessionsOK, ResumedOK, WaitersIInv, PlacesOK,
      SleepersOK, CallersOK, DrainedOK, Suspended, WaitersKept, WaiterOnce, Fork, Runs,
      tables, outside, history, mutexQ
  <2> QED BY <2>1, <2>2, <2>3
<1> QED BY <1>1, <1>2 DEF CleanIInv

LEMMA WakeupCoKeepsClean ==
  ASSUME NEW c \in Cos, LuaIInv, LuaIInv', WaitersIInv, WaitersIInv', CleanIInv, WakeupCo(c) PROVE CleanIInv'
<1>1. QueuedOK'
  BY LuaAssumption DEF CleanIInv, LuaIInv, SessionsOK, ResumedOK, WaitersIInv,
    PlacesOK, SleepersOK, CallersOK, QueuedOK, Suspended, WakeupCo, Runs, outside,
    history, mutexQ, Woken1
<1>2. ASSUME ~erred' PROVE ~failed' /\ HandoverOK' /\ DrainedOK'
  <2>0. ~erred /\ ~failed /\ HandoverOK /\ DrainedOK
    BY <1>2 DEF CleanIInv, WakeupCo, history
  <2>1. ~failed'
    BY <2>0, LuaAssumption DEF LuaIInv, QueueOK, ResumedOK, HandoverOK, DrainedOK,
      Handed, WakeupCo, Runs, outside, history, mutexQ, Woken1
  <2>2. HandoverOK'
    BY <2>0, LuaAssumption DEF LuaIInv, QueueOK, QueueExclusive, ResumedOK,
      WaitersIInv, PlacesOK, HandoverOK, Handed, Suspended, WakeupCo, Runs, outside,
      history, mutexQ, Woken1
  <2>3. DrainedOK'
    BY <2>0, LuaAssumption DEF LuaIInv, SessionsOK, ResumedOK, WaitersIInv, PlacesOK,
      SleepersOK, CallersOK, DrainedOK, Suspended, WaitersKept, WaiterOnce, WakeupCo,
      Runs, outside, history, mutexQ, Woken1
  <2> QED BY <2>1, <2>2, <2>3
<1> QED BY <1>1, <1>2 DEF CleanIInv

LEMMA EnterQueueKeepsClean ==
  ASSUME LuaIInv, LuaIInv', WaitersIInv, WaitersIInv', CleanIInv, EnterQueue PROVE CleanIInv'
<1>1. QueuedOK'
  BY LuaAssumption DEF CleanIInv, LuaIInv, SessionsOK, ResumedOK, WaitersIInv,
    PlacesOK, SleepersOK, CallersOK, QueuedOK, Suspended, EnterQueue, Runs, tables,
    outside, history
<1>2. ASSUME ~erred' PROVE ~failed' /\ HandoverOK' /\ DrainedOK'
  <2>0. ~erred /\ ~failed /\ HandoverOK /\ DrainedOK
    BY <1>2 DEF CleanIInv, EnterQueue, history
  <2>1. ~failed'
    BY <2>0, LuaAssumption DEF LuaIInv, QueueOK, ResumedOK, HandoverOK, DrainedOK,
      Handed, EnterQueue, Runs, tables, outside, history
  <2>2. HandoverOK'
    BY <2>0, LuaAssumption DEF LuaIInv, QueueOK, QueueExclusive, ResumedOK,
      WaitersIInv, PlacesOK, HandoverOK, Handed, Suspended, EnterQueue, Runs, tables,
      outside, history
  <2>3. DrainedOK'
    BY <2>0, LuaAssumption DEF LuaIInv, SessionsOK, ResumedOK, WaitersIInv, PlacesOK,
      SleepersOK, CallersOK, DrainedOK, Suspended, WaitersKept, WaiterOnce, EnterQueue,
      Runs, tables, outside, history
  <2> QED BY <2>1, <2>2, <2>3
<1> QED BY <1>1, <1>2 DEF CleanIInv

LEMMA WaitInQueueKeepsClean ==
  ASSUME LuaIInv, LuaIInv', WaitersIInv, WaitersIInv', CleanIInv, WaitInQueue PROVE CleanIInv'
<1>1. QueuedOK'
  BY LuaAssumption DEF CleanIInv, LuaIInv, SessionsOK, ResumedOK, WaitersIInv,
    PlacesOK, SleepersOK, CallersOK, QueuedOK, Suspended, WaitInQueue, Yield, With,
    Runs, history
<1>2. ASSUME ~erred' PROVE ~failed' /\ HandoverOK' /\ DrainedOK'
  <2>0. ~erred /\ ~failed /\ HandoverOK /\ DrainedOK
    BY <1>2 DEF CleanIInv, WaitInQueue, history
  <2>1. ~failed'
    BY <2>0, LuaAssumption DEF LuaIInv, QueueOK, ResumedOK, HandoverOK, DrainedOK,
      Handed, WaitInQueue, Yield, With, Runs, history
  <2>2. HandoverOK'
    <3>1. /\ running \in Cos /\ at[running] = "runs" /\ thread_queue \in Seq(Cos)
          /\ \A x \in Cos : at'[x] = IF x = running THEN "queued" ELSE at[x]
          /\ running' = NoCo /\ current_thread \in Cos \ {running}
          /\ UNCHANGED <<current_thread, ref, wakeup_session>>
      BY <2>0 DEF LuaIInv, QueueOK, ResumedOK, HandoverOK, WaitersIInv, PlacesOK,
        WaitInQueue, Runs, Yield
    <3>2. /\ DOMAIN thread_queue' = DOMAIN thread_queue \cup {Len(thread_queue) + 1}
          /\ \A i \in DOMAIN thread_queue : thread_queue'[i] = thread_queue[i]
          /\ thread_queue'[Len(thread_queue) + 1] = running
          /\ Len(thread_queue) + 1 \notin DOMAIN thread_queue
      BY <3>1 DEF WaitInQueue
    <3>3. running \notin wakeup_session
      BY <2>0, <3>1 DEF DrainedOK, WaitersIInv, SleepersOK
    <3>4. \A i \in DOMAIN thread_queue : thread_queue[i] \in Cos /\ thread_queue[i] # running
      BY <2>0, <3>1 DEF HandoverOK
    <3> QED BY <2>0, <3>1, <3>2, <3>3, <3>4, LuaAssumption DEF HandoverOK, Handed
  <2>3. DrainedOK'
    BY <2>0, LuaAssumption DEF LuaIInv, SessionsOK, ResumedOK, WaitersIInv, PlacesOK,
      SleepersOK, CallersOK, DrainedOK, Suspended, WaitersKept, WaiterOnce,
      WaitInQueue, Yield, With, Runs, history
  <2> QED BY <2>1, <2>2, <2>3
<1> QED BY <1>1, <1>2 DEF CleanIInv

LEMMA BackInQueueKeepsClean ==
  ASSUME LuaIInv, LuaIInv', WaitersIInv, WaitersIInv', CleanIInv, BackInQueue PROVE CleanIInv'
<1>1. QueuedOK'
  BY LuaAssumption DEF CleanIInv, LuaIInv, SessionsOK, ResumedOK, WaitersIInv,
    PlacesOK, SleepersOK, CallersOK, QueuedOK, Suspended, BackInQueue, tables, outside,
    Thrown
<1>2. ASSUME ~erred' PROVE ~failed' /\ HandoverOK' /\ DrainedOK'
  <2>0. ~erred /\ ~failed /\ HandoverOK /\ DrainedOK
    BY <1>2 DEF CleanIInv, BackInQueue
  <2>1. ~failed'
    BY <2>0, LuaAssumption DEF LuaIInv, QueueOK, ResumedOK, HandoverOK, DrainedOK,
      Handed, BackInQueue, tables, outside, Thrown
  <2>2. HandoverOK'
    BY <2>0, LuaAssumption DEF LuaIInv, QueueOK, QueueExclusive, ResumedOK,
      WaitersIInv, PlacesOK, HandoverOK, Handed, Suspended, BackInQueue, tables,
      outside, Thrown
  <2>3. DrainedOK'
    <3>1. ref = 0
      BY <2>1 DEF BackInQueue
    <3> QED BY <2>0, <3>1 DEF DrainedOK, BackInQueue, tables
  <2> QED BY <2>1, <2>2, <2>3
<1> QED BY <1>1, <1>2 DEF CleanIInv

LEMMA LeaveQueueKeepsClean ==
  ASSUME LuaIInv, LuaIInv', WaitersIInv, WaitersIInv', CleanIInv, LeaveQueue PROVE CleanIInv'
<1>1. QueuedOK'
  BY LuaAssumption DEF CleanIInv, LuaIInv, SessionsOK, ResumedOK, WaitersIInv,
    PlacesOK, SleepersOK, CallersOK, QueuedOK, Suspended, LeaveQueue, Runs, outside,
    history, Leave, Woken1
<1>2. ASSUME ~erred' PROVE ~failed' /\ HandoverOK' /\ DrainedOK'
  <2>0. ~erred /\ ~failed /\ HandoverOK /\ DrainedOK
    BY <1>2 DEF CleanIInv, LeaveQueue, history
  <2>1. ~failed'
    BY <2>0, LuaAssumption DEF LuaIInv, QueueOK, ResumedOK, HandoverOK, DrainedOK,
      Handed, LeaveQueue, Runs, outside, history, Leave, Woken1
  <2>2. HandoverOK'
    <3>1. /\ running \in Cos /\ at[running] = "runs" /\ depth[running] > 0
          /\ current_thread = running /\ ref = depth[running] /\ ref' = ref - 1
          /\ UNCHANGED <<at, running>> /\ thread_queue \in Seq(Cos) /\ ref \in Nat
      BY DEF LuaIInv, QueueOK, QueueExclusive, ResumedOK, LeaveQueue, Leave, Runs
    <3>2. CASE ref' # 0
      BY <2>0, <3>1, <3>2 DEF HandoverOK, Handed, LeaveQueue, Leave
    <3>3. CASE ref' = 0 /\ thread_queue = <<>>
      <4>1. current_thread' = NoCo /\ UNCHANGED <<thread_queue, wakeup_session>>
        BY <3>3 DEF LeaveQueue, Leave
      <4>2. \A c \in Cos : at[c] # "queued"
        BY <2>0, <3>1, <3>3 DEF HandoverOK
      <4> QED BY <3>1, <3>3, <4>1, <4>2 DEF HandoverOK
    <3>4. CASE ref' = 0 /\ thread_queue # <<>>
      <4> DEFINE x == Head(thread_queue)
      <4>1. /\ current_thread' = x /\ thread_queue' = Tail(thread_queue)
            /\ wakeup_session' = Woken1(x)
        BY <3>4 DEF LeaveQueue, Leave
      <4>2. /\ x \in Cos /\ 1 \in DOMAIN thread_queue /\ thread_queue[1] = x
            /\ \A i \in DOMAIN thread_queue' : /\ i + 1 \in DOMAIN thread_queue /\ i + 1 # 1 /\ i \in Nat
                                              /\ thread_queue'[i] = thread_queue[i + 1]
            /\ \A i \in DOMAIN thread_queue : i # 1 =>
                 i - 1 \in DOMAIN thread_queue' /\ thread_queue'[i - 1] = thread_queue[i]
        BY <3>1, <3>4, <4>1
      <4> HIDE DEF x
      <4>3. at[x] = "queued" /\ x # running
        BY <2>0, <3>1, <4>2 DEF HandoverOK
      <4>4. x \in DOMAIN sleep_session
        BY <4>2, <4>3 DEF WaitersIInv, WaitersKept, WaiterFound, WaitsFor, Suspended
      <4>5. wakeup_session' = wakeup_session \cup {x}
        BY <4>1, <4>4 DEF Woken1
      <4>6. \A c \in wakeup_session : at[c] = "queued" => FALSE
        BY <2>0, <3>1 DEF HandoverOK, Handed, LuaIInv, ResumedOK
      <4>7. \A i \in DOMAIN thread_queue' : at[thread_queue'[i]] = "queued" /\ thread_queue'[i] # x
        BY <2>0, <4>2 DEF HandoverOK
      <4>8. \A i, j \in DOMAIN thread_queue' : thread_queue'[i] = thread_queue'[j] => i = j
        BY <2>0, <4>2 DEF HandoverOK
      <4>9. \A c \in Cos : at[c] = "queued" =>
              c = x \/ \E i \in DOMAIN thread_queue' : thread_queue'[i] = c
        <5> TAKE c \in Cos
        <5> HAVE at[c] = "queued"
        <5>1. PICK i \in DOMAIN thread_queue : thread_queue[i] = c
          BY <2>0, <3>1 DEF HandoverOK
        <5> QED BY <4>2, <5>1
      <4> QED BY <3>1, <3>4, <4>1, <4>2, <4>3, <4>5, <4>6, <4>7, <4>8, <4>9,
        LuaAssumption DEF HandoverOK, Handed
    <3> QED BY <3>2, <3>3, <3>4
  <2>3. DrainedOK'
    BY <2>0, LuaAssumption DEF LuaIInv, SessionsOK, ResumedOK, WaitersIInv, PlacesOK,
      SleepersOK, CallersOK, DrainedOK, Suspended, WaitersKept, WaiterOnce, LeaveQueue,
      Runs, outside, history, Leave, Woken1
  <2> QED BY <2>1, <2>2, <2>3
<1> QED BY <1>1, <1>2 DEF CleanIInv

LEMMA CoExitKeepsClean ==
  ASSUME LuaIInv, LuaIInv', WaitersIInv, WaitersIInv', CleanIInv, CoExit PROVE CleanIInv'
<1>1. QueuedOK'
  BY LuaAssumption DEF CleanIInv, LuaIInv, SessionsOK, ResumedOK, WaitersIInv,
    PlacesOK, SleepersOK, CallersOK, QueuedOK, Suspended, CoExit, Runs, tables,
    outside, history, mutexQ
<1>2. ASSUME ~erred' PROVE ~failed' /\ HandoverOK' /\ DrainedOK'
  <2>0. ~erred /\ ~failed /\ HandoverOK /\ DrainedOK
    BY <1>2 DEF CleanIInv, CoExit, history
  <2>1. ~failed'
    BY <2>0, LuaAssumption DEF LuaIInv, QueueOK, ResumedOK, HandoverOK, DrainedOK,
      Handed, CoExit, Runs, tables, outside, history, mutexQ
  <2>2. HandoverOK'
    BY <2>0, LuaAssumption DEF LuaIInv, QueueOK, QueueExclusive, ResumedOK,
      WaitersIInv, PlacesOK, HandoverOK, Handed, Suspended, CoExit, Runs, tables,
      outside, history, mutexQ
  <2>3. DrainedOK'
    BY <2>0, LuaAssumption DEF LuaIInv, SessionsOK, ResumedOK, WaitersIInv, PlacesOK,
      SleepersOK, CallersOK, DrainedOK, Suspended, WaitersKept, WaiterOnce, CoExit,
      Runs, tables, outside, history, mutexQ
  <2> QED BY <2>1, <2>2, <2>3
<1> QED BY <1>1, <1>2 DEF CleanIInv

LEMMA ErrorForSessionKeepsClean ==
  ASSUME NEW s, LuaIInv, LuaIInv', WaitersIInv, WaitersIInv', CleanIInv, ErrorForSession(s) PROVE CleanIInv'
<1>1. QueuedOK'
  BY LuaAssumption DEF CleanIInv, LuaIInv, SessionsOK, ResumedOK, WaitersIInv,
    PlacesOK, SleepersOK, CallersOK, QueuedOK, Suspended, ErrorForSession, tables,
    history, mutexQ
<1>2. ASSUME ~erred' PROVE ~failed' /\ HandoverOK' /\ DrainedOK'
  <2>0. ~erred /\ ~failed /\ HandoverOK /\ DrainedOK
    BY <1>2 DEF CleanIInv, ErrorForSession, history
  <2>1. ~failed'
    BY <2>0, LuaAssumption DEF LuaIInv, QueueOK, ResumedOK, HandoverOK, DrainedOK,
      Handed, ErrorForSession, tables, history, mutexQ
  <2>2. HandoverOK'
    BY <2>0, LuaAssumption DEF LuaIInv, QueueOK, QueueExclusive, ResumedOK,
      WaitersIInv, PlacesOK, HandoverOK, Handed, Suspended, ErrorForSession, tables,
      history, mutexQ
  <2>3. DrainedOK'
    BY <2>0, LuaAssumption DEF LuaIInv, SessionsOK, ResumedOK, WaitersIInv, PlacesOK,
      SleepersOK, CallersOK, DrainedOK, Suspended, WaitersKept, WaiterOnce,
      ErrorForSession, tables, history, mutexQ
  <2> QED BY <2>1, <2>2, <2>3
<1> QED BY <1>1, <1>2 DEF CleanIInv

LEMMA ServiceDownKeepsClean ==
  ASSUME NEW v, LuaIInv, LuaIInv', WaitersIInv, WaitersIInv', CleanIInv, ServiceDown(v) PROVE CleanIInv'
<1>1. QueuedOK'
  BY LuaAssumption DEF CleanIInv, LuaIInv, SessionsOK, ResumedOK, WaitersIInv,
    PlacesOK, SleepersOK, CallersOK, QueuedOK, Suspended, ServiceDown, tables, history,
    mutexQ
<1>2. ASSUME ~erred' PROVE ~failed' /\ HandoverOK' /\ DrainedOK'
  <2>0. ~erred /\ ~failed /\ HandoverOK /\ DrainedOK
    BY <1>2 DEF CleanIInv, ServiceDown, history
  <2>1. ~failed'
    BY <2>0, LuaAssumption DEF LuaIInv, QueueOK, ResumedOK, HandoverOK, DrainedOK,
      Handed, ServiceDown, tables, history, mutexQ
  <2>2. HandoverOK'
    BY <2>0, LuaAssumption DEF LuaIInv, QueueOK, QueueExclusive, ResumedOK,
      WaitersIInv, PlacesOK, HandoverOK, Handed, Suspended, ServiceDown, tables,
      history, mutexQ
  <2>3. DrainedOK'
    <3>1. PICK order \in Orders(Watched(v)) : error_queue' = error_queue \o order
      BY DEF ServiceDown
    <3>2. error_queue = <<>> /\ wakeup_session = {}
      BY <2>0 DEF DrainedOK, ServiceDown
    <3>3. /\ order \in Seq(Watched(v)) /\ \A i, j \in DOMAIN order : order[i] = order[j] => i = j
          /\ \A i \in DOMAIN order : order[i] \in Watched(v)
      BY LuaAssumption DEF Orders
    <3>4. error_queue' = order
      BY <3>1, <3>2, <3>3
    <3> QED BY <2>0, <3>2, <3>3, <3>4 DEF DrainedOK, Watched, ServiceDown, tables
  <2> QED BY <2>1, <2>2, <2>3
<1> QED BY <1>1, <1>2 DEF CleanIInv

LEMMA RequestKeepsClean ==
  ASSUME NEW c \in Cos, LuaIInv, LuaIInv', WaitersIInv, WaitersIInv', CleanIInv, Request(c) PROVE CleanIInv'
<1>1. QueuedOK'
  BY LuaAssumption DEF CleanIInv, LuaIInv, SessionsOK, ResumedOK, WaitersIInv,
    PlacesOK, SleepersOK, CallersOK, QueuedOK, Suspended, Request, tables, outside,
    history, mutexQ, Resume
<1>2. ASSUME ~erred' PROVE ~failed' /\ HandoverOK' /\ DrainedOK'
  <2>0. ~erred /\ ~failed /\ HandoverOK /\ DrainedOK
    BY <1>2 DEF CleanIInv, Request, history
  <2>1. ~failed'
    BY <2>0, LuaAssumption DEF LuaIInv, QueueOK, ResumedOK, HandoverOK, DrainedOK,
      Handed, Request, tables, outside, history, mutexQ, Resume
  <2>2. HandoverOK'
    BY <2>0, LuaAssumption DEF LuaIInv, QueueOK, QueueExclusive, ResumedOK,
      WaitersIInv, PlacesOK, HandoverOK, Handed, Suspended, Request, tables, outside,
      history, mutexQ, Resume
  <2>3. DrainedOK'
    BY <2>0, LuaAssumption DEF LuaIInv, SessionsOK, ResumedOK, WaitersIInv, PlacesOK,
      SleepersOK, CallersOK, DrainedOK, Suspended, WaitersKept, WaiterOnce, Request,
      tables, outside, history, mutexQ, Resume
  <2> QED BY <2>1, <2>2, <2>3
<1> QED BY <1>1, <1>2 DEF CleanIInv

LEMMA ResponseKeepsClean ==
  ASSUME NEW s, LuaIInv, LuaIInv', WaitersIInv, WaitersIInv', CleanIInv, Response(s) PROVE CleanIInv'
<1>1. QueuedOK'
  BY LuaAssumption DEF CleanIInv, LuaIInv, SessionsOK, ResumedOK, WaitersIInv,
    PlacesOK, SleepersOK, CallersOK, QueuedOK, Suspended, Response, history, mutexQ,
    Resume, Without
<1>2. ASSUME ~erred' PROVE ~failed' /\ HandoverOK' /\ DrainedOK'
  <2>0. ~erred /\ ~failed /\ HandoverOK /\ DrainedOK
    BY <1>2 DEF CleanIInv, Response, history
  <2>1. ~failed'
    BY <2>0, LuaAssumption DEF LuaIInv, QueueOK, ResumedOK, HandoverOK, DrainedOK,
      Handed, Response, history, mutexQ, Resume, Without
  <2>2. HandoverOK'
    <3>1. /\ turn = "idle" /\ running = NoCo /\ wakeup_session = {}
          /\ UNCHANGED <<wakeup_session, mutexQ>>
      BY <2>0 DEF DrainedOK, WaitersIInv, PlacesOK, Response
    <3>2. CASE running' = running /\ at' = at
      BY <2>0, <3>1, <3>2 DEF HandoverOK, Handed, mutexQ
    <3>3. ASSUME NEW c, s \in DOMAIN session_id_coroutine, c = session_id_coroutine[s], c # "BREAK", Resume(c)
          PROVE  HandoverOK'
      <4>1. c \in Cos /\ Suspended(c)
        BY <3>3, LuaAssumption DEF WaitersIInv, WaitersKept, WaiterOnce, LuaIInv,
          ResumedOK
      <4>2. at[c] # "queued"
        <5> SUFFICES ASSUME at[c] = "queued" PROVE FALSE
          OBVIOUS
        <5>1. PICK r \in DOMAIN session_id_coroutine : WaitsFor(c, r)
          BY <4>1 DEF WaitersIInv, WaitersKept, WaiterFound
        <5>2. r = s
          BY <3>3, <5>1 DEF WaitsFor, WaitersIInv, WaitersKept, WaiterOnce
        <5>3. c \in DOMAIN sleep_session /\ sleep_session[c] = s
          BY <5>1, <5>2 DEF WaitsFor
        <5> QED BY <5>3 DEF CleanIInv, QueuedOK, Response
      <4>3. at' = [at EXCEPT ![c] = "runs"] /\ running' = c
        BY <3>3, <4>2 DEF Resume
      <4>4. \A x \in Cos : at'[x] = "queued" <=> at[x] = "queued"
        BY <4>2, <4>3 DEF WaitersIInv, PlacesOK
      <4>5. current_thread # NoCo => ref # 0
        BY <2>0, <3>1, LuaAssumption DEF HandoverOK, Handed
      <4>6. \A i \in DOMAIN thread_queue : thread_queue[i] \in Cos
        BY DEF LuaIInv, QueueOK
      <4> QED BY <2>0, <3>1, <4>2, <4>3, <4>4, <4>5, <4>6 DEF HandoverOK, Handed, mutexQ
    <3> QED BY <3>2, <3>3 DEF Response
  <2>3. DrainedOK'
    BY <2>0, LuaAssumption DEF LuaIInv, SessionsOK, ResumedOK, WaitersIInv, PlacesOK,
      SleepersOK, CallersOK, DrainedOK, Suspended, WaitersKept, WaiterOnce, Response,
      history, mutexQ, Resume, Without
  <2> QED BY <2>1, <2>2, <2>3
<1> QED BY <1>1, <1>2 DEF CleanIInv

LEMMA DispatchWakeupKeepsClean ==
  ASSUME LuaIInv, LuaIInv', WaitersIInv, WaitersIInv', CleanIInv, DispatchWakeup PROVE CleanIInv'
<1>1. QueuedOK'
  <2>1. UNCHANGED <<answers, timers, session>>
    BY DEF DispatchWakeup, outside
  <2>2. /\ DOMAIN sleep_session' \subseteq DOMAIN sleep_session
        /\ \A c \in DOMAIN sleep_session' : sleep_session'[c] = sleep_session[c]
    BY DEF DispatchWakeup, tables, Without
  <2>3. \A c \in Cos : at'[c] = "queued" => at[c] = "queued"
    BY DEF WaitersIInv, PlacesOK, DispatchWakeup, tables, Resume
  <2> QED BY <2>1, <2>2, <2>3 DEF CleanIInv, QueuedOK, WaitersIInv, SleepersOK
<1>2. ASSUME ~erred' PROVE ~failed' /\ HandoverOK' /\ DrainedOK'
  <2>0. ~erred /\ ~failed /\ HandoverOK /\ DrainedOK
    BY <1>2 DEF CleanIInv, DispatchWakeup, history
  <2>1. ~failed'
    BY <2>0, LuaAssumption DEF LuaIInv, QueueOK, ResumedOK, HandoverOK, DrainedOK,
      Handed, DispatchWakeup, tables, outside, history, mutexQ, Resume, With, Without
  <2>2. HandoverOK'
    <3>0. /\ turn = "wakeup" /\ running = NoCo
          /\ UNCHANGED <<mutexQ, watching_session, error_queue, history>>
      BY DEF WaitersIInv, PlacesOK, DispatchWakeup, tables
    <3>1. CASE wakeup_session = {} /\ turn' = "errors" /\ UNCHANGED <<session_id_coroutine, sleep_session, wakeup_session, at, running>>
      BY <2>0, <3>0, <3>1 DEF HandoverOK, Handed, mutexQ
    <3>2. ASSUME NEW c \in wakeup_session, wakeup_session' = wakeup_session \ {c},
                 NEW s, s = sleep_session[c], c \in DOMAIN sleep_session,
                 session_id_coroutine' = IF s \in timers THEN With(session_id_coroutine, s, "BREAK")
                                                         ELSE Without(session_id_coroutine, s),
                 sleep_session' = Without(sleep_session, c), Resume(c)
          PROVE  HandoverOK'
      <4>1. c \in Cos /\ running' = c /\ at' = [at EXCEPT ![c] = IF @ = "queued" THEN @ ELSE "runs"]
        BY <3>2 DEF LuaIInv, ResumedOK, Resume
      <4>2. \A x \in Cos : at'[x] = "queued" <=> at[x] = "queued"
        BY <4>1 DEF WaitersIInv, PlacesOK
      <4>3. \A x \in Cos : Handed(x)' <=> Handed(x)
        BY <3>0, <3>2, <4>1, LuaAssumption DEF Handed
      <4>4. \A i \in DOMAIN thread_queue : thread_queue[i] \in Cos
        BY DEF LuaIInv, QueueOK
      <4> QED BY <2>0, <3>0, <4>2, <4>3, <4>4 DEF HandoverOK, mutexQ
    <3> QED BY <2>0, <3>1, <3>2 DEF DrainedOK, DispatchWakeup, tables
  <2>3. DrainedOK'
    <3>0. /\ turn = "wakeup" /\ running = NoCo
          /\ UNCHANGED <<mutexQ, watching_session, error_queue, history>>
      BY DEF WaitersIInv, PlacesOK, DispatchWakeup, tables
    <3>1. CASE wakeup_session = {} /\ turn' = "errors" /\ UNCHANGED <<session_id_coroutine, sleep_session, wakeup_session, at, running>>
      BY <2>0, <3>0, <3>1 DEF DrainedOK
    <3>2. ASSUME NEW c \in wakeup_session, wakeup_session' = wakeup_session \ {c},
                 NEW s, s = sleep_session[c], c \in DOMAIN sleep_session,
                 session_id_coroutine' = IF s \in timers THEN With(session_id_coroutine, s, "BREAK")
                                                         ELSE Without(session_id_coroutine, s),
                 sleep_session' = Without(sleep_session, c), Resume(c)
          PROVE  DrainedOK'
      <4>1. s \in DOMAIN session_id_coroutine /\ session_id_coroutine[s] = c /\ c \in Cos /\ at[c] # "call"
        BY <3>2 DEF WaitersIInv, SleepersOK
      <4>2. s \notin DOMAIN watching_session /\ \A i \in DOMAIN error_queue : error_queue[i] # s
        BY <4>1 DEF WaitersIInv, CallersOK
      <4>3. \A r \in DOMAIN session_id_coroutine : r # s => r \in DOMAIN session_id_coroutine'
        BY <3>2 DEF With, Without
      <4>4. DOMAIN sleep_session' = DOMAIN sleep_session \ {c}
        BY <3>2 DEF Without
      <4>5. turn' = "run"
        BY <3>2 DEF Resume
      <4> QED BY <2>0, <3>0, <3>2, <4>2, <4>3, <4>4, <4>5 DEF DrainedOK
    <3> QED BY <2>0, <3>1, <3>2 DEF DrainedOK, DispatchWakeup, tables
  <2> QED BY <2>1, <2>2, <2>3
<1> QED BY <1>1, <1>2 DEF CleanIInv

LEMMA DispatchErrorKeepsClean ==
  ASSUME LuaIInv, LuaIInv', WaitersIInv, WaitersIInv', CleanIInv, DispatchError PROVE CleanIInv'
<1>1. QueuedOK'
  BY LuaAssumption DEF CleanIInv, LuaIInv, SessionsOK, ResumedOK, WaitersIInv,
    PlacesOK, SleepersOK, CallersOK, QueuedOK, Suspended, DispatchError, tables,
    outside, history, mutexQ, Resume, Without, Thrown
<1>2. ASSUME ~erred' PROVE ~failed' /\ HandoverOK' /\ DrainedOK'
  <2>0. ~erred /\ ~failed /\ HandoverOK /\ DrainedOK
    BY <1>2 DEF CleanIInv, DispatchError, history
  <2>1. ~failed'
    <3>0. /\ turn = "errors" /\ running = NoCo /\ wakeup_session = {}
          /\ UNCHANGED <<mutexQ, sleep_session, wakeup_session>>
      BY <2>0 DEF WaitersIInv, PlacesOK, DrainedOK, DispatchError, tables
    <3>1. error_queue # <<>> => 1 \in DOMAIN error_queue /\ Head(error_queue) = error_queue[1]
      BY DEF LuaIInv, SessionsOK
    <3> QED BY <2>0, <3>1 DEF DrainedOK, DispatchError
  <2>2. HandoverOK'
    <3>0. /\ turn = "errors" /\ running = NoCo /\ wakeup_session = {}
          /\ UNCHANGED <<mutexQ, sleep_session, wakeup_session>>
      BY <2>0 DEF WaitersIInv, PlacesOK, DrainedOK, DispatchError, tables
    <3>1. CASE running' = running /\ at' = at
      BY <2>0, <3>0, <3>1 DEF HandoverOK, Handed, mutexQ
    <3>2. ASSUME error_queue # <<>>, NEW s, s = Head(error_queue), s \in DOMAIN session_id_coroutine, Resume(session_id_coroutine[s])
          PROVE  HandoverOK'
      <4>1. 1 \in DOMAIN error_queue /\ s = error_queue[1]
        BY <3>2 DEF LuaIInv, SessionsOK
      <4>2. PICK c \in Cos : c = session_id_coroutine[s] /\ at[c] = "call"
        BY <3>2, <4>1 DEF WaitersIInv, CallersOK
      <4>3. at' = [at EXCEPT ![c] = "runs"] /\ running' = c
        BY <3>2, <4>2 DEF Resume
      <4>4. \A x \in Cos : at'[x] = "queued" <=> at[x] = "queued"
        BY <4>2, <4>3 DEF WaitersIInv, PlacesOK
      <4>5. current_thread # NoCo => ref # 0
        BY <2>0, <3>0, LuaAssumption DEF HandoverOK, Handed
      <4>6. \A i \in DOMAIN thread_queue : thread_queue[i] \in Cos
        BY DEF LuaIInv, QueueOK
      <4> QED BY <2>0, <3>0, <4>2, <4>3, <4>4, <4>5, <4>6 DEF HandoverOK, Handed, mutexQ
    <3>3. CASE Thrown /\ at' = at
      BY <2>0, <3>0, <3>3 DEF HandoverOK, Handed, mutexQ, Thrown
    <3> QED BY <3>1, <3>2, <3>3 DEF DispatchError, tables
  <2>3. DrainedOK'
    <3>0. /\ turn = "errors" /\ running = NoCo /\ wakeup_session = {}
          /\ UNCHANGED <<mutexQ, sleep_session, wakeup_session>>
      BY <2>0 DEF WaitersIInv, PlacesOK, DrainedOK, DispatchError, tables
    <3>1. CASE error_queue = <<>>
      BY <2>0, <3>0, <3>1 DEF DrainedOK, DispatchError, tables
    <3>2. CASE error_queue # <<>>
      <4> DEFINE s == Head(error_queue)
      <4>1. /\ error_queue' = Tail(error_queue) /\ 1 \in DOMAIN error_queue /\ s = error_queue[1]
            /\ \A i \in DOMAIN error_queue' : /\ i + 1 \in DOMAIN error_queue /\ i + 1 # 1 /\ i \in Nat
                                             /\ error_queue'[i] = error_queue[i + 1]
        BY <3>2 DEF LuaIInv, SessionsOK, DispatchError
      <4> HIDE DEF s
      <4>2. s \in DOMAIN session_id_coroutine
        BY <2>0, <4>1 DEF DrainedOK
      <4>3. /\ turn' = "run"
            /\ session_id_coroutine' = Without(session_id_coroutine, s)
            /\ watching_session' = Without(watching_session, s)
        BY <3>2, <4>2 DEF DispatchError, Resume, s
      <4>4. /\ \A i \in DOMAIN error_queue' : error_queue'[i] \in DOMAIN session_id_coroutine /\ error_queue'[i] # s
            /\ \A i, j \in DOMAIN error_queue' : error_queue'[i] = error_queue'[j] => i = j
        BY <2>0, <4>1 DEF DrainedOK
      <4> QED BY <2>0, <3>0, <4>3, <4>4 DEF DrainedOK, Without
    <3> QED BY <3>1, <3>2
  <2> QED BY <2>1, <2>2, <2>3
<1> QED BY <1>1, <1>2 DEF CleanIInv

LEMMA DispatchForkKeepsClean ==
  ASSUME LuaIInv, LuaIInv', WaitersIInv, WaitersIInv', CleanIInv, DispatchFork PROVE CleanIInv'
<1>1. QueuedOK'
  BY LuaAssumption DEF CleanIInv, LuaIInv, SessionsOK, ResumedOK, WaitersIInv,
    PlacesOK, SleepersOK, CallersOK, QueuedOK, Suspended, DispatchFork, tables,
    outside, history, mutexQ, Resume
<1>2. ASSUME ~erred' PROVE ~failed' /\ HandoverOK' /\ DrainedOK'
  <2>0. ~erred /\ ~failed /\ HandoverOK /\ DrainedOK
    BY <1>2 DEF CleanIInv, DispatchFork, history
  <2>1. ~failed'
    BY <2>0, LuaAssumption DEF LuaIInv, QueueOK, ResumedOK, HandoverOK, DrainedOK,
      Handed, DispatchFork, tables, outside, history, mutexQ, Resume
  <2>2. HandoverOK'
    BY <2>0, LuaAssumption DEF LuaIInv, QueueOK, QueueExclusive, ResumedOK,
      WaitersIInv, PlacesOK, HandoverOK, Handed, Suspended, DispatchFork, tables,
      outside, history, mutexQ, Resume
  <2>3. DrainedOK'
    BY <2>0, LuaAssumption DEF LuaIInv, SessionsOK, ResumedOK, WaitersIInv, PlacesOK,
      SleepersOK, CallersOK, DrainedOK, Suspended, WaitersKept, WaiterOnce,
      DispatchFork, tables, outside, history, mutexQ, Resume
  <2> QED BY <2>1, <2>2, <2>3
<1> QED BY <1>1, <1>2 DEF CleanIInv

LEMMA CoErrorKeepsClean ==
  ASSUME LuaIInv, WaitersIInv, CleanIInv, CoError PROVE CleanIInv'
<1>1. QueuedOK'
  BY DEF CleanIInv, LuaIInv, ResumedOK, WaitersIInv, PlacesOK, SleepersOK, QueuedOK,
    CoError, Runs, outside
<1> QED BY <1>1 DEF CleanIInv, CoError

LEMMA CleanStep ==
  ASSUME LuaIInv, LuaIInv', WaitersIInv, WaitersIInv', CleanIInv, [LuaNext]_luaVars PROVE CleanIInv'
<1>1. CASE Delivery
  BY <1>1, RequestKeepsClean, ResponseKeepsClean, ErrorForSessionKeepsClean,
      ServiceDownKeepsClean
  DEF Delivery
<1>2. CASE Coroutine
  BY <1>2, CallKeepsClean, SleepKeepsClean, TimeoutFuncKeepsClean, ForkKeepsClean,
      WakeupCoKeepsClean, EnterQueueKeepsClean, WaitInQueueKeepsClean,
      BackInQueueKeepsClean, LeaveQueueKeepsClean, CoErrorKeepsClean,
      CoExitKeepsClean
  DEF Coroutine
<1>3. CASE DispatchWakeup \/ DispatchError \/ DispatchFork
  BY <1>3, DispatchWakeupKeepsClean, DispatchErrorKeepsClean, DispatchForkKeepsClean
<1>4. CASE UNCHANGED luaVars
  BY <1>4 DEF CleanIInv, QueuedOK, HandoverOK, Handed, DrainedOK, luaVars, tables,
    outside, mutexQ, history
<1> QED BY <1>1, <1>2, <1>3, <1>4 DEF LuaNext, LuaIdle

LEMMA InitFacts == LuaInit => WaitersIInv /\ CleanIInv
<1> SUFFICES ASSUME LuaInit PROVE WaitersIInv /\ CleanIInv
  OBVIOUS
<1>1. WaitersKept
  BY DEF LuaInit, WaitersKept, WaiterFound, WaiterOnce, Suspended
<1>2. PlacesOK /\ SleepersOK /\ CallersOK
  BY DEF LuaInit, PlacesOK, SleepersOK, CallersOK
<1>3. QueuedOK /\ HandoverOK /\ DrainedOK /\ ~failed
  BY DEF LuaInit, QueuedOK, HandoverOK, DrainedOK
<1> QED BY <1>1, <1>2, <1>3 DEF WaitersIInv, CleanIInv

\* The three layers together are inductive.
LEMMA AllOfIt == LuaSpec => [](LuaIInv /\ WaitersIInv /\ CleanIInv)
<1>1. LuaIInv /\ WaitersIInv /\ CleanIInv /\ [LuaNext]_luaVars
        => LuaIInv' /\ WaitersIInv' /\ CleanIInv'
  BY LuaStep, WaitersStep, CleanStep
<1> QED BY <1>1, LuaInitFacts, InitFacts, PTL DEF LuaSpec

\* No coroutine that waits is forgotten: it is found under the session of what it
\* waits for, and only under that one, whatever was answered, failed or timed out.
THEOREM NobodyForgotten == LuaSpec => []WaitersKept
<1>1. WaitersIInv => WaitersKept
  BY DEF WaitersIInv
<1> QED BY <1>1, AllOfIt, PTL

\* Without an uncaught error nobody who was woken, or whose call failed, is left
\* behind, nobody waits for a free queue, and the assertion of skynet.queue holds.
THEOREM NobodyStranded == LuaSpec => []StrandedOnlyByErrors
<1>1. LuaIInv /\ WaitersIInv /\ CleanIInv => StrandedOnlyByErrors
  <2> SUFFICES ASSUME LuaIInv, WaitersIInv, CleanIInv, ~erred
               PROVE  ~failed /\ (turn = "idle" =>
                        /\ wakeup_session = {} /\ error_queue = <<>>
                        /\ ref = 0 => \A c \in Cos : at[c] # "queued")
    BY DEF StrandedOnlyByErrors
  <2>1. ~failed /\ HandoverOK /\ DrainedOK
    BY DEF CleanIInv
  <2>2. ASSUME turn = "idle", ref = 0 PROVE \A c \in Cos : at[c] # "queued"
    <3>1. wakeup_session = {} /\ running = NoCo
      BY <2>1, <2>2 DEF DrainedOK, WaitersIInv, PlacesOK
    <3>2. current_thread = NoCo /\ thread_queue = <<>>
      BY <2>1, <2>2, <3>1 DEF HandoverOK, Handed
    <3>3. DOMAIN thread_queue = {} /\ \A c \in Cos : c # current_thread
      BY <3>2, LuaAssumption
    <3> QED BY <2>1, <3>3 DEF HandoverOK
  <2> QED BY <2>1, <2>2 DEF DrainedOK
<1> QED BY <1>1, AllOfIt, PTL

=============================================================================
