-------------------------- MODULE SkynetStart_proofs --------------------------
(* Proofs about module SkynetStart: types, the count of the sleeping workers *)
(* and the mutex, and that no thread ends while a service is left.           *)
EXTENDS SkynetStart, FiniteSetTheorems, TLAPS

\* The workers that hold the mutex.
Holding == {w \in Crew : point[w] \in {"check", "unlock"}}

\* The mutex is held by the worker that is inside, and by nobody else.
MutexExact == \A w \in Crew : mutex = w <=> w \in Holding

\* Once quit is set nobody waits on the condition variable, nor will: the
\* broadcast of thread_timer is not lost.
QuitIsHeard == quit => \A w \in Crew : point[w] # "waiting"

\* The types, with m->sleep a number only: that it is at most Count follows
\* from SleepExact.
Types ==
  /\ ready \in 0..MaxReady /\ alive \in 0..MaxTotal
  /\ mutex \in Crew \cup {Unlocked}
  /\ sleep \in Int
  /\ quit \in BOOLEAN /\ exit \in BOOLEAN
  /\ point \in [Crew -> {"loop", "dispatch", "lock", "check", "waiting", "wake",
                         "unlock", "exited"}]
  /\ hand \in [Crew -> {0, 1}]
  /\ timer \in {"update", "test", "wakeup", "signal", "exitsocket", "quit",
                "exited"}
  /\ socket \in {"poll", "wakeup", "signal", "exited"}
  /\ monitor \in {"check", "exited"}
  /\ main \in {"join", "done"}

\* The timer thread leaves its loop only when the last context is gone; exit and
\* quit are set by it after that, and the other threads end only when they have
\* seen one of them or the number of contexts.
EndedFor ==
  /\ timer \in {"exitsocket", "quit", "exited"} => alive = 0
  /\ exit => timer \in {"quit", "exited"}
  /\ quit => timer = "exited"
  /\ \A w \in Crew : point[w] = "exited" => quit
  /\ socket = "exited" => alive = 0
  /\ monitor = "exited" => alive = 0

StartInv == Types /\ SleepExact /\ MutexExact /\ QuitIsHeard /\ EndedFor

-----------------------------------------------------------------------------
\* The initial states satisfy the invariant.
LEMMA StartInit == ThreadsInit => StartInv
<1> SUFFICES ASSUME ThreadsInit PROVE StartInv
  OBVIOUS
<1>1. Types
  <2>1. ready \in 0..MaxReady /\ alive \in 0..MaxTotal
    BY StartAssumption DEF ThreadsInit
  <2>2. /\ point \in [Crew -> {"loop", "dispatch", "lock", "check", "waiting",
                            "wake", "unlock", "exited"}]
        /\ hand \in [Crew -> {0, 1}]
    BY DEF ThreadsInit
  <2>3. mutex \in Crew \cup {Unlocked} /\ sleep \in Int
    BY DEF ThreadsInit
  <2>4. /\ timer = "update" /\ socket = "poll" /\ monitor = "check"
        /\ main = "join"
    BY DEF ThreadsInit
  <2>5. quit \in BOOLEAN /\ exit \in BOOLEAN
    BY Zenon DEF ThreadsInit
  <2> QED
    BY <2>1, <2>2, <2>3, <2>4, <2>5 DEF Types
<1>2. MutexExact
  BY StartAssumption DEF ThreadsInit, MutexExact, Holding
<1>3. QuitIsHeard /\ EndedFor
  BY DEF ThreadsInit, QuitIsHeard, EndedFor
<1>4. Asleep = {}
  BY DEF ThreadsInit, Asleep
<1>5. SleepExact
  BY <1>4, FS_EmptySet DEF ThreadsInit, SleepExact
<1> QED
  BY <1>1, <1>2, <1>3, <1>5 DEF StartInv

-----------------------------------------------------------------------------
(* Types.                                                                  *)

\* A callback, given a number of mailboxes that is in bounds, leaves both
\* numbers in bounds, and leaves no context where there was none.
LEMMA CallbackTypes ==
  ASSUME NEW r \in 0..MaxReady, alive \in 0..MaxTotal, RunCallback(r)
  PROVE  /\ ready' \in 0..MaxReady /\ alive' \in 0..MaxTotal
         /\ alive = 0 => alive' = 0
<1>1. PICK more \in 0..(MaxReady - r) :
        /\ alive' \in IF alive = 0 THEN {0} ELSE 0..MaxTotal
        /\ ready' = IF alive = 0 THEN r ELSE r + more
  BY DEF RunCallback
<1> QED
  BY <1>1, StartAssumption

\* So does a message that is sent, and a step that sends none.
LEMMA PushTypes ==
  ASSUME ready \in 0..MaxReady, alive \in 0..MaxTotal, Push \/ UNCHANGED world
  PROVE  /\ ready' \in 0..MaxReady /\ alive' = alive
  BY StartAssumption DEF Push, world

\* A signal wakes up one waiting worker or nobody.
LEMMA SignalWakes ==
  ASSUME Signal
  PROVE  \/ point' = point
         \/ \E w \in Crew : point[w] = "waiting" /\ point' = [point EXCEPT ![w] = "wake"]
  BY DEF Signal

\* A turn of a worker: the numbers stay in bounds, and the worker has a mailbox
\* in hand or has none.
LEMMA DispatchTypes ==
  ASSUME Types, NEW w \in Crew, Dispatch(w)
  PROVE  /\ Types'
         /\ alive = 0 => alive' = 0
         /\ point' = [point EXCEPT ![w] = "lock"] \/ point' = [point EXCEPT ![w] = "loop"]
<1>0. point[w] = "dispatch" /\ UNCHANGED <<mon, timer, socket, monitor, main>>
  BY DEF Dispatch
<1>1. CASE /\ hand[w] + ready = 0
           /\ point' = [point EXCEPT ![w] = "lock"]
           /\ UNCHANGED <<world, hand>>
  BY <1>0, <1>1 DEF Types, mon, world
<1>2. CASE /\ hand[w] + ready > 0
           /\ RunCallback(ready + hand[w] - 1)
           /\ \E next \in {0, 1} : hand' = [hand EXCEPT ![w] = next]
           /\ point' = [point EXCEPT ![w] = IF hand'[w] = 1 THEN "loop" ELSE "lock"]
  <2>1. ready + hand[w] - 1 \in 0..MaxReady
    BY <1>2, StartAssumption DEF Types
  <2>2. /\ ready' \in 0..MaxReady /\ alive' \in 0..MaxTotal
        /\ alive = 0 => alive' = 0
    BY <1>2, <2>1, CallbackTypes DEF Types
  <2>3. hand' \in [Crew -> {0, 1}]
    BY <1>2 DEF Types
  <2>4. point' = [point EXCEPT ![w] = "lock"] \/ point' = [point EXCEPT ![w] = "loop"]
    BY <1>2
  <2> QED
    BY <1>0, <2>2, <2>3, <2>4 DEF Types, mon
<1> QED
  BY <1>1, <1>2 DEF Dispatch

\* A step of a worker.
LEMMA WorkerTypes ==
  ASSUME Types, NEW w \in Crew, Worker(w) \/ Spurious(w)
  PROVE  Types'
<1>1. CASE LoopTest(w)
  BY <1>1 DEF Types, LoopTest, world, mon
<1>2. CASE Dispatch(w)
  BY <1>2, DispatchTypes
<1>3. CASE Lock(w)
  BY <1>3 DEF Types, Lock, world
<1>4. CASE Check(w)
  BY <1>4 DEF Types, Check, world
<1>5. CASE Wake(w)
  BY <1>5 DEF Types, Wake, world
<1>6. CASE Unlock(w)
  BY <1>6 DEF Types, Unlock, world
<1>7. CASE Spurious(w)
  BY <1>7 DEF Types, Spurious, world, mon
<1> QED
  BY <1>1, <1>2, <1>3, <1>4, <1>5, <1>6, <1>7 DEF Worker

\* A step of the timer thread.
LEMMA TimerTypes ==
  ASSUME Types, TimerThread
  PROVE  Types'
<1>1. CASE UpdateTime
  <2>1. ready' \in 0..MaxReady /\ alive' = alive
    BY <1>1, PushTypes DEF UpdateTime, Types
  <2> QED
    BY <1>1, <2>1 DEF Types, UpdateTime, mon
<1>2. CASE TimerTest
  BY <1>2 DEF Types, TimerTest, world, mon
<1>3. CASE TimerWakeup
  BY <1>3 DEF Types, TimerWakeup, world, mon
<1>4. CASE TimerSignal
  BY <1>4, SignalWakes DEF Types, TimerSignal, world, mon
<1>5. CASE ExitSocket
  BY <1>5 DEF Types, ExitSocket, world
<1>6. CASE Quit
  BY <1>6 DEF Types, Quit, world
<1> QED
  BY <1>1, <1>2, <1>3, <1>4, <1>5, <1>6 DEF TimerThread

\* The steps of the socket thread.
SocketThread == \/ SocketExit \/ SocketMore \/ SocketEvent \/ SocketWakeup
                \/ SocketSignal

LEMMA SocketTypes ==
  ASSUME Types, SocketThread
  PROVE  Types'
<1>1. CASE SocketExit
  BY <1>1 DEF Types, SocketExit, world, mon
<1>2. CASE SocketMore
  <2>1. ready' \in 0..MaxReady /\ alive' = alive
    BY <1>2, PushTypes DEF SocketMore, Types
  <2> QED
    BY <1>2, <2>1 DEF Types, SocketMore, mon
<1>3. CASE SocketEvent
  <2>1. ready' \in 0..MaxReady /\ alive' = alive
    BY <1>3, PushTypes DEF SocketEvent, Types
  <2> QED
    BY <1>3, <2>1 DEF Types, SocketEvent, mon
<1>4. CASE SocketWakeup
  BY <1>4 DEF Types, SocketWakeup, world, mon
<1>5. CASE SocketSignal
  BY <1>5, SignalWakes DEF Types, SocketSignal, world, mon
<1> QED
  BY <1>1, <1>2, <1>3, <1>4, <1>5 DEF SocketThread

\* The monitor thread and skynet_start itself.
Rest == MonitorTest \/ Join \/ Done

LEMMA RestTypes ==
  ASSUME Types, Rest
  PROVE  Types'
  BY DEF Types, Rest, MonitorTest, Join, Done, threadVars, world, mon

-----------------------------------------------------------------------------
(* What m->sleep counts, and who holds the mutex.                          *)

\* The set of sleeping workers grows and shrinks by one as m->sleep does.
LEMMA SleepCounts ==
  /\ IsFiniteSet(Asleep)
  /\ \A w \in Crew : \A S : w \notin Asleep /\ S = Asleep \cup {w} =>
       Cardinality(S) = Cardinality(Asleep) + 1
  /\ \A w \in Crew : \A S : w \in Asleep /\ S = Asleep \ {w} =>
       Cardinality(S) = Cardinality(Asleep) - 1
<1>1. IsFiniteSet(Asleep)
  BY StartAssumption, FS_Subset DEF Asleep
<1> QED
  BY <1>1, FS_AddElement, FS_RemoveElement

\* A step that leaves everybody asleep or awake, and m->sleep alone.
LEMMA SameSleepers ==
  ASSUME SleepExact, sleep' = sleep, Asleep' = Asleep
  PROVE  SleepExact'
  BY DEF SleepExact

\* A step of a worker.
LEMMA WorkerSleep ==
  ASSUME Types, SleepExact, MutexExact, NEW w \in Crew, Worker(w) \/ Spurious(w)
  PROVE  SleepExact' /\ MutexExact'
<1>1. CASE LoopTest(w)
  <2>1. Asleep' = Asleep /\ sleep' = sleep
    BY <1>1 DEF Types, LoopTest, mon, Asleep
  <2>2. MutexExact'
    BY <1>1 DEF Types, MutexExact, Holding, LoopTest, mon
  <2> QED
    BY <2>1, <2>2, SameSleepers
<1>2. CASE Dispatch(w)
  <2>0. /\ point[w] = "dispatch" /\ UNCHANGED <<mutex, sleep>>
        /\ point' = [point EXCEPT ![w] = "lock"] \/ point' = [point EXCEPT ![w] = "loop"]
    BY <1>2, DispatchTypes DEF Dispatch, mon
  <2>1. Asleep' = Asleep
    BY <2>0 DEF Types, Asleep
  <2>2. MutexExact'
    BY <2>0 DEF Types, MutexExact, Holding
  <2> QED
    BY <2>0, <2>1, <2>2, SameSleepers
<1>3. CASE Lock(w)
  <2>1. w \notin Asleep /\ Asleep' = Asleep \cup {w} /\ sleep' = sleep + 1
    BY <1>3 DEF Types, Lock, Asleep
  <2>2. SleepExact'
    BY <2>1, SleepCounts DEF SleepExact
  <2>3. MutexExact'
    BY <1>3, StartAssumption DEF Types, MutexExact, Holding, Lock
  <2> QED
    BY <2>2, <2>3
<1>4. CASE Check(w)
  <2>1. Asleep' = Asleep /\ sleep' = sleep
    BY <1>4 DEF Types, Check, Asleep
  <2>2. MutexExact'
    BY <1>4, StartAssumption DEF Types, MutexExact, Holding, Check
  <2> QED
    BY <2>1, <2>2, SameSleepers
<1>5. CASE Wake(w)
  <2>1. Asleep' = Asleep /\ sleep' = sleep
    BY <1>5 DEF Types, Wake, Asleep
  <2>2. MutexExact'
    BY <1>5, StartAssumption DEF Types, MutexExact, Holding, Wake
  <2> QED
    BY <2>1, <2>2, SameSleepers
<1>6. CASE Unlock(w)
  <2>1. w \in Asleep /\ Asleep' = Asleep \ {w} /\ sleep' = sleep - 1
    BY <1>6 DEF Types, Unlock, Asleep
  <2>2. SleepExact'
    BY <2>1, SleepCounts DEF SleepExact
  <2>3. MutexExact'
    BY <1>6, StartAssumption DEF Types, MutexExact, Holding, Unlock
  <2> QED
    BY <2>2, <2>3
<1>7. CASE Spurious(w)
  <2>1. Asleep' = Asleep /\ sleep' = sleep
    BY <1>7 DEF Types, Spurious, mon, Asleep
  <2>2. MutexExact'
    BY <1>7 DEF Types, MutexExact, Holding, Spurious, mon
  <2> QED
    BY <2>1, <2>2, SameSleepers
<1> QED
  BY <1>1, <1>2, <1>3, <1>4, <1>5, <1>6, <1>7 DEF Worker

\* Waking waiting workers up takes nobody out of those that sleep or hold.
LEMMA WakingSleep ==
  ASSUME Types, SleepExact, MutexExact, UNCHANGED <<sleep, mutex>>,
         \/ point' = point
         \/ \E w \in Crew : point[w] = "waiting" /\ point' = [point EXCEPT ![w] = "wake"]
         \/ point' = [w \in Crew |-> IF point[w] = "waiting" THEN "wake" ELSE point[w]]
  PROVE  SleepExact' /\ MutexExact'
<1>1. Asleep' = Asleep /\ Holding' = Holding
  BY DEF Types, Asleep, Holding
<1> QED
  BY <1>1, SameSleepers DEF MutexExact

\* What the other threads do to the workers is to wake them up.
LEMMA OthersSleep ==
  ASSUME Types, SleepExact, MutexExact, TimerThread \/ SocketThread \/ Rest
  PROVE  SleepExact' /\ MutexExact'
<1>1. /\ UNCHANGED <<sleep, mutex>>
      /\ \/ point' = point \/ Signal
         \/ point' = [w \in Crew |-> IF point[w] = "waiting" THEN "wake" ELSE point[w]]
  BY DEF TimerThread, UpdateTime, TimerTest, TimerWakeup, TimerSignal, ExitSocket,
         Quit, SocketThread, SocketExit, SocketMore, SocketEvent, SocketWakeup,
         SocketSignal, Rest, MonitorTest, Join, Done, threadVars, mon
<1> QED
  BY <1>1, SignalWakes, WakingSleep

-----------------------------------------------------------------------------
(* Who may have ended.                                                     *)

\* A step of a worker: a turn launches nobody where nobody is left.
LEMMA WorkerEnded ==
  ASSUME Types, EndedFor, QuitIsHeard, NEW w \in Crew, Worker(w) \/ Spurious(w)
  PROVE  EndedFor' /\ QuitIsHeard'
<1>1. CASE Dispatch(w)
  <2>1. /\ UNCHANGED <<exit, quit, timer, socket, monitor>>
        /\ alive = 0 => alive' = 0
        /\ point' = [point EXCEPT ![w] = "lock"] \/ point' = [point EXCEPT ![w] = "loop"]
    BY <1>1, DispatchTypes DEF Dispatch, mon
  <2> QED
    BY <2>1 DEF Types, EndedFor, QuitIsHeard
<1>2. CASE ~Dispatch(w)
  BY <1>2 DEF Worker, Types, EndedFor, QuitIsHeard, LoopTest, Lock, Check, Wake,
              Unlock, Spurious, world, mon
<1> QED
  BY <1>1, <1>2

\* A step of the timer thread.
LEMMA TimerEnded ==
  ASSUME Types, EndedFor, QuitIsHeard, TimerThread
  PROVE  EndedFor' /\ QuitIsHeard'
<1>1. CASE UpdateTime
  <2>1. alive' = alive
    BY <1>1, PushTypes DEF UpdateTime, Types
  <2> QED
    BY <1>1, <2>1 DEF UpdateTime, Types, EndedFor, QuitIsHeard, mon
<1>2. CASE TimerTest \/ TimerWakeup \/ ExitSocket \/ Quit
  BY <1>2 DEF TimerTest, TimerWakeup, ExitSocket, Quit, Types, EndedFor,
              QuitIsHeard, world, mon
<1>3. CASE TimerSignal
  BY <1>3, SignalWakes DEF TimerSignal, Types, EndedFor, QuitIsHeard, world, mon
<1> QED
  BY <1>1, <1>2, <1>3 DEF TimerThread

\* A step of the socket thread.
LEMMA SocketEnded ==
  ASSUME Types, EndedFor, QuitIsHeard, SocketThread
  PROVE  EndedFor' /\ QuitIsHeard'
<1>1. CASE SocketMore \/ SocketEvent
  <2>1. alive' = alive
    BY <1>1, PushTypes DEF SocketMore, SocketEvent, Types
  <2> QED
    BY <1>1, <2>1 DEF SocketMore, SocketEvent, Types, EndedFor, QuitIsHeard, mon
<1>2. CASE SocketExit \/ SocketWakeup
  BY <1>2 DEF SocketExit, SocketWakeup, Types, EndedFor, QuitIsHeard, world, mon
<1>3. CASE SocketSignal
  BY <1>3, SignalWakes DEF SocketSignal, Types, EndedFor, QuitIsHeard, world, mon
<1> QED
  BY <1>1, <1>2, <1>3 DEF SocketThread

LEMMA RestEnded ==
  ASSUME Types, EndedFor, QuitIsHeard, Rest
  PROVE  EndedFor' /\ QuitIsHeard'
  BY DEF Rest, MonitorTest, Join, Done, threadVars, Types, EndedFor, QuitIsHeard, world, mon

-----------------------------------------------------------------------------
\* Every step preserves the invariant.
LEMMA StartStep == StartInv /\ [ThreadsNext]_threadVars => StartInv'
<1> SUFFICES ASSUME StartInv, [ThreadsNext]_threadVars PROVE StartInv'
  OBVIOUS
<1>1. CASE \E w \in Crew : Worker(w) \/ Spurious(w)
  BY <1>1, WorkerTypes, WorkerSleep, WorkerEnded DEF StartInv
<1>2. CASE TimerThread
  BY <1>2, TimerTypes, OthersSleep, TimerEnded DEF StartInv
<1>3. CASE SocketThread
  BY <1>3, SocketTypes, OthersSleep, SocketEnded DEF StartInv
<1>4. CASE Rest
  BY <1>4, RestTypes, OthersSleep, RestEnded DEF StartInv
<1>5. CASE UNCHANGED threadVars
  <2>2. Types' /\ EndedFor' /\ QuitIsHeard' /\ MutexExact'
    BY <1>5 DEF StartInv, threadVars, world, mon, Types, EndedFor, QuitIsHeard, MutexExact,
                Holding
  <2>3. Asleep' = Asleep /\ sleep' = sleep
    BY <1>5 DEF threadVars, world, mon, Asleep
  <2> QED
    BY <2>2, <2>3, SameSleepers DEF StartInv
<1> QED
  BY <1>1, <1>2, <1>3, <1>4, <1>5 DEF ThreadsNext, SocketThread, Rest

\* The invariant holds throughout.
LEMMA StartInvariant == ThreadsSpec => []StartInv
<1> QED
  BY StartInit, StartStep, PTL DEF ThreadsSpec

\* Every variable has its type; in particular m->sleep, changed in one place
\* before the wait and in another after it, stays between 0 and m->count.
THEOREM StartTypes == ThreadsSpec => []ThreadsTypeOK
<1>1. StartInv => ThreadsTypeOK
  <2> SUFFICES ASSUME StartInv PROVE ThreadsTypeOK
    OBVIOUS
  <2>1. Asleep \subseteq Crew
    BY DEF Asleep
  <2>2. Cardinality(Asleep) \in 0..Count
    BY <2>1, StartAssumption, FS_Subset, FS_CardinalityType DEF Count
  <2> QED
    BY <2>2 DEF StartInv, Types, SleepExact, ThreadsTypeOK
<1> QED
  BY <1>1, StartInvariant, PTL

\* A thread ends only when the last context is gone: neither CHECK_ABORT of the
\* timer, socket and monitor threads nor m->quit ends one before.
THEOREM NobodyEndsEarly == ThreadsSpec => []ServicesOutlived
<1>1. StartInv => ServicesOutlived
  BY DEF StartInv, EndedFor, ServicesOutlived
<1> QED
  BY <1>1, StartInvariant, PTL

\* m->sleep, which wakeup() reads without the mutex, is at any moment the number of
\* workers between ++m->sleep and --m->sleep.
THEOREM SleepCounted == ThreadsSpec => []SleepExact
<1>1. StartInv => SleepExact
  BY DEF StartInv
<1> QED
  BY <1>1, StartInvariant, PTL

\* The broadcast of thread_timer reaches every worker: when quit is set nobody
\* waits for a signal that will not come.
THEOREM NobodyWaitsAfterQuit == ThreadsSpec => []QuitIsHeard
<1>1. StartInv => QuitIsHeard
  BY DEF StartInv
<1> QED
  BY <1>1, StartInvariant, PTL
===============================================================================
