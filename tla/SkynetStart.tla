----------------------------- MODULE SkynetStart -----------------------------
(***************************************************************************)
(* The threads skynet_start creates, and how they stop: workers that sleep *)
(* on a condition variable when the global queue is empty; the socket and  *)
(* the timer thread, which push messages and wake workers up; the monitor  *)
(* thread.  All of them end once the last context is gone, and skynet_start*)
(* returns when it has joined them.                                        *)
(*                                                                         *)
(* The global queue is a number of mailboxes and the contexts are a number *)
(* here (module SkynetDispatch says which mailbox and which context, and   *)
(* that no context is left, nor launched, once their number is 0).  Reads  *)
(* of m->sleep and m->quit outside the mutex are steps of their own.       *)
(***************************************************************************)
EXTENDS Integers, FiniteSets

CONSTANTS
  Crew,       \* the worker threads
  MaxReady,   \* bound of the model: mailboxes in the global queue
  MaxTotal,   \* bound of the model: contexts
  Unlocked    \* nobody holds the mutex

ASSUME StartAssumption ==
  /\ IsFiniteSet(Crew) /\ Crew # {}
  /\ MaxReady \in Nat \ {0} /\ MaxTotal \in Nat \ {0}
  /\ Unlocked \notin Crew

VARIABLES
  ready,    \* mailboxes in the global queue
  alive,    \* skynet_context_total()
  mutex,    \* who holds m->mutex
  sleep,    \* m->sleep
  quit,     \* m->quit
  exit,     \* skynet_socket_exit has been called
  point,    \* per worker: control point
  hand,     \* per worker: 1 if it has a mailbox in hand
  timer,    \* control point of thread_timer
  socket,   \* control point of thread_socket
  monitor,  \* control point of thread_monitor
  main      \* control point of skynet_start

world      == <<ready, alive>>
mon        == <<mutex, sleep, quit, exit>>
threadVars == <<world, mon, point, hand, timer, socket, monitor, main>>

Count == Cardinality(Crew)

ThreadsInit ==
  /\ ready \in 1..MaxReady /\ alive \in 1..MaxTotal
  /\ mutex = Unlocked /\ sleep = 0 /\ quit = FALSE /\ exit = FALSE
  /\ point = [w \in Crew |-> "loop"]
  /\ hand = [w \in Crew |-> 0]
  /\ timer = "update" /\ socket = "poll" /\ monitor = "check" /\ main = "join"

-----------------------------------------------------------------------------
(* thread_worker                                                           *)

\* while (!m->quit)
LoopTest(w) ==
  /\ point[w] = "loop"
  /\ point' = [point EXCEPT ![w] = IF quit THEN "exited" ELSE "dispatch"]
  /\ UNCHANGED <<world, mon, hand, timer, socket, monitor, main>>

\* A callback makes mailboxes ready, and launches and kills services; nothing
\* runs any more once the last context is gone.
RunCallback(r) ==
  \E more \in 0..(MaxReady - r) :
    /\ alive' \in IF alive = 0 THEN {0} ELSE 0..MaxTotal
    /\ ready' = IF alive = 0 THEN r ELSE r + more

\* skynet_context_message_dispatch: a turn of the mailbox in hand or of the next
\* one, and then the mailbox to go on with, if any.
Dispatch(w) ==
  /\ point[w] = "dispatch"
  /\ \/ /\ hand[w] + ready = 0
        /\ point' = [point EXCEPT ![w] = "lock"]
        /\ UNCHANGED <<world, hand>>
     \/ /\ hand[w] + ready > 0
        /\ RunCallback(ready + hand[w] - 1)
        /\ \E next \in {0, 1} : hand' = [hand EXCEPT ![w] = next]
        /\ point' = [point EXCEPT ![w] = IF hand'[w] = 1 THEN "loop" ELSE "lock"]
  /\ UNCHANGED <<mon, timer, socket, monitor, main>>

\* pthread_mutex_lock and ++m->sleep.
Lock(w) ==
  /\ point[w] = "lock" /\ mutex = Unlocked
  /\ mutex' = w
  /\ sleep' = sleep + 1
  /\ point' = [point EXCEPT ![w] = "check"]
  /\ UNCHANGED <<world, quit, exit, hand, timer, socket, monitor, main>>

\* if (!m->quit) pthread_cond_wait, which gives the mutex up.
Check(w) ==
  /\ point[w] = "check"
  /\ IF quit
     THEN point' = [point EXCEPT ![w] = "unlock"] /\ UNCHANGED mutex
     ELSE point' = [point EXCEPT ![w] = "waiting"] /\ mutex' = Unlocked
  /\ UNCHANGED <<world, sleep, quit, exit, hand, timer, socket, monitor, main>>

\* A spurious wakeup of pthread_cond_wait.
Spurious(w) ==
  /\ point[w] = "waiting"
  /\ point' = [point EXCEPT ![w] = "wake"]
  /\ UNCHANGED <<world, mon, hand, timer, socket, monitor, main>>

\* pthread_cond_wait returns with the mutex.
Wake(w) ==
  /\ point[w] = "wake" /\ mutex = Unlocked
  /\ mutex' = w
  /\ point' = [point EXCEPT ![w] = "unlock"]
  /\ UNCHANGED <<world, sleep, quit, exit, hand, timer, socket, monitor, main>>

\* The definitions named Bug... are wrong variants of the action that follows;
\* no specification uses them.  Here a worker that leaves for quit is still
\* counted.
BugUnlock(w) ==
  /\ point[w] = "unlock"
  /\ sleep' = IF quit THEN sleep ELSE sleep - 1
  /\ mutex' = Unlocked
  /\ point' = [point EXCEPT ![w] = "loop"]
  /\ UNCHANGED <<world, quit, exit, hand, timer, socket, monitor, main>>

\* --m->sleep, and the mutex is given up.
Unlock(w) ==
  /\ point[w] = "unlock"
  /\ sleep' = sleep - 1
  /\ mutex' = Unlocked
  /\ point' = [point EXCEPT ![w] = "loop"]
  /\ UNCHANGED <<world, quit, exit, hand, timer, socket, monitor, main>>

Worker(w) == \/ LoopTest(w) \/ Dispatch(w) \/ Lock(w) \/ Check(w) \/ Wake(w)
             \/ Unlock(w)

-----------------------------------------------------------------------------
(* The other threads.                                                      *)

\* pthread_cond_signal: one of the waiting workers, if there is one.
Signal ==
  IF \E w \in Crew : point[w] = "waiting"
  THEN \E w \in Crew :
         point[w] = "waiting" /\ point' = [point EXCEPT ![w] = "wake"]
  ELSE UNCHANGED point

\* A message sent to a service that is there makes its mailbox ready.
Push ==
  /\ alive > 0 /\ ready < MaxReady
  /\ ready' = ready + 1
  /\ UNCHANGED alive

\* skynet_updatetime
UpdateTime ==
  /\ timer = "update"
  /\ Push \/ UNCHANGED world
  /\ timer' = "test"
  /\ UNCHANGED <<mon, point, hand, socket, monitor, main>>

\* CHECK_ABORT
TimerTest ==
  /\ timer = "test"
  /\ timer' = IF alive = 0 THEN "exitsocket" ELSE "wakeup"
  /\ UNCHANGED <<world, mon, point, hand, socket, monitor, main>>

\* It leaves waking to the socket thread.
BugTimerWakeup ==
  /\ timer = "wakeup"
  /\ timer' = "update"
  /\ UNCHANGED <<world, mon, point, hand, socket, monitor, main>>

\* wakeup(m, m->count - 1): if anybody sleeps, one worker is signalled.
TimerWakeup ==
  /\ timer = "wakeup"
  /\ timer' = IF sleep >= Count - (Count - 1) THEN "signal" ELSE "update"
  /\ UNCHANGED <<world, mon, point, hand, socket, monitor, main>>

TimerSignal ==
  /\ timer = "signal"
  /\ Signal
  /\ timer' = "update"
  /\ UNCHANGED <<world, mon, hand, socket, monitor, main>>

ExitSocket ==
  /\ timer = "exitsocket"
  /\ exit' = TRUE
  /\ timer' = "quit"
  /\ UNCHANGED <<world, mutex, sleep, quit, point, hand, socket, monitor, main>>

\* One worker is signalled, not all.
BugQuit ==
  /\ timer = "quit" /\ mutex = Unlocked
  /\ quit' = TRUE
  /\ Signal
  /\ timer' = "exited"
  /\ UNCHANGED <<world, mutex, sleep, exit, hand, socket, monitor, main>>

\* Under the mutex quit is set and everybody woken up.
Quit ==
  /\ timer = "quit" /\ mutex = Unlocked
  /\ quit' = TRUE
  /\ point' = [w \in Crew |-> IF point[w] = "waiting" THEN "wake" ELSE point[w]]
  /\ timer' = "exited"
  /\ UNCHANGED <<world, mutex, sleep, exit, hand, socket, monitor, main>>

TimerThread == \/ UpdateTime \/ TimerTest \/ TimerWakeup \/ TimerSignal
               \/ ExitSocket \/ Quit

\* skynet_socket_poll returns 0: the exit command has come through the pipe.
SocketExit ==
  /\ socket = "poll" /\ exit
  /\ socket' = "exited"
  /\ UNCHANGED <<world, mon, point, hand, timer, monitor, main>>

\* It returns < 0: more events will follow.  CHECK_ABORT.
SocketMore ==
  /\ socket = "poll"
  /\ Push \/ UNCHANGED world
  /\ socket' = IF alive = 0 THEN "exited" ELSE "poll"
  /\ UNCHANGED <<mon, point, hand, timer, monitor, main>>

\* It returns > 0: a message has been forwarded to a service.
SocketEvent ==
  /\ socket = "poll"
  /\ Push \/ UNCHANGED world
  /\ socket' = "wakeup"
  /\ UNCHANGED <<mon, point, hand, timer, monitor, main>>

\* wakeup(m, 0): if all workers sleep, one is signalled.
SocketWakeup ==
  /\ socket = "wakeup"
  /\ socket' = IF sleep >= Count THEN "signal" ELSE "poll"
  /\ UNCHANGED <<world, mon, point, hand, timer, monitor, main>>

SocketSignal ==
  /\ socket = "signal"
  /\ Signal
  /\ socket' = "poll"
  /\ UNCHANGED <<world, mon, hand, timer, monitor, main>>

\* CHECK_ABORT between two rounds of skynet_monitor_check.
MonitorTest ==
  /\ monitor = "check"
  /\ monitor' = IF alive = 0 THEN "exited" ELSE "check"
  /\ UNCHANGED <<world, mon, point, hand, timer, socket, main>>

\* pthread_join of every thread.
Join ==
  /\ main = "join"
  /\ \A w \in Crew : point[w] = "exited"
  /\ timer = "exited" /\ socket = "exited" /\ monitor = "exited"
  /\ main' = "done"
  /\ UNCHANGED <<world, mon, point, hand, timer, socket, monitor>>

Done == main = "done" /\ UNCHANGED threadVars

-----------------------------------------------------------------------------
ThreadsNext ==
  \/ \E w \in Crew : Worker(w) \/ Spurious(w)
  \/ TimerThread
  \/ SocketExit \/ SocketMore \/ SocketEvent \/ SocketWakeup \/ SocketSignal
  \/ MonitorTest \/ Join \/ Done

ThreadsSpec == ThreadsInit /\ [][ThreadsNext]_threadVars

\* Threads run; nobody relies on socket events or spurious wakeups.  A mutex
\* that is free again and again is got in the end (a worker that waits for it stays
\* in Lock or in Wake until then).
ThreadsFairSpec ==
  /\ ThreadsSpec
  /\ \A w \in Crew :
       /\ WF_threadVars(LoopTest(w) \/ Dispatch(w) \/ Check(w) \/ Unlock(w))
       /\ SF_threadVars(Lock(w) \/ Wake(w))
  /\ WF_threadVars(UpdateTime \/ TimerTest \/ TimerWakeup \/ TimerSignal \/ ExitSocket)
  /\ SF_threadVars(Quit)
  /\ SF_threadVars(SocketExit) /\ WF_threadVars(SocketWakeup \/ SocketSignal)
  /\ WF_threadVars(MonitorTest) /\ WF_threadVars(Join)

-----------------------------------------------------------------------------
(* What must hold.                                                         *)

ThreadsTypeOK ==
  /\ ready \in 0..MaxReady /\ alive \in 0..MaxTotal
  /\ mutex \in Crew \cup {Unlocked}
  /\ sleep \in 0..Count
  /\ quit \in BOOLEAN /\ exit \in BOOLEAN
  /\ point \in [Crew -> {"loop", "dispatch", "lock", "check", "waiting", "wake",
                         "unlock", "exited"}]
  /\ hand \in [Crew -> {0, 1}]
  /\ timer \in {"update", "test", "wakeup", "signal", "exitsocket", "quit",
                "exited"}
  /\ socket \in {"poll", "wakeup", "signal", "exited"}
  /\ monitor \in {"check", "exited"}
  /\ main \in {"join", "done"}

\* A thread ends only when the last context is gone.
ServicesOutlived ==
  \/ alive = 0
  \/ /\ \A w \in Crew : point[w] # "exited"
     /\ timer # "exited" /\ socket # "exited" /\ monitor # "exited"

\* The workers between ++m->sleep and --m->sleep.
Asleep == {w \in Crew : point[w] \in {"check", "waiting", "wake", "unlock"}}

\* m->sleep is the number of workers that sleep, through signals, spurious wakeups
\* and the broadcast: wakeup() compares it outside the mutex to decide whether
\* anybody has to be signalled.
SleepExact == sleep = Cardinality(Asleep)

\* Work never waits for ever with every worker asleep, though a signal sent just
\* before a worker waits is lost.
Woken ==
  (ready > 0 /\ \A w \in Crew : point[w] = "waiting")
    ~> (\E w \in Crew : point[w] # "waiting")

\* When the last context is gone skynet_start returns.
Returns == alive = 0 ~> main = "done"

=============================================================================
