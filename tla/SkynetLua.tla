------------------------------ MODULE SkynetLua ------------------------------
(***************************************************************************)
(* One Lua service: the coroutines that skynet.lua runs on its messages,   *)
(* and one critical section of skynet.queue that they share.               *)
(*                                                                         *)
(* The service is one thread.  A message resumes a coroutine, which runs   *)
(* until it yields; suspend then resumes those that were woken and those   *)
(* whose calls failed, one after the other, and dispatch_message those     *)
(* that were forked.  An error that a coroutine does not catch leaves      *)
(* suspend at once, from any depth of it.                                  *)
(*                                                                         *)
(* What coroutines do between two yields is any sequence of the functions  *)
(* below.  Left out: the answers to requests (skynet.ret, skynet.response, *)
(* the tables of who watches whom for them) and skynet.exit.               *)
(***************************************************************************)
EXTENDS Integers, Sequences

CONSTANTS
  Cos,         \* coroutines, used again after they have ended well
  Services,    \* services that are called
  MaxSession,  \* bound of the model: the sessions there are
  MaxDepth,    \* bound of the model: how deep the queue is entered
  NoCo

ASSUME LuaAssumption ==
  /\ NoCo \notin Cos /\ "BREAK" \notin Cos
  /\ MaxSession \in Nat

VARIABLES
  session_id_coroutine,  \* who waits for each session; "BREAK" for one who was woken
  sleep_session,         \* the session each sleeping coroutine waits for
  wakeup_session,        \* coroutines to be woken
  watching_session,      \* the service each call in progress has gone to
  error_queue,           \* sessions whose calls have failed
  fork_queue,            \* coroutines that were forked
  current_thread, ref, thread_queue,   \* the closure of skynet.queue
  at,         \* per coroutine: where it is
  depth,      \* per coroutine: how many times it is inside the queue
  running,    \* the coroutine that runs
  turn,      \* what the service does: nothing, run a coroutine, dispatch
  session,    \* the last session given out
  answers,    \* sessions of calls that may still be answered
  timers,     \* sessions of timers that will fire
  down,       \* services that are down
  erred,      \* history: a coroutine has ended with an error
  failed      \* history: an assertion of skynet.queue or a resume has failed

tables  == <<session_id_coroutine, sleep_session, wakeup_session, watching_session>>
mutexQ  == <<current_thread, ref, thread_queue, depth>>
outside == <<session, answers, timers, down>>
history == <<erred, failed>>
luaVars == <<tables, error_queue, fork_queue, mutexQ, at, running, turn, outside, history>>

Sessions == 1..MaxSession

\* Tables of Lua: t[k] = v and t[k] = nil.
With(t, k, v) == [j \in DOMAIN t \cup {k} |-> IF j = k THEN v ELSE t[j]]
Without(t, k) == [j \in DOMAIN t \ {k} |-> t[j]]

LuaInit ==
  /\ session_id_coroutine = <<>> /\ sleep_session = <<>>
  /\ wakeup_session = {} /\ watching_session = <<>>
  /\ error_queue = <<>> /\ fork_queue = {}
  /\ current_thread = NoCo /\ ref = 0 /\ thread_queue = <<>>
  /\ at = [c \in Cos |-> "pool"] /\ depth = [c \in Cos |-> 0]
  /\ running = NoCo /\ turn = "idle"
  /\ session = 0 /\ answers = {} /\ timers = {} /\ down = {}
  /\ erred = FALSE /\ failed = FALSE

-----------------------------------------------------------------------------
(* Resuming and yielding.                                                  *)

\* coroutine.resume(c).  Back from "CALL" it forgets the service, back from
\* "SLEEP" its session; back from skynet.wait of the queue it has not entered yet.
Resume(c) ==
  /\ running' = c /\ turn' = "run"
  /\ at' = [at EXCEPT ![c] = IF @ = "queued" THEN @ ELSE "runs"]

\* The coroutine that runs yields and waits at p for session s of its own.
Yield(p, s) ==
  /\ at' = [at EXCEPT ![running] = p]
  /\ session' = s
  /\ session_id_coroutine' = With(session_id_coroutine, s, running)
  /\ running' = NoCo /\ turn' = "wakeup"

\* An error leaves suspend.
Thrown == running' = NoCo /\ turn' = "forks"

Runs == turn = "run" /\ at[running] = "runs"

Fresh == session < MaxSession

\* skynet.wakeup(c) changes wakeup_session to this.
Woken1(c) == IF c \in DOMAIN sleep_session THEN wakeup_session \cup {c} ELSE wakeup_session

-----------------------------------------------------------------------------
(* What a coroutine does.                                                  *)

\* skynet.call: send and yield_call.
Call(v) ==
  /\ Runs /\ Fresh /\ v \notin down
  /\ Yield("call", session + 1)
  /\ watching_session' = With(watching_session, session + 1, v)
  /\ answers' = answers \cup {session + 1}
  /\ UNCHANGED <<sleep_session, wakeup_session, error_queue, fork_queue, mutexQ,
                 timers, down, history>>

\* skynet.sleep, with a timer, and skynet.wait, without.
Sleep(timed) ==
  /\ Runs /\ Fresh
  /\ Yield("sleep", session + 1)
  /\ sleep_session' = With(sleep_session, running, session + 1)
  /\ timers' = IF timed THEN timers \cup {session + 1} ELSE timers
  /\ UNCHANGED <<wakeup_session, watching_session, error_queue, fork_queue, mutexQ,
                 answers, down, history>>

\* skynet.timeout: c runs when the timer fires.
TimeoutFunc(c) ==
  /\ Runs /\ Fresh /\ at[c] = "pool"
  /\ at' = [at EXCEPT ![c] = "timeout"]
  /\ session' = session + 1
  /\ session_id_coroutine' = With(session_id_coroutine, session', c)
  /\ timers' = timers \cup {session'}
  /\ UNCHANGED <<sleep_session, wakeup_session, watching_session, error_queue, fork_queue,
                 mutexQ, running, turn, answers, down, history>>

\* skynet.fork
Fork(c) ==
  /\ Runs /\ at[c] = "pool"
  /\ at' = [at EXCEPT ![c] = "forked"]
  /\ fork_queue' = fork_queue \cup {c}
  /\ UNCHANGED <<tables, error_queue, mutexQ, running, turn, outside, history>>

\* skynet.wakeup of a coroutine that sleeps of its own accord.
WakeupCo(c) ==
  /\ Runs /\ at[c] = "sleep"
  /\ wakeup_session' = Woken1(c)
  /\ UNCHANGED <<session_id_coroutine, sleep_session, watching_session, error_queue,
                 fork_queue, mutexQ, at, running, turn, outside, history>>

\* The definitions named Bug... are wrong variants of the definition that
\* follows; no specification uses them.

\* The function skynet.queue() returns, up to f.
EnterQueue ==
  /\ Runs /\ current_thread \in {NoCo, running} /\ depth[running] < MaxDepth
  /\ current_thread' = running /\ ref' = ref + 1
  /\ depth' = [depth EXCEPT ![running] = @ + 1]
  /\ UNCHANGED <<tables, error_queue, fork_queue, thread_queue, at, running, turn,
                 outside, history>>

WaitInQueue ==
  /\ Runs /\ Fresh /\ current_thread \notin {NoCo, running}
  /\ thread_queue' = Append(thread_queue, running)
  /\ Yield("queued", session + 1)
  /\ sleep_session' = With(sleep_session, running, session + 1)
  /\ UNCHANGED <<wakeup_session, watching_session, error_queue, fork_queue,
                 current_thread, ref, depth, answers, timers, down, history>>

\* Whoever is woken enters.
BugBackInQueue ==
  /\ turn = "run" /\ at[running] = "queued"
  /\ current_thread' = running /\ ref' = ref + 1
  /\ depth' = [depth EXCEPT ![running] = @ + 1]
  /\ at' = [at EXCEPT ![running] = "runs"]
  /\ UNCHANGED <<running, turn, tables, error_queue, fork_queue, thread_queue, outside, history>>

\* ... and after skynet.wait: assert(ref == 0).
BackInQueue ==
  /\ turn = "run" /\ at[running] = "queued"
  /\ IF ref = 0
     THEN /\ current_thread' = running /\ ref' = 1
          /\ depth' = [depth EXCEPT ![running] = 1]
          /\ at' = [at EXCEPT ![running] = "runs"]
          /\ UNCHANGED <<running, turn, failed>>
     ELSE /\ at' = [at EXCEPT ![running] = "dead"]
          /\ failed' = TRUE
          /\ Thrown
          /\ UNCHANGED <<current_thread, ref, depth>>
  /\ UNCHANGED <<tables, error_queue, fork_queue, thread_queue, outside, erred>>

\* The coroutine leaves n levels of the queue: the last one hands it over.
Leave(n) ==
  /\ ref' = ref - n
  /\ depth' = [depth EXCEPT ![running] = @ - n]
  /\ IF ref' # 0
     THEN UNCHANGED <<current_thread, thread_queue, wakeup_session>>
     ELSE IF thread_queue = <<>>
     THEN current_thread' = NoCo /\ UNCHANGED <<thread_queue, wakeup_session>>
     ELSE /\ current_thread' = Head(thread_queue)
          /\ thread_queue' = Tail(thread_queue)
          /\ wakeup_session' = Woken1(Head(thread_queue))

\* The function skynet.queue() returns, after f.
LeaveQueue ==
  /\ Runs /\ depth[running] > 0
  /\ Leave(1)
  /\ UNCHANGED <<session_id_coroutine, sleep_session, watching_session, error_queue,
                 fork_queue, at, running, turn, outside, history>>

\* An error nobody catches, through every level of the queue: suspend raises it.
CoError ==
  /\ Runs
  /\ IF depth[running] > 0 THEN Leave(depth[running])
     ELSE UNCHANGED <<mutexQ, wakeup_session>>
  /\ at' = [at EXCEPT ![running] = "dead"]
  /\ erred' = TRUE
  /\ Thrown
  /\ UNCHANGED <<session_id_coroutine, sleep_session, watching_session, error_queue,
                 fork_queue, outside, failed>>

\* "EXIT": the coroutine goes back to the pool.
CoExit ==
  /\ Runs /\ depth[running] = 0
  /\ at' = [at EXCEPT ![running] = "pool"]
  /\ running' = NoCo /\ turn' = "wakeup"
  /\ UNCHANGED <<tables, error_queue, fork_queue, mutexQ, outside, history>>

-----------------------------------------------------------------------------
(* The end of suspend, and of dispatch_message.                            *)

BugDispatchWakeup ==
  /\ turn = "wakeup"
  /\ turn' = "errors"
  /\ UNCHANGED <<tables, error_queue, fork_queue, mutexQ, at, running, outside, history>>

\* dispatch_wakeup.  The sleeper forgets its session when it is back; the timer
\* of a sleep will find "BREAK".
DispatchWakeup ==
  /\ turn = "wakeup"
  /\ \/ wakeup_session = {} /\ turn' = "errors"
        /\ UNCHANGED <<tables, at, running>>
     \/ \E c \in wakeup_session :
          /\ wakeup_session' = wakeup_session \ {c}
          /\ IF c \in DOMAIN sleep_session
             THEN LET s == sleep_session[c] IN
                  /\ session_id_coroutine' =
                       IF s \in timers THEN With(session_id_coroutine, s, "BREAK")
                                       ELSE Without(session_id_coroutine, s)
                  /\ sleep_session' = Without(sleep_session, c)
                  /\ Resume(c)
             ELSE turn' = "errors" /\ UNCHANGED <<session_id_coroutine, sleep_session, at, running>>
          /\ UNCHANGED watching_session
  /\ UNCHANGED <<error_queue, fork_queue, mutexQ, outside, history>>

\* dispatch_error_queue: the call fails in its coroutine; a session that nobody
\* waits for any more is an error of resume.
DispatchError ==
  /\ turn = "errors"
  /\ IF error_queue = <<>>
     THEN turn' = "forks" /\ UNCHANGED <<tables, error_queue, at, running, failed>>
     ELSE LET s == Head(error_queue) IN
          /\ error_queue' = Tail(error_queue)
          /\ IF s \in DOMAIN session_id_coroutine
             THEN /\ Resume(session_id_coroutine[s])
                  /\ session_id_coroutine' = Without(session_id_coroutine, s)
                  /\ watching_session' = Without(watching_session, s)
                  /\ UNCHANGED <<sleep_session, wakeup_session, failed>>
             ELSE Thrown /\ failed' = TRUE /\ UNCHANGED <<tables, at>>
  /\ UNCHANGED <<fork_queue, mutexQ, outside, erred>>

\* dispatch_message: the forked coroutines, whatever has failed before.
DispatchFork ==
  /\ turn = "forks"
  /\ \/ fork_queue = {} /\ turn' = "idle" /\ UNCHANGED <<fork_queue, at, running>>
     \/ \E c \in fork_queue : fork_queue' = fork_queue \ {c} /\ Resume(c)
  /\ UNCHANGED <<tables, error_queue, mutexQ, outside, history>>

-----------------------------------------------------------------------------
(* The messages: raw_dispatch_message.                                     *)

\* A request, in a coroutine of its own.
Request(c) ==
  /\ turn = "idle" /\ at[c] = "pool"
  /\ Resume(c)
  /\ UNCHANGED <<tables, error_queue, fork_queue, mutexQ, outside, history>>

\* PTYPE_RESPONSE: an answer, or a timer.
Response(s) ==
  /\ turn = "idle" /\ s \in answers \cup timers
  /\ answers' = answers \ {s} /\ timers' = timers \ {s}
  /\ IF s \in DOMAIN session_id_coroutine
     THEN /\ session_id_coroutine' = Without(session_id_coroutine, s)
          /\ LET co == session_id_coroutine[s] IN
             IF co = "BREAK"
             THEN turn' = "forks" /\ UNCHANGED <<sleep_session, at, running>>
             ELSE Resume(co) /\ sleep_session' = Without(sleep_session, co)
          /\ watching_session' = Without(watching_session, s)
     ELSE /\ turn' = "forks"    \* unknown_response
          /\ UNCHANGED <<session_id_coroutine, sleep_session, watching_session, at, running>>
  /\ UNCHANGED <<wakeup_session, error_queue, fork_queue, mutexQ, session, down, history>>

\* PTYPE_ERROR for one session, late ones included: _error_dispatch.
ErrorForSession(s) ==
  /\ turn = "idle" /\ s \in 1..session \ timers
  /\ answers' = answers \ {s}
  /\ error_queue' = IF s \in DOMAIN watching_session THEN Append(error_queue, s) ELSE error_queue
  /\ turn' = "wakeup"
  /\ UNCHANGED <<tables, fork_queue, mutexQ, at, running, session, timers, down, history>>

Watched(v) == {s \in DOMAIN watching_session : watching_session[s] = v}

\* Only the oldest call is reported.
BugServiceDown(v) ==
  /\ turn = "idle" /\ v \notin down
  /\ down' = down \cup {v}
  /\ answers' = answers \ Watched(v)
  /\ \E order \in [1..(IF Watched(v) = {} THEN 0 ELSE 1) -> Watched(v)] :
       error_queue' = error_queue \o order
  /\ turn' = "wakeup"
  /\ UNCHANGED <<tables, fork_queue, mutexQ, at, running, session, timers, history>>

\* The sessions of S in the orders pairs may give.
Orders(S) ==
  {f \in UNION {[1..k -> S] : k \in 0..MaxSession} :
     /\ S = {f[i] : i \in DOMAIN f}
     /\ \A i, j \in DOMAIN f : f[i] = f[j] => i = j}

\* PTYPE_ERROR for session 0: the service v is down.
ServiceDown(v) ==
  /\ turn = "idle" /\ v \notin down
  /\ down' = down \cup {v}
  /\ answers' = answers \ Watched(v)
  /\ \E order \in Orders(Watched(v)) : error_queue' = error_queue \o order
  /\ turn' = "wakeup"
  /\ UNCHANGED <<tables, fork_queue, mutexQ, at, running, session, timers, history>>

-----------------------------------------------------------------------------
Delivery == \/ \E c \in Cos : Request(c)
           \/ \E s \in Sessions : Response(s) \/ ErrorForSession(s)
           \/ \E v \in Services : ServiceDown(v)

Coroutine == \/ \E v \in Services : Call(v)
             \/ \E timed \in BOOLEAN : Sleep(timed)
             \/ \E c \in Cos : TimeoutFunc(c) \/ Fork(c) \/ WakeupCo(c)
             \/ EnterQueue \/ WaitInQueue \/ BackInQueue \/ LeaveQueue
             \/ CoError \/ CoExit

\* Without messages the service does nothing, for ever when nobody sends any.
LuaIdle == turn = "idle" /\ UNCHANGED luaVars

LuaNext == \/ Delivery \/ Coroutine
           \/ DispatchWakeup \/ DispatchError \/ DispatchFork
           \/ LuaIdle

LuaSpec == LuaInit /\ [][LuaNext]_luaVars

-----------------------------------------------------------------------------
(* What must hold.                                                         *)

\* skynet.queue is a critical section across the yields of its functions, whoever
\* is woken, fails or dies meanwhile: one coroutine is inside, as often as ref says.
QueueExclusive ==
  /\ \A c, d \in Cos : depth[c] > 0 /\ depth[d] > 0 => c = d
  /\ \A c \in Cos : depth[c] > 0 => ref = depth[c] /\ current_thread = c
  /\ (\A c \in Cos : depth[c] = 0) => ref = 0

Suspended(c) == at[c] \in {"call", "sleep", "queued", "timeout"} /\ running # c

\* c waits for session s, and what it waits for is to come.
WaitsFor(c, s) ==
  /\ session_id_coroutine[s] = c
  /\ at[c] = "call" => s \in answers \/ \E i \in DOMAIN error_queue : error_queue[i] = s
  /\ at[c] \in {"sleep", "queued"} => c \in DOMAIN sleep_session /\ sleep_session[c] = s
  /\ at[c] = "timeout" => s \in timers

\* Whoever waits is in the table.
WaiterFound ==
  \A c \in Cos : Suspended(c) => \E s \in DOMAIN session_id_coroutine : WaitsFor(c, s)

\* Whoever is in the table waits, under one session.
WaiterOnce ==
  \A s, r \in DOMAIN session_id_coroutine :
    /\ session_id_coroutine[s] = "BREAK" => s \in timers
    /\ session_id_coroutine[s] # "BREAK" => Suspended(session_id_coroutine[s])
    /\ session_id_coroutine[s] = session_id_coroutine[r] /\ s # r
         => session_id_coroutine[s] = "BREAK"

\* A coroutine that waits is found under one session, by what it waits for, and a
\* call in progress will be answered or has failed: none is forgotten, and none is
\* resumed for a session it has done with.
WaitersKept == WaiterFound /\ WaiterOnce

\* When the service has done with a message everyone who was woken, or whose call
\* failed, has run, and whoever waits in the queue waits for one inside: unless a
\* coroutine has ended with an error, now or before.  With errors skynet.queue's
\* own assertion fails too: a coroutine that was woken, and not resumed because of
\* an error, may be in the queue when the wakeup reaches it.
StrandedOnlyByErrors ==
  ~erred =>
    /\ ~failed
    /\ turn = "idle" =>
         /\ wakeup_session = {} /\ error_queue = <<>>
         /\ ref = 0 => \A c \in Cos : at[c] # "queued"

-----------------------------------------------------------------------------
(* The inductive invariant behind QueueExclusive.                          *)

QueueOK ==
  /\ depth \in [Cos -> Nat] /\ ref \in Nat
  /\ thread_queue \in Seq(Cos)
  /\ QueueExclusive

\* Sessions of timers and of calls are apart, so "BREAK" is never told of an error.
SessionsOK ==
  /\ session \in Nat /\ timers \subseteq 1..session
  /\ DOMAIN watching_session \subseteq (1..session) \ timers
  /\ error_queue \in Seq((1..session) \ timers)

\* Only coroutines are resumed.
ResumedOK ==
  /\ turn = "run" => running \in Cos
  /\ wakeup_session \subseteq Cos /\ fork_queue \subseteq Cos
  /\ \A s \in DOMAIN session_id_coroutine :
       \/ session_id_coroutine[s] \in Cos
       \/ session_id_coroutine[s] = "BREAK" /\ s \in timers

LuaIInv == QueueOK /\ SessionsOK /\ ResumedOK

(* What WaitersKept needs besides.                                         *)

\* Where a coroutine is agrees with the tables.
PlacesOK ==
  /\ at \in [Cos -> {"pool", "runs", "forked", "timeout", "call", "sleep", "queued", "dead"}]
  /\ turn = "run" => at[running] \in {"runs", "queued"}
  /\ turn # "run" => running = NoCo
  /\ \A c \in fork_queue : at[c] = "forked"

\* A sleeper knows the session it is found under.
SleepersOK ==
  \A c \in DOMAIN sleep_session :
    /\ c \in Cos /\ Suspended(c) /\ at[c] \in {"sleep", "queued"}
    /\ sleep_session[c] \in DOMAIN session_id_coroutine
    /\ session_id_coroutine[sleep_session[c]] = c

\* The calls watched, and those reported, are the ones waited for.
CallersOK ==
  /\ DOMAIN session_id_coroutine \subseteq 1..session
  /\ \A s \in DOMAIN session_id_coroutine :
       s \in DOMAIN watching_session
         <=> session_id_coroutine[s] \in Cos /\ at[session_id_coroutine[s]] = "call"
  /\ \A i \in DOMAIN error_queue : LET s == error_queue[i] IN
       s \in DOMAIN session_id_coroutine =>
         session_id_coroutine[s] \in Cos /\ at[session_id_coroutine[s]] = "call"

WaitersIInv == WaitersKept /\ PlacesOK /\ SleepersOK /\ CallersOK

(* What StrandedOnlyByErrors needs besides.                                *)

Handed(c) == c \in wakeup_session \/ running = c

\* The section is free, or somebody is inside, or it is handed to a coroutine that
\* has been woken and will be the next to enter.
HandoverOK ==
  /\ current_thread \in Cos \cup {NoCo}
  /\ current_thread = NoCo => thread_queue = <<>>
  /\ current_thread # NoCo => (ref = 0 <=> at[current_thread] = "queued")
  /\ current_thread # NoCo /\ ref = 0 => Handed(current_thread)
  /\ \A c \in Cos : at[c] = "queued" /\ Handed(c) => c = current_thread
  /\ \A c \in Cos : at[c] = "queued" =>
       c = current_thread \/ \E i \in DOMAIN thread_queue : thread_queue[i] = c
  /\ \A i \in DOMAIN thread_queue :
       at[thread_queue[i]] = "queued" /\ thread_queue[i] # current_thread
  /\ \A i, j \in DOMAIN thread_queue : thread_queue[i] = thread_queue[j] => i = j

\* Nobody but who leaves the section wakes those who wait for it.
QueuedOK ==
  /\ answers \subseteq 1..session
  /\ \A c \in DOMAIN sleep_session :
       at[c] = "queued" => sleep_session[c] \notin answers \cup timers

\* What was woken or has failed is dealt with, in the turn.
DrainedOK ==
  /\ wakeup_session \subseteq DOMAIN sleep_session
  /\ turn \in {"errors", "forks", "idle"} => wakeup_session = {}
  /\ turn \in {"forks", "idle"} => error_queue = <<>>
  /\ DOMAIN watching_session \subseteq DOMAIN session_id_coroutine
  /\ \A i \in DOMAIN error_queue : error_queue[i] \in DOMAIN session_id_coroutine
  /\ \A i, j \in DOMAIN error_queue : error_queue[i] = error_queue[j] => i = j

CleanIInv == QueuedOK /\ (~erred => ~failed /\ HandoverOK /\ DrainedOK)

=============================================================================
