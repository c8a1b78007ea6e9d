----------------------------- MODULE SkynetTimer -----------------------------
(***************************************************************************)
(* The timer of the kernel: a wheel of one near array and some levels of   *)
(* coarser arrays, filled by the services' threads and turned by the timer *)
(* thread.  One step per section under the timer's lock and per message    *)
(* sent; timers are set between any two steps of the timer thread.         *)
(*                                                                         *)
(* The lists of the wheel hold timer ids; a timer's node is its id with    *)
(* expire[id].  The message a timer sends is a push into the mailbox of    *)
(* its service (module SkynetDispatch); a timeout of 0 is sent by the      *)
(* caller itself and does not come here.                                   *)
(***************************************************************************)
EXTENDS Integers, Sequences, FiniteSets, SequencesExt

CONSTANTS
  Timers,     \* the ids of timers
  NearBits,   \* TIME_NEAR_SHIFT: 8 in the code
  LevelBits,  \* TIME_LEVEL_SHIFT: 6 in the code
  Levels,     \* the number of levels: 4 in the code
  MaxDiff     \* bound of the model: ticks a call of skynet_updatetime catches up

Near   == 2 ^ NearBits
Level  == 2 ^ LevelBits
Span == 2 ^ (NearBits + Levels * LevelBits)   \* 2^32 in the code

\* The delays a positive int can say.
Delays == 1..(Span \div 2 - 1)

ASSUME TimerAssumption ==
  /\ NearBits \in Nat \ {0} /\ LevelBits \in Nat \ {0}
  /\ Levels \in Nat \ {0, 1}
  /\ MaxDiff \in Nat \ {0}

NEAR  == -1    \* the near array, below level 0
Lists == ({NEAR} \X (0..(Near - 1))) \cup ((0..(Levels - 1)) \X (0..(Level - 1)))

VARIABLES
  time,     \* T->time
  wheel,    \* the lists of the wheel
  expire,   \* node->expire
  phase,       \* the timer thread: "idle", "execute", "shift"
  shifted,  \* ... in timer_update, after timer_shift
  left,     \* ... ticks left in skynet_updatetime
  firing,   \* ... the list dispatch_list is working on
  order     \* history: the timers set and not fired, in the order they were set

timerVars == <<time, wheel, expire, phase, shifted, left, firing, order>>

TimerInit ==
  /\ time = 0
  /\ wheel = [l \in Lists |-> <<>>]
  /\ expire = [id \in Timers |-> 0]
  /\ phase = "idle" /\ shifted = FALSE /\ left = 0
  /\ firing = <<>>
  /\ order = <<>>

-----------------------------------------------------------------------------
(* The wheel.                                                              *)

\* x and y agree above the lowest b bits: (x | mask) == (y | mask).
SameBlock(x, y, b) == x \div 2 ^ b = y \div 2 ^ b

\* The levels add_node finds too narrow, bottom up; the top level takes the rest.
LevelOf(x, now) ==
  LET fits == {l \in 0..(Levels - 2) :
                 SameBlock(x, now, NearBits + (l + 1) * LevelBits)}
  IN IF fits = {} THEN Levels - 1 ELSE Min(fits)

Digit(x, l) == (x \div 2 ^ (NearBits + l * LevelBits)) % Level

\* add_node: the list for expiry x, seen at time now.
ListFor(x, now) ==
  IF SameBlock(x, now, NearBits) THEN <<NEAR, x % Near>>
  ELSE LET l == LevelOf(x, now) IN <<l, Digit(x, l)>>

\* The definitions named Bug... are wrong variants of the definition that
\* follows; no specification uses them.  Here the nodes come down last one first.
BugMovedReversed(w, l, now) ==
  [m \in Lists |->
     (IF m = l THEN <<>> ELSE w[m])
       \o Reverse(SelectSeq(w[l], LAMBDA id : ListFor(expire[id], now) = m))]

\* move_list: the nodes of list l, re-added one after the other.
Moved(w, l, now) ==
  [m \in Lists |->
     (IF m = l THEN <<>> ELSE w[m])
       \o SelectSeq(w[l], LAMBDA id : ListFor(expire[id], now) = m)]

\* timer_shift: the list that comes down when the time becomes now.  The lowest
\* level whose digit has just changed to a digit other than 0; at 0, the whole
\* range has gone round.
Cascades(now) ==
  {l \in 0..(Levels - 1) :
     /\ now % 2 ^ (NearBits + l * LevelBits) = 0
     /\ Digit(now, l) # 0}

Cascade(w, now) ==
  IF now = 0 THEN Moved(w, <<Levels - 1, 0>>, now)
  ELSE IF Cascades(now) = {} THEN w
  ELSE LET l == Min(Cascades(now)) IN Moved(w, <<l, Digit(now, l)>>, now)

-----------------------------------------------------------------------------
(* The threads.                                                            *)

\* skynet_timeout with time > 0: timer_add, in the calling thread.
Timeout(id, d) ==
  LET x == (time + d) % Span IN
  /\ id \notin Range(order)
  /\ expire' = [expire EXCEPT ![id] = x]
  /\ wheel' = [wheel EXCEPT ![ListFor(x, time)] = Append(@, id)]
  /\ order' = Append(order, id)
  /\ UNCHANGED <<time, phase, shifted, left, firing>>

\* skynet_updatetime: the clock has moved by diff centiseconds.
UpdateTime ==
  /\ phase = "idle"
  /\ \E diff \in 1..MaxDiff : left' = diff
  /\ phase' = "execute"
  /\ UNCHANGED <<time, wheel, expire, shifted, firing, order>>

\* timer_execute takes the whole list of the current tick ...
TakeList ==
  /\ phase = "execute" /\ firing = <<>>
  /\ wheel[<<NEAR, time % Near>>] # <<>>
  /\ firing' = wheel[<<NEAR, time % Near>>]
  /\ wheel' = [wheel EXCEPT ![<<NEAR, time % Near>>] = <<>>]
  /\ UNCHANGED <<time, expire, phase, shifted, left, order>>

\* ... and dispatch_list, without the lock, sends one message after the other;
\* the node is freed.
DispatchNode ==
  /\ phase = "execute" /\ firing # <<>>
  /\ firing' = Tail(firing)
  /\ order' = Remove(order, Head(firing))
  /\ expire' = [expire EXCEPT ![Head(firing)] = 0]
  /\ UNCHANGED <<time, wheel, phase, shifted, left>>

\* The list is empty: timer_update goes on, with timer_shift or with the next
\* tick.
ExecuteDone ==
  /\ phase = "execute" /\ firing = <<>>
  /\ wheel[<<NEAR, time % Near>>] = <<>>
  /\ IF ~shifted
     THEN phase' = "shift" /\ UNCHANGED <<shifted, left>>
     ELSE /\ shifted' = FALSE
          /\ left' = left - 1
          /\ phase' = IF left = 1 THEN "idle" ELSE "execute"
  /\ UNCHANGED <<time, wheel, expire, firing, order>>

\* Nothing comes down when the time wraps around to 0.
BugTimerShift ==
  /\ phase = "shift"
  /\ time' = (time + 1) % Span
  /\ wheel' = IF time' = 0 THEN wheel ELSE Cascade(wheel, time')
  /\ shifted' = TRUE
  /\ phase' = "execute"
  /\ UNCHANGED <<expire, left, firing, order>>

TimerShift ==
  /\ phase = "shift"
  /\ time' = (time + 1) % Span
  /\ wheel' = Cascade(wheel, time')
  /\ shifted' = TRUE
  /\ phase' = "execute"
  /\ UNCHANGED <<expire, left, firing, order>>

TimerThread == \/ UpdateTime \/ TakeList \/ DispatchNode \/ ExecuteDone
               \/ TimerShift

TimerNext == TimerThread \/ \E id \in Timers, d \in Delays : Timeout(id, d)

TimerSpec == TimerInit /\ [][TimerNext]_timerVars

\* thread_timer runs until the process ends.
FairTimerSpec == TimerSpec /\ WF_timerVars(TimerThread)

-----------------------------------------------------------------------------
(* What must hold.                                                         *)

TimerTypeOK ==
  /\ time \in 0..(Span - 1)
  /\ DOMAIN wheel = Lists
  /\ \A l \in Lists : wheel[l] \in Seq(Timers)
  /\ expire \in [Timers -> 0..(Span - 1)]
  /\ phase \in {"idle", "execute", "shift"}
  /\ shifted \in BOOLEAN
  /\ left \in 0..MaxDiff
  /\ firing \in Seq(Timers)
  /\ order \in Seq(Timers)

Promise == INSTANCE TimerQueue WITH
  queue <- [k \in DOMAIN order |->
              [id |-> order[k], left |-> (expire[order[k]] - time) % Span]]

\* The wheel keeps the promise of TimerQueue: every timer fires at its tick, and
\* those of one tick in the order they were set, across every cascade and when
\* the 32 bit time wraps around.
KeepsPromise == Promise!Spec

\* Every timer fires in the end.
Fires == \A id \in Timers : id \in Range(order) ~> id \notin Range(order)

=============================================================================
