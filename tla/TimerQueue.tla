----------------------------- MODULE TimerQueue -----------------------------
(***************************************************************************)
(* What skynet_timeout promises: a timer set for d ticks fires when d more *)
(* ticks have passed, once, never on another tick, and timers that are due *)
(* at the same tick fire in the order in which they were set.              *)
(***************************************************************************)
EXTENDS Integers, Sequences

CONSTANTS Timers, Delays

VARIABLE queue    \* the timers set and not fired, oldest first: <<[id, left]>>

Init == queue = <<>>

Set(id, d) ==
  /\ \A k \in DOMAIN queue : queue[k].id # id
  /\ queue' = Append(queue, [id |-> id, left |-> d])

Tick ==
  /\ \A k \in DOMAIN queue : queue[k].left > 0
  /\ queue' = [k \in DOMAIN queue |-> [queue[k] EXCEPT !.left = @ - 1]]

Fire ==
  \E k \in DOMAIN queue :
    /\ queue[k].left = 0
    /\ \A j \in 1..(k - 1) : queue[j].left > 0
    /\ queue' = SubSeq(queue, 1, k - 1) \o SubSeq(queue, k + 1, Len(queue))

Next == Tick \/ Fire \/ \E id \in Timers, d \in Delays : Set(id, d)

Spec == Init /\ [][Next]_queue

=============================================================================
