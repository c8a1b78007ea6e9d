---------------------------- MODULE MessageQueue ----------------------------
(***************************************************************************)
(* One message_queue of the kernel: a ring buffer that doubles when it is  *)
(* full, and the alert about a long backlog.  Every operation is a section *)
(* under the queue's lock, except skynet_mq_overload, which the worker     *)
(* that dispatches the queue calls without it.                             *)
(*                                                                         *)
(* in_global, release and the queue of queues are in SkynetDispatch.       *)
(***************************************************************************)
EXTENDS Integers, Sequences

CONSTANTS
  Message,      \* messages
  NoMessage,    \* what memory holds that nobody has written
  DefaultSize,  \* DEFAULT_QUEUE_SIZE: 64 in the code
  Overload,     \* MQ_OVERLOAD: 1024 in the code
  MaxLength     \* bound of the model: no push beyond this length

ASSUME QueueAssumption ==
  /\ NoMessage \notin Message
  /\ DefaultSize \in Nat \ {0, 1}
  /\ Overload \in Nat \ {0}
  /\ MaxLength \in Nat

VARIABLES
  cap, head, tail,
  queue,       \* the array
  overload,    \* the length to report, 0 if none
  threshold,   \* overload_threshold
  message,     \* *message: the message the last successful pop returned
  popped,      \* its worker has popped and not yet asked for the overload
  reported     \* history: the last length reported since the queue was empty

ring  == <<cap, head, tail, queue>>
alert == <<overload, threshold, reported>>
vars  == <<ring, alert, message, popped>>

Init ==
  /\ cap = DefaultSize /\ head = 0 /\ tail = 0
  /\ queue = [i \in 0..(DefaultSize - 1) |-> NoMessage]
  /\ overload = 0 /\ threshold = Overload
  /\ message = NoMessage /\ popped = FALSE
  /\ reported = 0

\* skynet_mq_length, and the length skynet_mq_pop computes.
Length(h, t, c) == IF h <= t THEN t - h ELSE t + c - h

\* The ring starts again at 0.
Wrap(i) == IF i >= cap THEN 0 ELSE i

-----------------------------------------------------------------------------
\* The definitions named Bug... are wrong variants of the definition that
\* follows; no specification uses them.  Here the array is copied as it lies.
BugExpand(written) ==
  /\ queue' = [i \in 0..(2 * cap - 1) |-> IF i < cap THEN written[i] ELSE NoMessage]
  /\ head' = 0
  /\ tail' = cap
  /\ cap' = 2 * cap

\* expand_queue: the array is copied from head on.
Expand(written) ==
  /\ queue' = [i \in 0..(2 * cap - 1) |->
                 IF i < cap THEN written[(head + i) % cap] ELSE NoMessage]
  /\ head' = 0
  /\ tail' = cap
  /\ cap' = 2 * cap

\* skynet_mq_push: write, advance, and double the array if it is now full.
Push(m) ==
  /\ Length(head, tail, cap) < MaxLength
  /\ LET written == [queue EXCEPT ![tail] = m]
     IN IF head = Wrap(tail + 1)
        THEN Expand(written)
        ELSE /\ queue' = written
             /\ tail' = Wrap(tail + 1)
             /\ UNCHANGED <<cap, head>>
  /\ UNCHANGED <<alert, message, popped>>

\* The threshold is left where it was.
BugRaise(length) ==
  /\ IF length > threshold
     THEN overload' = length
     ELSE UNCHANGED overload
  /\ UNCHANGED threshold

\* while (length > overload_threshold): the threshold is doubled until it is
\* not below the length.
Raise(length) ==
  IF length > threshold
  THEN /\ overload' = length
       /\ \E k \in 1..length :
            /\ threshold' = threshold * 2 ^ k
            /\ length <= threshold'
            /\ threshold * 2 ^ (k - 1) < length
  ELSE UNCHANGED <<overload, threshold>>

\* skynet_mq_pop of a message.
Pop ==
  /\ ~popped /\ head # tail
  /\ popped' = TRUE
  /\ message' = queue[head]
  /\ head' = Wrap(head + 1)
  /\ Raise(Length(head', tail, cap))
  /\ UNCHANGED <<cap, tail, queue, reported>>

\* skynet_mq_pop of an empty queue resets the threshold.
PopEmpty ==
  /\ ~popped /\ head = tail
  /\ threshold' = Overload
  /\ reported' = 0
  /\ UNCHANGED <<ring, overload, message, popped>>

\* skynet_mq_overload after every pop of a message: a length is reported once.
TakeOverload ==
  /\ popped
  /\ popped' = FALSE
  /\ overload' = 0
  /\ reported' = IF overload # 0 THEN overload ELSE reported
  /\ UNCHANGED <<ring, threshold, message>>

Next == \/ \E m \in Message : Push(m)
        \/ Pop \/ PopEmpty \/ TakeOverload

Spec == Init /\ [][Next]_vars

-----------------------------------------------------------------------------
\* Every variable has its type, and the indices are those of the array.
RingOK ==
  /\ cap \in Nat \ {0}
  /\ head \in 0..(cap - 1)
  /\ tail \in 0..(cap - 1)
  /\ queue \in [0..(cap - 1) -> Message \cup {NoMessage}]

TypeOK ==
  /\ RingOK
  /\ message \in Message \cup {NoMessage}
  /\ popped \in BOOLEAN
  /\ overload \in Nat
  /\ threshold \in Nat \ {0}
  /\ reported \in Nat

\* The messages in the ring, from head to tail.
Contents ==
  [k \in 1..Length(head, tail, cap) |->
     IF head + k - 1 < cap THEN queue[head + k - 1] ELSE queue[head + k - 1 - cap]]

Abstract == INSTANCE Fifo WITH items <- Contents, out <- message

\* The ring is a FIFO queue, wherever head and tail stand when it wraps around
\* or is doubled.
IsFifo == Abstract!Spec

\* The alerts about a growing backlog grow with it: no backlog is reported
\* again before it has passed the last report, unless the queue was empty.
AlertsGrow ==
  [][overload # 0 /\ overload' = 0 => overload > reported]_vars

=============================================================================
