-------------------------------- MODULE Fifo --------------------------------
(***************************************************************************)
(* What a message_queue promises: messages come out in the order they went *)
(* in, none is lost, overwritten, duplicated or made up.                   *)
(***************************************************************************)
EXTENDS Sequences

CONSTANTS Message, NoMessage

VARIABLES
  items,   \* the messages in the queue
  out      \* the message taken out last

Init == items = <<>> /\ out = NoMessage

Put(m) == items' = Append(items, m) /\ UNCHANGED out

Take == /\ items # <<>>
        /\ out' = Head(items)
        /\ items' = Tail(items)

Next == Take \/ \E m \in Message : Put(m)

Spec == Init /\ [][Next]_<<items, out>>

=============================================================================
