---------------------------- MODULE ActorMailbox ----------------------------
(***************************************************************************)
(* What the scheduler promises the services: each is an actor with a FIFO  *)
(* mailbox of its own that handles one message at a time.  There are no    *)
(* threads, no queue of mailboxes and no reference counts here.            *)
(*                                                                         *)
(* A service that has left the handle storage is closed: the calls that    *)
(* were in flight still reach its mailbox and are still handled.  Once it  *)
(* is sealed nothing enters the mailbox any more, nothing is handled, and  *)
(* what is left is discarded before the service is gone.                   *)
(***************************************************************************)
EXTENDS Sequences

CONSTANTS Services, Message, Boot

VARIABLES
  life,     \* "unborn", "open", "closed", "sealed", "gone"
  box,      \* the messages accepted and not yet taken out
  running   \* the service is handling a message

vars == <<life, box, running>>

Init ==
  /\ life = [s \in Services |-> IF s = Boot THEN "open" ELSE "unborn"]
  /\ box = [s \in Services |-> <<>>]
  /\ running = [s \in Services |-> FALSE]

Become(s, from, to) ==
  /\ life[s] \in from
  /\ life' = [life EXCEPT ![s] = to]
  /\ UNCHANGED <<box, running>>

\* A service has its handle before its mailbox: one that is retired in between
\* gets a mailbox that is closed from the start.
Create(s) == \E to \in {"open", "closed"} : Become(s, {"unborn"}, to)
Close(s)  == Become(s, {"open"}, "closed")
Seal(s)   == ~running[s] /\ Become(s, {"closed"}, "sealed")
Vanish(s) == box[s] = <<>> /\ Become(s, {"sealed"}, "gone")

Accept(s) ==
  /\ life[s] \in {"open", "closed"}
  /\ UNCHANGED <<life, running>>
  /\ \E m \in Message : box' = [box EXCEPT ![s] = Append(@, m)]

Start(s) ==
  /\ life[s] \in {"open", "closed"}
  /\ ~running[s]
  /\ box[s] # <<>>
  /\ box' = [box EXCEPT ![s] = Tail(@)]
  /\ running' = [running EXCEPT ![s] = TRUE]
  /\ UNCHANGED life

Finish(s) ==
  /\ running[s]
  /\ running' = [running EXCEPT ![s] = FALSE]
  /\ UNCHANGED <<life, box>>

Discard(s) ==
  /\ life[s] = "sealed"
  /\ box[s] # <<>>
  /\ box' = [box EXCEPT ![s] = Tail(@)]
  /\ UNCHANGED <<life, running>>

Next ==
  \E s \in Services :
    \/ Create(s) \/ Close(s) \/ Seal(s) \/ Vanish(s)
    \/ Accept(s) \/ Start(s) \/ Finish(s) \/ Discard(s)

Spec == Init /\ [][Next]_vars

=============================================================================
