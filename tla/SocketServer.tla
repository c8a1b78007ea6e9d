---------------------------- MODULE SocketServer ----------------------------
(***************************************************************************)
(* The socket server: services reserve a slot and send requests down a     *)
(* pipe; one socket thread obeys them and works through the events epoll   *)
(* gives it.  A slot is used for one socket after the other; the only      *)
(* thing that tells them apart is the id.                                  *)
(*                                                                         *)
(* Workers touch a slot in reserve_id only, in two steps: the type, then   *)
(* the id.  A handler of the socket thread is one step here, except that   *)
(* clear_closed_event is a step of its own: between force_close, which     *)
(* makes the slot free, and it, a worker may reserve the slot.             *)
(*                                                                         *)
(* A message is its number; high and low hold one element per part not yet *)
(* written, Size parts a message.  Owners (opaque), addresses, received    *)
(* data and socket options are left out, and so are the requests that only *)
(* change those.                                                           *)
(***************************************************************************)
EXTENDS Integers, Sequences, FiniteSets, Functions

CONSTANTS
  Workers,   \* threads of services
  MaxSocket, \* MAX_SOCKET: 65536 in the code
  Size,      \* parts of a message
  MaxId,     \* bound of the model: ids reserved
  Purpose,   \* bound of the model, per id: what it may be reserved for
  MaxSend,   \* bound of the model: messages sent
  MaxPipe    \* bound of the model: requests in the pipe

ASSUME SocketAssumption ==
  /\ MaxSocket \in Nat \ {0} /\ Size \in Nat \ {0}
  /\ Purpose \in [1..MaxId -> SUBSET {"O", "L", "B", "U"}]
  /\ MaxId \in Nat /\ MaxSend \in Nat /\ MaxPipe \in Nat \ {0}

VARIABLES
  allocId,   \* ss->alloc_id
  slot,      \* ss->slot
  pipe,      \* requests between sendctrl_fd and recvctrl_fd
  ev,        \* per slot: its event in the batch, and the id it was raised for
  phase,     \* "cmd": ss->checkctrl is 1; "batch": it is 0; "first": it is 1 and
             \* sp_wait has returned in this turn; "down"; "abort"
  closed,    \* the id whose events clear_closed_event is about to clear, or 0
  pc,        \* per worker: the request whose slot it has reserved
  sort,      \* history, per id: how it was made, "none" before services know it,
             \* "F": a UDP socket that could not be added to epoll
  sent,      \* number of messages sent
  lows,      \* history: the messages sent with low priority
  ended,     \* history: ids reported closed or failed (not the listening ones for
             \* which an accept failed: they go on)
  stale      \* history: a request or an event of an earlier socket met the slot

services == <<pc, sent, lows>>
vars     == <<allocId, slot, pipe, ev, phase, closed, services, sort, ended, stale>>

Slots == 0..(MaxSocket - 1)
Ids   == 1..MaxId
Idle  == [op |-> "none", id |-> 0]

HashId(i) == i % MaxSocket

\* write: epoll asks for writable events; up: the connection is made; wire: the
\* parts written to the socket.
Unused ==
  [type |-> "INVALID", id |-> 0, protocol |-> "tcp", high |-> <<>>, low |-> <<>>,
   write |-> FALSE, up |-> FALSE, wire |-> <<>>]

NoEvent == [flags |-> {}, id |-> 0]

Init ==
  /\ allocId = 0
  /\ slot = [s \in Slots |-> Unused]
  /\ pipe = <<>>
  /\ ev = [s \in Slots |-> NoEvent]
  /\ phase = "cmd" /\ closed = 0
  /\ pc = [w \in Workers |-> Idle]
  /\ sort = [i \in Ids |-> "none"]
  /\ sent = 0 /\ lows = {} /\ ended = {} /\ stale = FALSE

-----------------------------------------------------------------------------
(* Services                                                                *)

Running == phase \in {"cmd", "batch", "first"}

\* The ids reserve_id would try from a, up to the first whose slot is free.
Tried(a, i) ==
  /\ i \in (a + 1)..(a + MaxSocket)
  /\ slot[HashId(i)].type = "INVALID"
  /\ \A j \in (a + 1)..(i - 1) : slot[HashId(j)].type # "INVALID"

\* The first half of reserve_id: the compare and swap of the type.
Reserve(w, op) ==
  /\ pc[w] = Idle /\ Running
  /\ \E i \in Ids :
       /\ Tried(allocId, i) /\ op \in Purpose[i]
       /\ allocId' = i
       /\ slot' = [slot EXCEPT ![HashId(i)].type = "RESERVE"]
       /\ pc' = [pc EXCEPT ![w] = [op |-> op, id |-> i]]
  /\ UNCHANGED <<pipe, ev, phase, closed, sort, sent, lows, ended, stale>>

\* send_request
SendRequest(r) == Len(pipe) < MaxPipe /\ pipe' = Append(pipe, r)

\* The second half, s->id = id, and the request: connect, listen, bind, udp.
Publish(w) ==
  /\ pc[w] # Idle /\ Running
  /\ LET i == pc[w].id IN
       /\ slot' = [slot EXCEPT ![HashId(i)].id = i]
       /\ sort' = [sort EXCEPT ![i] = pc[w].op]
       /\ SendRequest(pc[w])
  /\ pc' = [pc EXCEPT ![w] = Idle]
  /\ UNCHANGED <<allocId, ev, phase, closed, sent, lows, ended, stale>>

Known == {i \in Ids : sort[i] # "none"}

\* socket_server_close and socket_server_start: nothing is looked at.
Ask(w, op, i) ==
  /\ pc[w] = Idle /\ Running
  /\ i \in Known
  /\ SendRequest([op |-> op, id |-> i])
  /\ UNCHANGED <<allocId, slot, ev, phase, closed, services, sort, ended, stale>>

\* socket_server_send, _send_lowpriority and _udp_send.  A service does not
\* send on a socket it listens on.
Send(w, op, i) ==
  /\ pc[w] = Idle /\ Running
  /\ i \in Known /\ sort[i] # "L" /\ sent < MaxSend
  /\ slot[HashId(i)].id = i /\ slot[HashId(i)].type # "INVALID"
  /\ SendRequest([op |-> op, id |-> i, msg |-> sent + 1])
  /\ sent' = sent + 1
  /\ lows' = IF op = "P" THEN lows \cup {sent + 1} ELSE lows
  /\ UNCHANGED <<allocId, slot, ev, phase, closed, pc, sort, ended, stale>>

\* socket_server_exit
Exit(w) ==
  /\ pc[w] = Idle /\ Running
  /\ \A n \in 1..Len(pipe) : pipe[n].op # "X"
  /\ SendRequest([op |-> "X", id |-> 0])
  /\ UNCHANGED <<allocId, slot, ev, phase, closed, services, sort, ended, stale>>

Service(w) ==
  \/ \E op \in {"O", "L", "B", "U"} : Reserve(w, op)
  \/ Publish(w)
  \/ \E op \in {"K", "S"}, i \in Ids : Ask(w, op, i)
  \/ \E op \in {"D", "P"}, i \in Ids : Send(w, op, i)
  \/ Exit(w)

-----------------------------------------------------------------------------
(* Writing                                                                 *)

Parts(m) == [j \in 1..Size |-> m]

\* send_buffer_empty
Empty(k) == k.high = <<>> /\ k.low = <<>>

\* The parts of the head of a list that are left.
Rest(q) == Cardinality({n \in DOMAIN q : q[n] = Head(q)})

\* list_uncomplete: a part of the head has been written.
Uncomplete(q) == q # <<>> /\ Rest(q) < Size

\* send_list: the kernel takes the first n parts of list q of socket k, and
\* never a part of a datagram.
Takes(k, q) == {n \in 0..Len(k[q]) : k.protocol = "udp" => n % Size = 0}

SendList(k, q, n) ==
  [k EXCEPT ![q] = SubSeq(@, n + 1, Len(@)), !.wire = @ \o SubSeq(k[q], 1, n)]

\* The definitions named Bug... are wrong variants of the definition that
\* follows; no specification uses them.  Here the low list keeps its head.
BugRaise(k) == k

\* raise_uncomplete, where the head of the low list is uncomplete.
Raise(k) ==
  IF Uncomplete(k.low)
  THEN [k EXCEPT !.high = SubSeq(k.low, 1, Rest(k.low)),
                 !.low  = SubSeq(k.low, Rest(k.low) + 1, Len(k.low))]
  ELSE k

\* The lists are left as they are.
BugForceClose(k) == [k EXCEPT !.type = "INVALID", !.write = FALSE, !.up = FALSE]

\* The slot is not given free.
BugLeaveOpen(k) == [k EXCEPT !.high = <<>>, !.low = <<>>, !.write = FALSE]

\* force_close
ForceClose(k) ==
  [k EXCEPT !.type = "INVALID", !.high = <<>>, !.low = <<>>,
            !.write = FALSE, !.up = FALSE, !.wire = <<>>]

\* The writable event is still asked for.
BugSendLow(k) ==
  IF k.low # <<>> THEN {Raise(SendList(k, "low", n)) : n \in Takes(k, "low")}
  ELSE IF k.type = "HALFCLOSE" THEN {ForceClose(k)}
  ELSE {k}

\* What is left to do once the high list is empty: the low list, or the end.
SendLow(k) ==
  IF k.low # <<>> THEN {Raise(SendList(k, "low", n)) : n \in Takes(k, "low")}
  ELSE IF k.type = "HALFCLOSE" THEN {ForceClose(k)}
  ELSE {[k EXCEPT !.write = FALSE]}

\* send_buffer: what it may leave of socket k.  A reserved slot has no
\* descriptor to write to.
SendBuffer(k) ==
  LET sentHigh == {SendList(k, "high", n) : n \in Takes(k, "high")}
      failed   == IF k.protocol = "tcp" /\ ~Empty(k) THEN {ForceClose(k)} ELSE {}
  IN  IF k.type = "RESERVE" THEN IF failed = {} THEN {k} ELSE failed
      ELSE failed \cup {x \in sentHigh : x.high # <<>>}
                  \cup UNION {SendLow(x) : x \in {y \in sentHigh : y.high = <<>>}}

-----------------------------------------------------------------------------
(* Requests                                                                *)

\* Socket i has been reported closed or failed; clear_closed_event comes next.
End(i) == ended' = ended \cup {i} /\ closed' = i

GoOn == UNCHANGED <<ended, closed>>

\* An assertion has failed.
Abort == phase' = "abort" /\ UNCHANGED slot /\ GoOn

\* After the event that follows sp_wait ss->checkctrl is looked at.
Turn == phase' = IF phase = "first" THEN "cmd" ELSE phase

Becomes(s, k) == slot' = [slot EXCEPT ![s] = k] /\ Turn

Same == UNCHANGED slot /\ Turn

\* What send_buffer returns is forgotten.
BugOutcome(s, k, i) == Becomes(s, k) /\ GoOn

\* Socket k after an attempt to write or to close it: SOCKET_CLOSE if it is gone.
Outcome(s, k, i) == Becomes(s, k) /\ IF k.type = "INVALID" THEN End(i) ELSE GoOn

\* new_fd asserts that the slot is reserved and its lists are empty; it may fail
\* to add the descriptor to epoll.
Reserved(k) == k.type = "RESERVE" /\ Empty(k)

\* A writable event is not asked for.
BugNewFd(k, type, protocol) ==
  [k EXCEPT !.type = type, !.protocol = protocol,
            !.write = FALSE, !.up = (type = "CONNECTED"), !.wire = <<>>]

NewFd(k, type, protocol) ==
  [k EXCEPT !.type = type, !.protocol = protocol,
            !.write = (type = "CONNECTING"), !.up = (type = "CONNECTED"), !.wire = <<>>]

OpenSocket(r, s, k) ==
  \/ Becomes(s, [k EXCEPT !.type = "INVALID"]) /\ End(r.id)
  \/ /\ Reserved(k)
     /\ \E type \in {"CONNECTED", "CONNECTING"} : Becomes(s, NewFd(k, type, "tcp"))
     /\ GoOn
  \/ ~Reserved(k) /\ Abort

ListenSocket(s, k) ==
  \/ Reserved(k) /\ Becomes(s, NewFd(k, "PLISTEN", "tcp")) /\ GoOn
  \/ ~Reserved(k) /\ Abort

BindSocket(r, s, k) ==
  \/ k.type = "RESERVE" /\ Becomes(s, [k EXCEPT !.type = "INVALID"]) /\ End(r.id)
  \/ Reserved(k) /\ Becomes(s, NewFd(k, "BIND", "tcp")) /\ GoOn
  \/ ~Reserved(k) /\ Abort

\* A failure is not reported.
AddUdpSocket(s, k) ==
  \/ k.type = "RESERVE" /\ Becomes(s, [k EXCEPT !.type = "INVALID"]) /\ GoOn
  \/ Reserved(k) /\ Becomes(s, NewFd(k, "CONNECTED", "udp")) /\ GoOn
  \/ ~Reserved(k) /\ Abort

\* What has no effect once the socket is gone, or the slot another's.
Other(k, i) == k.type = "INVALID" \/ k.id # i

StartSocket(r, s, k) ==
  \/ Other(k, r.id) /\ Same /\ End(r.id)
  \/ /\ ~Other(k, r.id) /\ k.type \in {"PACCEPT", "PLISTEN"}
     /\ \/ Becomes(s, [k EXCEPT !.type = "INVALID"]) /\ End(r.id)
        \/ /\ Becomes(s, [k EXCEPT !.type = IF @ = "PACCEPT" THEN "CONNECTED" ELSE "LISTEN"])
           /\ GoOn
  \/ /\ ~Other(k, r.id) /\ k.type \notin {"PACCEPT", "PLISTEN"}
     /\ Same /\ GoOn

\* The rest of the data is sent before the socket is closed.
HalfClose(k) == [k EXCEPT !.type = "HALFCLOSE"]

CloseSocket(r, s, k) ==
  \/ Other(k, r.id) /\ Same /\ End(r.id)
  \/ /\ ~Other(k, r.id)
     /\ \E x \in IF Empty(k) THEN {k} ELSE SendBuffer(k) :
          LET gone == x.type = "INVALID" \/ Empty(x) IN
          IF gone /\ k.type = "RESERVE" THEN Abort
          ELSE Outcome(s, IF gone THEN ForceClose(x) ELSE HalfClose(x), r.id)

\* append_sendbuffer to list q
Queue(k, q, parts) == [k EXCEPT ![q] = @ \o parts]

\* Writing to a socket that waits for nothing; the rest of a message goes to
\* the high list, a datagram that is not sent to the list of its priority.
SendNow(k, q, m) ==
  IF k.protocol = "tcp"
  THEN {[Queue(k, "high", SubSeq(Parts(m), n + 1, Size)) EXCEPT
           !.wire = @ \o SubSeq(Parts(m), 1, n), !.write = @ \/ n < Size] : n \in 0..Size}
       \cup {ForceClose(k)}
  ELSE {[k EXCEPT !.wire = @ \o Parts(m)], [Queue(k, q, Parts(m)) EXCEPT !.write = TRUE]}

SendSocket(r, s, k) ==
  LET q == IF r.op = "D" THEN "high" ELSE "low" IN
  \/ /\ Other(k, r.id) \/ k.type \in {"HALFCLOSE", "PACCEPT"}
     /\ Same /\ GoOn
  \/ /\ ~Other(k, r.id) /\ k.type \in {"PLISTEN", "LISTEN"}
     /\ Abort
  \/ /\ ~Other(k, r.id) /\ k.type = "CONNECTED" /\ Empty(k)
     /\ \E x \in SendNow(k, q, r.msg) : Outcome(s, x, r.id)
  \/ /\ ~Other(k, r.id)
     /\ k.type \in {"RESERVE", "CONNECTING", "CONNECTED", "BIND"}
     /\ ~(k.type = "CONNECTED" /\ Empty(k))
     /\ Becomes(s, Queue(k, q, Parts(r.msg))) /\ GoOn

\* SOCKET_EXIT: skynet_socket_poll returns 0 and the socket thread ends.
SocketExit == phase' = "down" /\ UNCHANGED slot /\ GoOn

\* ctrl_cmd
CtrlCmd ==
  /\ phase = "cmd" /\ closed = 0 /\ pipe # <<>>
  /\ LET r == Head(pipe)
         s == HashId(r.id)
         k == slot[s]
     IN
     /\ \/ r.op = "O" /\ OpenSocket(r, s, k)
        \/ r.op = "L" /\ ListenSocket(s, k)
        \/ r.op = "B" /\ BindSocket(r, s, k)
        \/ r.op = "U" /\ AddUdpSocket(s, k)
        \/ r.op = "S" /\ StartSocket(r, s, k)
        \/ r.op = "K" /\ CloseSocket(r, s, k)
        \/ r.op \in {"D", "P"} /\ SendSocket(r, s, k)
        \/ r.op = "X" /\ SocketExit
     /\ stale' = (stale \/ /\ r.op \in {"K", "S", "D", "P"}
                           /\ k.type = "RESERVE" /\ k.id = r.id)
     /\ sort' = IF r.op = "U" /\ slot'[s].type = "INVALID"
                THEN [sort EXCEPT ![r.id] = "F"] ELSE sort
  /\ pipe' = Tail(pipe)
  /\ UNCHANGED <<allocId, ev, services>>

\* Only a slot that is still free is looked at.
ClearClosedEvent ==
  /\ closed # 0 /\ Running
  /\ ev' = [s \in Slots |->
              IF slot[s].type = "INVALID" /\ slot[s].id = closed THEN NoEvent ELSE ev[s]]
  /\ closed' = 0
  /\ UNCHANGED <<allocId, slot, pipe, phase, services, sort, ended, stale>>

-----------------------------------------------------------------------------
(* Events                                                                  *)

\* has_cmd finds the pipe empty: ss->checkctrl = 0
NoCmd ==
  /\ phase = "cmd" /\ closed = 0 /\ pipe = <<>>
  /\ phase' = "batch"
  /\ UNCHANGED <<allocId, slot, pipe, ev, closed, services, sort, ended, stale>>

\* The flags epoll may raise for socket k: a connecting socket gets an event
\* when the connection is made or has failed.
Flags(k) ==
  CASE k.type \in {"LISTEN", "BIND"}          -> {{"read"}}
    [] k.type = "CONNECTING"                  -> {{"write"}}
    [] k.type \in {"CONNECTED", "HALFCLOSE"}  ->
         {f \in SUBSET {"read", "write"} : f # {} /\ ("write" \in f => k.write)}
    [] OTHER                                  -> {}

\* sp_wait returns: some events, or a request in the pipe.  The first event is
\* dealt with before the pipe is looked at, unless it is the pipe's.
Wait ==
  /\ phase = "batch" /\ closed = 0 /\ \A s \in Slots : ev[s] = NoEvent
  /\ \E f \in [Slots -> SUBSET {"read", "write"}] :
       /\ \A s \in Slots : f[s] \in Flags(slot[s]) \cup {{}}
       /\ \/ pipe # <<>> /\ phase' = "cmd"
          \/ (\E s \in Slots : f[s] # {}) /\ phase' = "first"
       /\ ev' = [s \in Slots |->
                  IF f[s] = {} THEN NoEvent ELSE [flags |-> f[s], id |-> slot[s].id]]
       /\ slot' = [s \in Slots |-> [slot[s] EXCEPT !.up = @ \/ f[s] # {}]]
  /\ UNCHANGED <<allocId, pipe, closed, services, sort, ended, stale>>

\* Event s has been dealt with.
Done(s) == ev' = [ev EXCEPT ![s] = NoEvent]

\* report_connect: a connection that is not yet made has no error.
ReportConnect(s, k) ==
  /\ \/ k.up /\ Becomes(s, ForceClose(k)) /\ ended' = ended \cup {k.id} /\ UNCHANGED closed
     \/ Becomes(s, [k EXCEPT !.type = "CONNECTED", !.write = @ /\ ~Empty(k)]) /\ GoOn
  /\ Done(s)
  /\ UNCHANGED <<allocId, sort>>

\* report_accept: a new socket, or none (no descriptor, no slot, nobody there).
ReportAccept(s) ==
  /\ \/ Same /\ UNCHANGED <<allocId, sort>>
     \/ \E i \in Ids :
          /\ Tried(allocId, i) /\ Empty(slot[HashId(i)])
          /\ allocId' = i /\ sort' = [sort EXCEPT ![i] = "A"]
          /\ Becomes(HashId(i), [NewFd(slot[HashId(i)], "PACCEPT", "tcp") EXCEPT !.id = i, !.up = TRUE])
     \/ /\ \E i \in Ids : Tried(allocId, i) /\ ~Empty(slot[HashId(i)])
        /\ phase' = "abort" /\ UNCHANGED <<allocId, slot, sort>>
  /\ Done(s)
  /\ GoOn

\* forward_message_tcp and _udp: data or nothing; or the socket is closed.
\* Another datagram is tried for at once.
ForwardMessage(s, k) ==
  /\ \/ k.type # "RESERVE" /\ Same /\ GoOn
     \/ k.type # "RESERVE" /\ Becomes(s, ForceClose(k)) /\ End(k.id)
     \/ k.type = "RESERVE" /\ Abort
  /\ \/ "write" \in ev[s].flags /\ ev' = [ev EXCEPT ![s].flags = {"write"}]
     \/ "write" \notin ev[s].flags /\ Done(s)
     \/ k.protocol = "udp" /\ slot'[s].type # "INVALID" /\ UNCHANGED ev
  /\ UNCHANGED <<allocId, sort>>

FlushBuffer(s, k) ==
  /\ \/ Uncomplete(k.low) /\ Abort
     \/ /\ ~Uncomplete(k.low)
        /\ \E x \in SendBuffer(k) :
             IF k.type = "RESERVE" /\ x.type = "INVALID" THEN Abort
             ELSE Outcome(s, x, k.id)
  /\ Done(s)
  /\ UNCHANGED <<allocId, sort>>

\* One turn of socket_server_poll with an event in hand.
Event ==
  /\ phase \in {"first", "batch"} /\ closed = 0
  /\ \E s \in {t \in Slots : ev[t] # NoEvent} :
       LET k == slot[s] IN
       /\ \/ k.type = "CONNECTING" /\ ReportConnect(s, k)
          \/ k.type = "LISTEN" /\ ReportAccept(s)
          \/ /\ k.type = "INVALID"
             /\ Done(s)
             /\ Same /\ GoOn /\ UNCHANGED <<allocId, sort>>
          \/ /\ k.type \notin {"CONNECTING", "LISTEN", "INVALID"}
             /\ IF "read" \in ev[s].flags THEN ForwardMessage(s, k) ELSE FlushBuffer(s, k)
       /\ stale' = (stale \/ /\ k.type # "INVALID"
                             /\ k.id # ev[s].id \/ k.type = "RESERVE")
  /\ UNCHANGED <<pipe, services>>

Poll == CtrlCmd \/ ClearClosedEvent \/ NoCmd \/ Wait \/ Event

Next == Poll \/ \E w \in Workers : Service(w)

Spec == Init /\ [][Next]_vars

-----------------------------------------------------------------------------
\* The bytes a peer has been sent and will be sent: each message is there
\* whole and in one piece, and messages of one priority are in the order in
\* which they were sent.
Bytes(k) == k.wire \o k.high \o k.low

StreamOrder ==
  \A s \in Slots : LET b == Bytes(slot[s]) IN
    /\ \A m \in Range(b) : \E n \in 0..(Len(b) - Size) :
         {j \in DOMAIN b : b[j] = m} = (n + 1)..(n + Size)
    /\ \A i, j \in DOMAIN b :
         i < j /\ (b[i] \in lows <=> b[j] \in lows) => b[i] <= b[j]

\* What waits for a writable event has asked for it: data, a connection, and a
\* close that lets the data out first, even when the last of it is gone.  Sockets
\* made by bind are left out: send_socket only queues for them (DataAwaited).
WriteArmedUnlessBound ==
  \A s \in Slots : LET k == slot[s] IN
    /\ ~stale
    /\ ~Empty(k) \/ k.type \in {"CONNECTING", "HALFCLOSE"}
    /\ sort[k.id] # "B"
    => k.write

\* A writable event that finds nothing to write is the last one: a socket that is
\* always writable would keep the socket thread busy.
NoIdleEvents ==
  [][\A s \in Slots :
       ~stale' /\ Empty(slot[s]) /\ ev[s].flags = {"write"} /\ ev'[s] = NoEvent
       => ~slot'[s].write]_vars

\* As the comment of send_socket has it: what cannot be written at once is put in
\* a list, to be sent when epoll says so, whatever socket it is for.
DataAwaited ==
  \A s \in Slots : LET k == slot[s] IN ~stale /\ ~Empty(k) => k.write

\* An assertion of the socket server fails only after a request or an event of
\* an earlier socket of the slot was taken for one of the slot being reserved.
AssertsOnlyOnReuse == phase = "abort" => stale

\* As long as no socket has been taken for another, each one ends once: a socket
\* that services know of and that is gone has been reported to be, unless it is a
\* UDP socket that could not be added to epoll, of which nobody hears; and what is
\* reported closed or failed is out of use: it cannot end a second time, or bring
\* data after its end.
EndsReported ==
  \A i \in Known : LET k == slot[HashId(i)] IN
    ~stale => /\ Other(k, i) /\ sort[i] # "F" => i \in ended
              /\ i \in ended => Other(k, i) \/ k.type = "RESERVE"

CodeAssertions == phase # "abort"
=============================================================================
