-------------------------------- MODULE Harbor --------------------------------
(***************************************************************************)
(* The harbor service of one process: it carries messages to services of   *)
(* other processes, each a harbor with an id, over one socket per harbor.  *)
(* Messages wait in the queue of their harbor until it is connected, or,   *)
(* when they are sent to a global name, in the queue of the name until it  *)
(* is known.  The slave service (cslave.lua) makes the connections and     *)
(* tells the names.                                                        *)
(*                                                                         *)
(* A message is the number of its sending; a harbor has one service, so a  *)
(* handle is the id of its harbor.  What the remote harbor sends is a      *)
(* stream of bytes that arrives in pieces of any size; only the lengths of *)
(* its messages are kept.  An empty queue stands for no queue.             *)
(***************************************************************************)
EXTENDS Integers, Sequences, FiniteSets, Functions

CONSTANTS
  HarborIds,   \* ids of harbors: 1..REMOTE_MAX - 1 in the code
  Self,        \* h->id
  Names,       \* global names
  Inbound,     \* the lengths of the messages each harbor sends, with their cookie
  MaxFrame,    \* the longest that leaves the first byte of the length 0
  MaxSends,    \* bound of the model: messages sent through this harbor
  MaxPiece     \* bound of the model: bytes of one socket message

ASSUME HarborAssumption ==
  /\ HarborIds \subseteq Nat \ {0} /\ Self \in HarborIds
  /\ Names \cap Nat = {}
  /\ Inbound \in [HarborIds -> Seq(Nat \ {0})]
  /\ MaxFrame \in Nat /\ MaxSends \in Nat /\ MaxPiece \in Nat

VARIABLES
  slaves,     \* h->s: fd (whether it is not 0), queue, status, read
  names,      \* h->map: value (the handle, 0 if unknown) and queue of each name
  sends,      \* messages sent through the harbor
  wire,       \* messages written to the socket of each harbor
  alive,      \* whether that socket, if there is one, is open
  home,       \* messages handed to a service of this process
  gone,       \* messages freed, or written to a socket that is closed
  refused,    \* messages answered with PTYPE_ERROR
  told,       \* what the slave service was told: Q name, D id
  heard,      \* history: bytes received from each harbor after its id
  forwarded   \* history: messages received from each harbor and passed on

outside    == <<wire, alive, home, gone, refused, told>>
harborVars == <<slaves, names, sends, outside, heard, forwarded>>

Peers == HarborIds \ {Self}

HarborInit ==
  /\ slaves = [r \in HarborIds |-> [fd |-> FALSE, queue |-> <<>>, status |-> "WAIT", read |-> 0]]
  /\ names = [x \in Names |-> [value |-> 0, queue |-> <<>>]]
  /\ sends = 0
  /\ wire = [r \in HarborIds |-> <<>>]
  /\ alive = [r \in HarborIds |-> TRUE]
  /\ home = {} /\ gone = {} /\ refused = {} /\ told = {}
  /\ heard = [r \in HarborIds |-> 0]
  /\ forwarded = [r \in HarborIds |-> 0]

-----------------------------------------------------------------------------
(* Out.                                                                    *)

\* The next message, as it is put into a queue or on the wire; dest is what the
\* low bytes of header.destination say.
Letter(to, dest) == [n |-> sends + 1, to |-> to, dest |-> dest]

Numbers(ms) == {m.n : m \in Range(ms)}

\* send_remote for each of ms: an error of the socket is ignored.
SendRemote(r, ms) ==
  IF alive[r]
  THEN wire' = [wire EXCEPT ![r] = @ \o ms] /\ UNCHANGED gone
  ELSE gone' = gone \cup Numbers(ms) /\ UNCHANGED wire

\* The definitions named Bug... are wrong variants of the definition that
\* follows; no specification uses them.  Here the check of the id is not awaited.
BugWaits(s) == ~s.fd

\* remote_send_handle queues while this holds.
Waits(s) == ~s.fd \/ s.status = "HANDSHAKE"

RemoteSend(to, r) ==
  LET s == slaves[r]
      m == Letter(to, r)
  IN  /\ sends' = sends + 1
      /\ CASE r = Self ->
                home' = home \cup {m.n} /\ UNCHANGED <<slaves, wire, gone, refused>>
           [] r # Self /\ Waits(s) /\ s.status = "DOWN" ->
                refused' = refused \cup {m.n} /\ UNCHANGED <<slaves, wire, gone, home>>
           [] r # Self /\ Waits(s) /\ s.status # "DOWN" ->
                /\ slaves' = [slaves EXCEPT ![r].queue = Append(@, m)]
                /\ UNCHANGED <<wire, gone, home, refused>>
           [] OTHER -> SendRemote(r, <<m>>) /\ UNCHANGED <<slaves, home, refused>>

\* A message for a handle.
SendHandle(r) ==
  /\ sends < MaxSends
  /\ RemoteSend(r, r)
  /\ UNCHANGED <<names, alive, told, heard, forwarded>>

\* A message for a name.
SendName(x) ==
  /\ sends < MaxSends
  /\ IF names[x].value = 0
     THEN /\ names' = [names EXCEPT ![x].queue = Append(@, Letter(x, 0))]
          /\ sends' = sends + 1
          /\ told' = told \cup {<<"Q", x>>}
          /\ UNCHANGED <<slaves, wire, gone, home, refused>>
     ELSE RemoteSend(x, names[x].value) /\ UNCHANGED <<names, told>>
  /\ UNCHANGED <<alive, heard, forwarded>>

-----------------------------------------------------------------------------
(* Commands of the slave service.                                          *)

\* dispatch_name_queue for the messages ms of a name that is now r.  Those moved
\* to the queue of the harbor keep their empty destination.
DispatchNameQueue(r, ms) ==
  CASE slaves[r].fd ->
         /\ SendRemote(r, [i \in DOMAIN ms |-> [ms[i] EXCEPT !.dest = r]])
         /\ UNCHANGED slaves
    [] ~slaves[r].fd /\ slaves[r].status = "DOWN" ->
         gone' = gone \cup Numbers(ms) /\ UNCHANGED <<slaves, wire>>
    [] OTHER ->
         slaves' = [slaves EXCEPT ![r].queue = @ \o ms] /\ UNCHANGED <<wire, gone>>

\* N name.
UpdateName(x, r) ==
  /\ names' = [names EXCEPT ![x] = [value |-> r, queue |-> <<>>]]
  /\ DispatchNameQueue(r, names[x].queue)
  /\ UNCHANGED <<sends, alive, home, refused, told, heard, forwarded>>

\* S fd id: the slave service has connected to r.
ConnectTo(r) ==
  /\ ~slaves[r].fd
  /\ slaves' = [slaves EXCEPT ![r].fd = TRUE, ![r].status = "HANDSHAKE"]
  /\ UNCHANGED <<names, sends, outside, heard, forwarded>>

\* The queue is not sent.
BugAccept(r) ==
  /\ ~slaves[r].fd
  /\ slaves' = [slaves EXCEPT ![r].fd = TRUE, ![r].status = "HEADER"]
  /\ UNCHANGED <<names, sends, outside, heard, forwarded>>

\* A fd id: r has connected, and the slave service has read its id.
Accept(r) ==
  /\ ~slaves[r].fd
  /\ slaves' = [slaves EXCEPT ![r] = [@ EXCEPT !.fd = TRUE, !.status = "HEADER", !.queue = <<>>]]
  /\ SendRemote(r, slaves[r].queue)
  /\ UNCHANGED <<names, sends, alive, home, refused, told, heard, forwarded>>

-----------------------------------------------------------------------------
(* Socket messages.                                                        *)

Parsers == [status : {"HEADER", "CONTENT", "DOWN"}, read : Nat, count : Nat]

\* read goes on from the header.
BugComplete(p, length) ==
  IF p.status = "CONTENT" THEN [status |-> "HEADER", read |-> 0, count |-> p.count + 1]
  ELSE [p EXCEPT !.status = IF length > MaxFrame THEN "DOWN" ELSE "CONTENT"]

\* A header, or the message of the given length, is complete.
Complete(p, length) ==
  IF p.status = "CONTENT" THEN [status |-> "HEADER", read |-> 0, count |-> p.count + 1]
  ELSE [p EXCEPT !.status = IF length > MaxFrame THEN "DOWN" ELSE "CONTENT", !.read = 0]

\* The loop of push_socket_data over the size bytes that are left, u[2] of u; behind
\* the last message there are none.
Parse(lengths) ==
  LET after[u \in Parsers \X Nat] ==
        LET p      == u[1]
            size   == u[2]
            length == lengths[p.count + 1]
            need   == (IF p.status = "HEADER" THEN 4 ELSE length) - p.read
        IN  IF size = 0 \/ p.status = "DOWN" \/ p.count >= Len(lengths) THEN p
            ELSE IF size < need THEN [p EXCEPT !.read = @ + size]
            ELSE after[<<Complete(p, length), size - need>>]
  IN  after

\* close_harbor frees the queue; fd keeps its value.
Close(r, s) ==
  /\ slaves' = [slaves EXCEPT ![r] = [s EXCEPT !.status = "DOWN", !.queue = <<>>]]
  /\ alive' = [alive EXCEPT ![r] = FALSE]

ParseInto(r, s, size) ==
  LET at == [status |-> s.status, read |-> s.read, count |-> forwarded[r]]
      p == Parse(Inbound[r])[<<at, size>>]
      t == [s EXCEPT !.status = p.status, !.read = p.read]
  IN  /\ forwarded' = [forwarded EXCEPT ![r] = p.count]
      /\ heard' = [heard EXCEPT ![r] = @ + size]
      /\ IF p.status = "DOWN" THEN Close(r, t)
         ELSE slaves' = [slaves EXCEPT ![r] = t] /\ UNCHANGED alive

\* The first byte is the id of the other end: the queue is sent, and the rest of
\* the socket message is read.
RightId(r, size) ==
  /\ slaves[r].status = "HANDSHAKE"
  /\ SendRemote(r, slaves[r].queue)
  /\ ParseInto(r, [slaves[r] EXCEPT !.status = "HEADER", !.queue = <<>>], size)
WrongId(r) ==
  /\ slaves[r].status = "HANDSHAKE"
  /\ gone' = gone \cup Numbers(slaves[r].queue)
  /\ Close(r, slaves[r])
  /\ UNCHANGED <<wire, heard, forwarded>>
ReadOn(r, size) ==
  /\ slaves[r].status \in {"HEADER", "CONTENT"}
  /\ size > 0
  /\ ParseInto(r, slaves[r], size)
  /\ gone' = gone \cup (IF slaves'[r].status = "DOWN" THEN Numbers(slaves[r].queue) ELSE {})
  /\ UNCHANGED wire

\* The bytes of the first n messages of r.
Extent(r, n) ==
  LET end[k \in 0..Len(Inbound[r])] == IF k = 0 THEN 0 ELSE end[k - 1] + 4 + Inbound[r][k]
  IN  end[n]

\* SKYNET_SOCKET_TYPE_DATA, until the socket is reported closed.
PushSocketData(r) ==
  /\ slaves[r].fd /\ <<"D", r>> \notin told
  /\ \/ \E size \in 0..MaxPiece :
          /\ heard[r] + size <= Extent(r, Len(Inbound[r]))
          /\ RightId(r, size) \/ ReadOn(r, size)
     \/ WrongId(r)
  /\ UNCHANGED <<names, sends, home, refused, told>>

\* SKYNET_SOCKET_TYPE_CLOSE and ERROR: the slave service is told, and that is all.
SocketClosed(r) ==
  /\ slaves[r].fd /\ ~alive[r] /\ <<"D", r>> \notin told
  /\ told' = told \cup {<<"D", r>>}
  /\ UNCHANGED <<slaves, names, sends, wire, alive, home, gone, refused, heard, forwarded>>

\* The connection breaks.
Break(r) ==
  /\ alive[r]
  /\ alive' = [alive EXCEPT ![r] = FALSE]
  /\ UNCHANGED <<slaves, names, sends, wire, home, gone, refused, told, heard, forwarded>>

HarborNext ==
  \/ \E r \in Peers : \/ SendHandle(r) \/ ConnectTo(r) \/ Accept(r)
                      \/ PushSocketData(r) \/ SocketClosed(r) \/ Break(r)
  \/ \E x \in Names : SendName(x) \/ \E r \in HarborIds : UpdateName(x, r)

HarborSpec == HarborInit /\ [][HarborNext]_harborVars

-----------------------------------------------------------------------------
(* Properties.                                                             *)

HarborTypeOK ==
  LET Letters == [n : 1..MaxSends, to : Names \cup HarborIds, dest : HarborIds \cup {0}]
  IN
  /\ slaves \in [HarborIds -> [fd : BOOLEAN, queue : Seq(Letters), read : Nat,
                               status : {"WAIT", "HANDSHAKE", "HEADER", "CONTENT", "DOWN"}]]
  /\ names \in [Names -> [value : HarborIds \cup {0}, queue : Seq(Letters)]]
  /\ sends \in 0..MaxSends
  /\ wire \in [HarborIds -> Seq(Letters)]
  /\ alive \in [HarborIds -> BOOLEAN]
  /\ home \cup gone \cup refused \subseteq 1..sends
  /\ told \subseteq ({"Q"} \X Names) \cup ({"D"} \X HarborIds)
  /\ heard \in [HarborIds -> Nat] /\ forwarded \in [HarborIds -> Nat]

\* Where messages wait or went, and what is there.
Holders == (Names \X {"name"}) \cup (HarborIds \X {"queue", "wire"})
Stores ==
  [p \in Holders |-> IF p[2] = "name" THEN names[p[1]].queue
                    ELSE IF p[2] = "queue" THEN slaves[p[1]].queue
                    ELSE wire[p[1]]]

Distinct(stores) ==
  \A p, q \in DOMAIN stores : \A i \in DOMAIN stores[p], j \in DOMAIN stores[q] :
    stores[p][i].n = stores[q][j].n => p = q /\ i = j

OnePlace ==
  LET stores == Stores
      ended  == home \cup gone \cup refused
  IN  /\ Distinct(stores)
      /\ UNION {Numbers(stores[p]) : p \in Holders} = (1..sends) \ ended
      /\ home \cap gone = {} /\ refused \cap (home \cup gone) = {}

ForCause ==
  /\ \A x \in Names : names[x].queue # <<>> => names[x].value = 0 /\ <<"Q", x>> \in told
  /\ \A r \in HarborIds : slaves[r].queue # <<>> => slaves[r].status \in {"WAIT", "HANDSHAKE"}
  /\ gone # {} => \E r \in Peers : ~alive[r]

\* Every message is in exactly one place, and waits only for the answer to a query
\* of its name or for the check of its harbor's connection; none is dropped before
\* a connection is lost.  The queues are handed over in dispatch_name_queue,
\* dispatch_queue and close_harbor, which free what is left in them.
NoneForgotten == OnePlace /\ ForCause

InOrder(ms) ==
  \A i, j \in DOMAIN ms : i < j /\ ms[i].to = ms[j].to => ms[i].n < ms[j].n

\* What was sent to one handle, or to one name, goes out to a harbor in the order
\* it was sent: through queues first, and past them once they are empty
\* (remote_send_handle, dispatch_queue, dispatch_name_queue).
OrderKept == \A r \in HarborIds : InOrder(wire[r])

\* However a stream is cut into socket messages, push_socket_data passes on the
\* messages that are complete, up to one that is too long.
FramesWhole ==
  \A r \in HarborIds :
    forwarded[r] = Cardinality({n \in DOMAIN Inbound[r] :
                                  /\ Extent(r, n) <= heard[r]
                                  /\ \A i \in 1..n : Inbound[r][i] <= MaxFrame})

\* Line 10 of service_harbor.c says of S: "recv a id (check it), and at last send
\* queue".  dispatch_name_queue asks for fd only, and sends at once.
QueueAfterCheck ==
  \A r \in HarborIds : slaves[r].status = "HANDSHAKE" => wire[r] = <<>>

=============================================================================
