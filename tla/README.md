# A verification development for Jump

Jump is a game server framework: a copy of the skynet actor kernel (C), its Lua
libraries and services, and a game zone (C++) whose services run inside the
kernel. This directory holds TLA+ modules that model the kernel, its socket
server, its harbor service, the Lua runtime and the game service, TLC configurations that check them
on small instances, and proofs for every instance. Paths below are relative to `src/server/`; `K` is `skynet/skynet-src`.

## 1. Inventory

### The kernel (`K`)

| Component | State | Operations | What makes it correct |
|---|---|---|---|
| Services, `skynet_server.c` | context: reference count, handle, init flag, mailbox; number of contexts | `skynet_context_new`, `_grab`, `_release`, `_push`, `skynet_send`, `skynet_context_message_dispatch`, kernel commands | one callback of a service at a time; a context lives while referenced and is deleted once; the count is 0 only when nothing is left |
| Mailboxes, `skynet_mq.c` | ring buffer, `in_global`, `release`, overload; global list of mailboxes | `push`, `pop`, `mark_release`, `release`, `globalmq_push/pop` | a mailbox with messages is scheduled, once; FIFO; freed when its service is gone |
| Handle storage, `skynet_handle.c` | hash table, handle counter, sorted names, under a rwlock | register, retire, retireall, grab, namehandle, findname | lookups find exactly the live services while the table grows and the counter wraps |
| Timer, `skynet_timer.c` | wheel of five arrays of lists, 32 bit time | `skynet_timeout`, `skynet_updatetime` | a timer fires once, at its time, in order |
| Threads, `skynet_start.c` | mutex, condition, `sleep`, `quit` | worker loop, timer, socket and monitor loops | no work waits with all workers asleep; all threads end after the last context |
| Lock, `rwlock.h` | two counters | rlock, wlock, unlocks | a writer is alone; a writer that came gets in |
| Monitor, `skynet_monitor.c` | version, source, destination per worker | trigger, check | a callback that never ends is reported |
| Sockets, `socket_server.c`, `skynet_socket.c` | socket slots, two write lists each, control pipe, events of epoll | open, listen, bind, udp, start, send, close, poll | messages leave whole and in order, waiting data is waited for, every end is reported, requests and events reach the socket they are for |
| Harbor, `skynet_harbor.c`, `service-src/service_harbor.c`, `cmaster.lua`, `cslave.lua` | remote nodes, global names, queued messages | connect, handshake, forward, update name | a message to a remote waits for its connection and keeps its order; streams are cut into whole messages |
| Gate, `service-src/service_gate.c` | connections by socket id | open, data, forward, close | packets are whole and go to the agent in charge |

### Above the kernel

* Lua runtime (`lualib/skynet.lua`): sessions that match answers to waiting
  coroutines, `skynet.queue` critical sections, fork and wakeup; whoever waits is
  found, and the section is exclusive across yields. Socket channels
  with reconnection, cluster, shared data with reference counts, multicast
  groups, datacenter with waiting readers, launcher and service manager.
* Game zone (`zone/`): a dispatcher service that routes client packets; a game
  service whose transactions (login, register) call redis asynchronously and
  keep online players in `PlayerDataMgr`, a table in a memory pool under a lock.
  Names and uids are unique, a role belongs to whoever registered it, and a
  profile that is found is loaded.
* Memory pools (`comm/mem_pool`): fixed and hashed pools in one block of memory;
  a hashed pool is a map with a capacity. An LRU hash is included by nothing.
* Third party code (Lua, lpeg, yac, libxl, redox), tools, tables and examples
  carry no protocol of this program and are left out.

### How the parts interact

Worker threads pop mailboxes from the global queue, look their service up in the
handle storage, and run its callback on the messages. The callback calls back
into the kernel: it sends (grab by handle, push, release), launches
(`skynet_context_new` runs the new service's init in the caller's thread), kills
(retire by handle) and sets timers. The timer and socket threads send messages
like any service, and wake sleeping workers. All of this shares five locks: one
per mailbox, one for the global queue, one for the handle storage, one for the
timer, one mutex for sleeping workers; contexts are kept alive by atomic
reference counts and outlive the locks.

A service sends to sockets through a pipe that the socket thread reads; the one
thing workers do to a slot themselves is to reserve it, by an atomic change of its
type. A Lua service is one actor: a message resumes a coroutine, and what it wakes
or forks is resumed before the next message. The game service runs in a worker,
and the callbacks of its redis client in the event loop of redox, a thread of its
own: the two share the transactions, which delete themselves, and the player pool.

### What is hard

Interleavings of push, dispatch, kill and reclamation of one service; failing
launches; the pointer arithmetic of growing tables; wrap of counters; lost
wakeups; the end of the process; requests and events that outlive the socket they
are for; coroutines that are woken, time out and fail at once; transactions that
two threads use and one deletes, over a data base that fails half way. `PROJECT.json` lists the hazards line by line
with the properties that guard against each.

## 2. Modules

| Module | Models | Composes |
|---|---|---|
| `SkynetDispatch` | services, mailboxes, global queue, workers | implements `ActorMailbox` |
| `ActorMailbox` | abstract: FIFO mailboxes, one message at a time, accepted messages handled or discarded | |
| `SkynetRefs_proofs`, `SkynetActors_proofs` | theorems about `SkynetDispatch`, the second module on top of the first | |
| `SkynetHandle` | handle storage with names and `retireall` | |
| `SkynetHandle_proofs` | theorems about `SkynetHandle` | |
| `SkynetTimer` | the timer wheel | implements `TimerQueue` |
| `TimerQueue` | abstract: each timer fires at its time, in the order set | |
| `SkynetStart` | threads, sleep and wakeup, shutdown | |
| `SkynetStart_proofs` | theorems about `SkynetStart` | |
| `MessageQueue` | ring buffer of one mailbox, overload alerts | implements `Fifo` |
| `Fifo` | abstract: a sequence | |
| `RWLock` | the reader-writer spin lock | |
| `Parts_proofs` | theorems about `MessageQueue`, `RWLock` and `Harbor` | |
| `SocketServer` | slots, pipe, events and write lists of the socket server | |
| `SocketServer_proofs` | theorems about `SocketServer` | |
| `SkynetLua` | coroutines and sessions of one Lua service, `skynet.queue` | |
| `SkynetLua_proofs` | theorems about `SkynetLua` | |
| `GameZone` | registration and login, player pool, redis | |
| `GameZone_proofs` | theorems about `GameZone` | |
| `HashMemPool` | the hashed pool over the fixed pool | implements `PoolMap` |
| `PoolMap` | abstract: a map with a capacity | |
| `Harbor` | the harbor service: queues of harbors and names, connections, incoming streams | |
| `MC_Parts` | instance of `MessageQueue`, `RWLock`, `SkynetTimer`, `HashMemPool`, `Harbor`: each behaviour is about one of them | |
| `MC_Tables` | instance of `SkynetHandle` and `SkynetLua`, in the same way | |
| `MC_Node` | instance of `SkynetDispatch` and `SkynetStart` with their fairness, in the same way | |
| `MC_*` | the other instances for TLC | |

The next-state relations of modules that share an instance have names of their own
(`LockNext`, `TimerNext`, `PoolNext`, `HarborNext`, `LuaNext`, `ThreadsNext`).

Definitions named `Bug...` are wrong variants of the definition that follows
them. No specification uses them; substituted for it they show that each
property can fail.

### SkynetDispatch

The core. One step is one section under a spin lock, or one atomic
read-modify-write; a section that takes the global queue's lock inside a
mailbox's lock is one step, since whoever looks at that mailbox takes its lock
first. Control points `pc[t]` name the places between such sections in
`skynet_context_new`, `skynet_context_message_dispatch` and `skynet_mq_release`;
`op[t]` names those inside `skynet_context_push` and `skynet_context_release`,
which any of them may call.

| Code | Actions |
|---|---|
| `skynet_context_push` | `Send` / `Log` / `Bounce` (grab), `MqPush`, `ContextRelease` |
| `skynet_context_release`, `delete_context` | `ContextRelease`, `MarkRelease`, `DeleteContext` |
| `skynet_handle_retire` by kill, exit, abort | `Kill`, `ContextRelease` |
| `skynet_context_new` | `Launch`, `Publish`, `MqCreate`, `InitReturns`, `SetInit`, `Enqueue`, `Report`; failing: `InitFails`, `FailRelease`, `FailRetire` |
| `skynet_context_message_dispatch` | `GlobalPop`, `Take`, `PopMessage`, `SizeBatch` (the length, in a locked section of its own), `PopEmpty`, `CallbackReturns`, `Rotate`, `PushBack`, `Return` |
| `skynet_mq_release`, `_drop_queue`, `drop_message` | `MqRelease`, `DropMessage`, `Bounce`, `ReleaseMq` |

Abstractions: messages carry their source and whether they are error replies;
services are identified with their handles and a handle is not used again (reuse
is in `SkynetHandle`); a service that is being launched does not itself launch
from its init; the log lines of the dispatcher about overload are left out
(those about launches are sent to the logger, as in the code); the extra
reference of the harbor service is left out. Nobody sends to a handle before its
mailbox exists: `ctx->queue` is not yet set between `skynet_handle_register` and
`skynet_mq_create`, and nobody has been told the handle.

Properties: `ScheduledOnce`, `FlagMeansPlaced` and `NoLostWakeup` relate the flag
`in_global`, the list and the workers' hands; `OneDispatcher`; `RefCountExact`
(the count is the number of slots, creators, dispatchers and calls that hold a
reference); `ContextSafe` and `MailboxSafe` (nothing is used after it is freed);
`CodeAssertions`; `AbortMeansEmpty`; `Served` and `Reclaimed` (liveness);
`ImplementsActors` (refinement).

### SkynetHandle

One step per section under the rwlock; `ctx->handle` is assigned in a step of its
own (`Publish`), as in `skynet_context_new`. `retireall` is one step per read and
per retire. Names are numbers ordered like `strcmp`; the binary search is the
code's, as a recursive function of the pair of `begin` and `end`, and
`NamesWithout` is the loop of `skynet_handle_retire` that moves the names that stay
together. Any service that is there may be retired; names are given to services that
are there and to handles somebody may have kept (`Learnt`). The harbor id in the upper
byte of a handle is left out, as in a process with harbor 0. History variables: the
handles given since the counter wrapped, and the handles a running sweep must retire.

### SkynetTimer

The wheel with its widths as constants (8 bits near, 4 levels of 6 bits in the
code), so that the wrap of the time is reached. `timer_execute` takes a list
under the lock and dispatches it node by node outside, with new timers set in
between. The wall clock and a clock that steps back are left out. Delays are
positive; delay 0 is sent at once by the code.

### SkynetStart

Workers loop through test, dispatch, lock, test, wait, wake, unlock; the timer
thread through update, abort test, wakeup, and its exit sequence. The state of
the services is reduced to two numbers: mailboxes `ready`, contexts `alive`. `point` is
the control point of a worker and `hand` the mailbox it goes on with. Signals
wake one waiting worker or are lost; waits may end spuriously. `SleepExact`: the number
that `wakeup` compares without the mutex is that of the workers that sleep, whichever
way they take through the wait; `Woken` and `Returns` are the liveness properties.
`ServicesOutlived` and `QuitIsHeard` are proved.

### MessageQueue

The array with `head`, `tail`, `cap`, doubling at `head = tail`, the overload
length and its threshold. Implements `Fifo` with the sequence between head and
tail.

### RWLock

One step per access to `write` or `read`. The other modules rely on its
mutual exclusion when they make a section under it one step.

### SocketServer

Slots with type, id and the two write lists; requests in the pipe; the batch of
events epoll has returned. Services touch a slot only in `reserve_id`, here in its
two steps, the type (`Reserve`) and the id with the request (`Publish`). A handler
of the socket thread is one step, except that `clear_closed_event` is a step of its
own: between `force_close`, which frees the slot, and it, a worker may reserve the
slot again. A message is a number and has `Size` parts, a write takes any number of
them. `stale` is a history variable: a request or an event of an earlier socket was
taken for one of the slot's. `phase` follows `socket_server_poll`: requests (`cmd`), the
first event of a batch, handled in the turn of `sp_wait` (`first`), the rest (`batch`).

What speaks of slots holds until `stale`; `StreamOrder` always. `WriteArmedUnlessBound`:
who has data, connects or is half-closed is in epoll for writing. Sockets made by bind
are exempt, since for them this is false: `DataAwaited`, without the exemption, is
violated (`socket_bind`). `NoIdleEvents`: the event is given up once nothing is left to
write, for every socket. `EndsReported` exempts only UDP sockets that could not be added
to epoll (sort "F"): the code frees their slot and says nothing. It also says
that what has been reported closed or failed is not in its slot any more, so no handler
can report its end, or its data, again. A request about a socket that is gone is answered with one more
report, as in the code; the errors of a failed accept and of a wrong protocol in
`set_udp_address` leave the socket as it is and are not ends. For `EndsReported` the
condition is needed with two workers: a send and two closes of the slot's earlier sockets that arrive
while it is being reserved make it half-closed and then free, and the socket that
`Publish` then tells its owner of is gone without a report.

Left out: owners, addresses and options (the requests 'C' and 'T' only change
those), received data and its buffer size, a `reserve_id` that finds no slot, the
wrap of `alloc_id`. Services do not send to an id they listen on.

### Harbor

The harbor service of one process, a service of its own: every message it gets is one
step. `SendHandle` and `SendName` are `remote_send_handle` and `remote_send_name`;
`UpdateName`, `ConnectTo` and `Accept` the commands N, S and A of the slave service;
`PushSocketData` the data of a socket, with the check of the id (`RightId`, `WrongId`)
and the parser (`Parse`, a recursive function over the bytes that are left);
`SocketClosed` the report of a closed socket. `Break` is the network. A message is the
number of its sending, so where each one is can be followed: in the queue of a name or a
harbor, on a wire, at home, freed or refused. `fd` stays when a connection closes, as in
the code. Of an incoming stream the lengths are kept: a socket message brings any number
of bytes.

The slave service may connect each harbor once and tell names at any time and again: that
is all Harbor relies on. Left out: the contents of messages and their sources, the error
sent back when a message arrives for no service, refused commands, `harbor_release`.

### SkynetLua

One Lua service and one closure of `skynet.queue`. The service is one thread:
`turn` says whether it waits for a message, runs a coroutine, or is in
`dispatch_wakeup`, `dispatch_error_queue` or the loop over `fork_queue`. What a
coroutine does between two yields is any sequence of `skynet.call`, `sleep`,
`wait`, `wakeup`, `timeout`, `fork`, entering and leaving the section, an error that
nobody catches, and its end. An error leaves `suspend` at once, from any depth of
it (`Thrown`), so what was still to be woken or told of an error stays in its
queue: this is where the hazards are. The tables are functions, as in Lua partial;
`pairs` gives any order (`Orders`).

Left out: the answers to requests and the tables for them, `skynet.exit`. The step
`LuaIdle` is a service nobody sends to.

### GameZone

The worker runs `Enter` of one transaction after the other, the event loop of redox
the callbacks; redis is modelled from how it is used: it obeys the commands in
order, and a command may fail, executed or not. A profile is the transaction that
made it. A node of the pool holds nothing useful (`empty`) between `Add` and the
assignment of the profile. `crash` records why the process died: NULL used as a
profile, the freed buffer of `sendToClinet` (taken at once, in `Tell`), or a
transaction used after it deleted itself.

Left out: the account record that is stored beside the profile, zones, the delivery
of answers. The read and the write section of `PlayerDataMgr::Add` are one step:
only the event loop adds and deletes.

### HashMemPool

Buckets, chains and the free list as in the code, addressed by node; `Alloc`, `Get`
and `Free` are one step each (their callers hold a lock). Implements `PoolMap`.
Attaching to a block that has survived a restart is left out: the game server takes
the memory with new and says why (`player_data_mgr.cpp:82`).

## 3. Runs

| Run | Bounds | Shows |
|---|---|---|
| `dispatch` | 2 services (one the logger), 2 workers of weight 0, alike (symmetry), 1 client, senders hold back at a non-empty mailbox | the safety properties of `SkynetDispatch` and `ImplementsActors`, 1.4 million states |
| `live` | scheduler: 1 worker of weight -1 (one message a turn), 1 client. Threads: 2 workers, 2 ready mailboxes, 1 context | `Served`, `Reclaimed`; `SleepExact`, `Woken`, `Returns` |
| `launch_result` | as `dispatch` | counterexample, see Findings |
| `tables` | handle storage: 3 contexts, 2 threads, table of 2 slots that doubles, 2 bit counter that wraps, 2 names. Lua: 3 coroutines, 1 service, 3 sessions, section entered up to 2 levels | the storage's properties (`GrabFinds`, `RetireAllComplete`, `FreshHandles`, `NamesExact`) and those of the coroutines (`QueueExclusive`, `WaitersKept`, `StrandedOnlyByErrors`), 2.8 million states. Symmetry of the contexts, memory blocks that are only compared |
| `handle_expand` | two launchers | counterexample, see Findings |
| `parts` | queue: 2 messages, 2 slots at first, up to 4 queued, alert above 1. Lock: 3 threads. Wheel: 2 timers, 5 bit time in 1 + 4 x 1 bits, up to 2 ticks an update. Pool: 3 nodes, 2 buckets, 4 keys. Harbor: one other harbor, 2 names, 2 messages out, 2 messages in, the second too long | `IsFifo`, `AlertsGrow`; `Exclusion`, `WriterEnters`; `KeepsPromise` (implements `TimerQueue`), `Fires`; `IsMap` (implements `PoolMap`); `NoneForgotten`, `OrderKept`, `FramesWhole` |
| `harbor_check` | one other harbor, 3 messages out | counterexample, see Findings |
| `socket` | 1 worker, 2 slots, 3 ids (the third takes the slot of the first), 2 messages of 2 parts, 1 request in the pipe | `StreamOrder`, `WriteArmedUnlessBound`, `NoIdleEvents`, `AssertsOnlyOnReuse`, `EndsReported` |
| `socket_bind` | as `socket` | counterexample, see Findings |
| `socket_reuse` | as `socket` | counterexample, see Findings |
| `zone` | 2 registrations, 2 logins, 2 names, 2 uids to log in with, pools of 1 and of 2 players | `OwnRoles`, `Answered` |
| `zone_profile` | as `zone` | counterexample, see Findings |

Why the bounds are enough to be interesting: two workers and a client put three
threads on one mailbox; the bound on senders is read before they grab the
context, so three messages can still be in one mailbox and a batch of several
messages occurs. With two services one is launched, killed, refused or dropped
while the other sends to it and it sends itself. The storage doubles its table
while a sweep walks it and names are set. The time of the wheel wraps, so each
cascade of each level occurs at each rotation. Two doublings of the ring start
at every head. The keys of the pool put three in one bucket, so that the head, the
middle and the end of a chain are freed. Two messages to two names meet
every order of naming, connecting and breaking, and a stream is cut at any byte. One of
the slots of the socket server is used twice, while requests and events for its first socket are under way; a message
of two parts is cut by a partial write. Three coroutines are one inside the section
and two that wait for it, or one that wakes, one that is woken and one that holds
the section; three sessions let one coroutine wait again while what it waited for
first still comes. Two registrations want the same name, a login the uid of one of
them, and with a pool of one player the second finds it full.

Deadlock is not checked in the socket runs, where the socket thread waits for ever
or has ended, nor in the zone runs, where the process dies or all is done.

Fairness. Threads run (weak fairness of each thread's own steps; the timer
thread signals sleeping workers every 2.5 ms, `thread_timer`). In `live`
a callback and an init function do not call the kernel for ever: strong fairness
of their return. In `SkynetStart` a mutex that is free again and again is got
(strong fairness of the lock steps), nobody relies on socket events or spurious
wakeups, and signals are not assumed to arrive. In `RWLock` the section under the
lock ends. In `GameZone` redis answers or the connection fails, and redox calls
back either way; the worker is not assumed to run. The liveness of closing sockets
is not checked: a half-closed socket waits for its peer for ever.

## 4. Findings

* `launch_result`: `skynet_context_new` uses the pointer it got from
  `skynet_context_release` after giving its reference away; another worker can
  free the context first.
* `handle_expand`: two concurrent launches can fail the assertion in
  `skynet_handle_register` (the table is doubled while one context still has
  handle 0).
* `socket_reuse`: a request for a closed socket that arrives between the two steps of
  `reserve_id` passes the test of the id and fails an assertion (`force_close`), or
  leaves data in the slot that fails one for the next socket.
* `socket_bind`: a message to a socket made by bind is put in its list, though the
  comment of `send_socket` has it written at once, and no writable event is asked for:
  it stays there until the socket is closed. If the close cannot send everything the
  socket stays half-closed.
* `zone_profile`: a login that finds its player in the pool between `Add` and the
  assignment of the profile is answered with an empty profile, though `GetProfile`
  promises loaded data.
* `harbor_check`: the messages of a name that becomes known while its harbor has been
  connected to and has not answered are sent before the answer is checked, though the
  head of the file puts the check first; the other end drops what comes that early.

Met while modelling, without a run of their own (the models contain them):

* After the handle counter has wrapped handle 0 is given out, which a comment reserves
  (`skynet_handle.c:49`, `:303`); without a harbor id it is no handle for names and
  commands, and `retireall` passes that service over for ever.
* `player_data_mgr.cpp:121`: `InitProfile` tests whether the profile could be allocated
  after `PlayerDataMgr::Add` has run the constructor on NULL; Login does not test
  (`crash` is `null` in the model, with the pool full and only then: `PoolFullOnly`).
* `service_harbor.c:394`: messages that move from the queue of a name to that of a harbor
  keep the destination 0; those of a name of this process are never sent.
* `service_harbor.c:588`: the error to the sender when a harbor is down is never sent,
  since `fd` stays set (`refused` stays empty in the model).
* `service_harbor.c:676`: a name of 16 characters can be sent to and never becomes known.
* `sendToClinet` passes a local array to `skynet_socket_send`, which keeps and frees
  it (`send_util.cpp:46`).
* `Register::Enter` uses the transaction after it has sent its command, when the
  callback may have deleted it (`register.cpp:108`).
* `queue.lua:16`: after a coroutine died with an error between `skynet.wakeup(X)` and
  the next yield, the wakeup stays; if X then waits for a busy section it is resumed
  at once and the assertion fails. `StrandedOnlyByErrors` says that it takes such an
  error; without that condition TLC finds the assertion violated.
* `skynet.lua:156`: after an uncaught error what was woken, the next waiter of the
  section included, and the calls that failed wait for another message.

Also seen, with no document to hold against it: a name set for a handle that is
already retired stays in the name table.

## 5. Proofs

Every theorem holds for every value of the constants that the named assumptions
allow.

| Theorem | Says | Assumes |
|---|---|---|
| `SkynetRefs_proofs!TypeCorrect` | `Spec => []TypeOK` | `DispatchAssumption`: disjoint finite sets of threads, `2 ^ Weight[w]` a positive number |
| `SkynetRefs_proofs!RefCountCorrect` | `Spec => []RefCountExact` | `DispatchAssumption` |
| `SkynetRefs_proofs!ContextsSafe` | `Spec => []ContextSafe` | `DispatchAssumption` |
| `SkynetActors_proofs!MailboxScheduledOnce` | `Spec => []ScheduledOnce` | `DispatchAssumption` |
| `SkynetActors_proofs!FlagExact` | `Spec => []FlagMeansPlaced` | `DispatchAssumption` |
| `SkynetActors_proofs!WakeupNeverLost` | `Spec => []NoLostWakeup` | `DispatchAssumption` |
| `SkynetActors_proofs!NeverTwoDispatchers` | `Spec => []OneDispatcher` | `DispatchAssumption` |
| `SkynetActors_proofs!MailboxesSafe` | `Spec => []MailboxSafe` | `DispatchAssumption` |
| `SkynetActors_proofs!AssertionsHold` | `Spec => []CodeAssertions` | `DispatchAssumption` |
| `SkynetActors_proofs!AbortIsSafe` | `Spec => []AbortMeansEmpty` | `DispatchAssumption` |
| `SkynetActors_proofs!SchedulerImplementsActors` | `Spec => ImplementsActors` | `DispatchAssumption` |
| `Parts_proofs!QueueIsFifo` | `Spec => IsFifo`: the ring implements `Fifo` | `QueueAssumption`: the initial size is at least 2 |
| `Parts_proofs!WriterAlone` | `LockSpec => []Exclusion` | `ThreadsFinite` |
| `Parts_proofs!FieldsTrue` | `LockSpec => []FieldsExact` | `ThreadsFinite` |
| `SkynetLua_proofs!QueueIsExclusive` | `LuaSpec => []QueueExclusive` | `LuaAssumption`: names apart, a number of sessions |
| `SkynetLua_proofs!NobodyForgotten` | `LuaSpec => []WaitersKept` | `LuaAssumption` |
| `SkynetLua_proofs!NobodyStranded` | `LuaSpec => []StrandedOnlyByErrors` | `LuaAssumption` |
| `GameZone_proofs!ZoneInvariant` | `ZoneSpec => []ZoneInv` | `ZoneAssumption`: names apart, uids are numbers |
| `GameZone_proofs!RolesAreOwn` | `ZoneSpec => []OwnRoles` | `ZoneAssumption` |
| `GameZone_proofs!PoolFullOnly` | `ZoneSpec => []NullOnlyWhenFull` | `ZoneAssumption` |
| `Parts_proofs!NothingForgotten` | `HarborSpec => []NoneForgotten` | `HarborAssumption`: ids are positive numbers, this harbor's among them; names are not numbers |
| `Parts_proofs!OrderIsKept` | `HarborSpec => []OrderKept` | `HarborAssumption` |
| `Parts_proofs!StreamsAreWhole` | `HarborSpec => []FramesWhole` | `HarborAssumption` |
| `SkynetHandle_proofs!HandleTypes` | `Spec => []TypeOK` | `HandleAssumption`: the number of handles is a power of 2 and a multiple of the first size of the table; names are numbers |
| `SkynetHandle_proofs!HandleInvariant` | `Spec => []HandleInv` | `HandleAssumption` |
| `SkynetHandle_proofs!HandlesFresh` | `Spec => FreshHandles` | `HandleAssumption` |
| `SkynetHandle_proofs!LookupInvariant` | `Spec => []LookupInv` | `HandleAssumption`; the table is not doubled between the two steps of a launch (`ExpandsAlone`) |
| `SkynetHandle_proofs!LookupsFind` | `Spec => []GrabFinds` | the same |
| `SkynetHandle_proofs!SweepsComplete` | `Spec => []RetireAllComplete` | the same |
| `SkynetHandle_proofs!CollisionsOnlyInLaunches` | `Spec => [][CollisionInLaunch]_vars` | the same |
| `SkynetHandle_proofs!OneLauncherFinds` | `Spec => [](GrabFinds /\ RetireAllComplete)` | `HandleAssumption`; one thread launches services |
| `SkynetHandle_proofs!NamesAreExact` | `Spec => NamesExact` | `HandleAssumption` |
| `SkynetStart_proofs!StartTypes` | `ThreadsSpec => []ThreadsTypeOK` | `StartAssumption`: the workers are finitely many, and at least one |
| `SkynetStart_proofs!NobodyEndsEarly` | `ThreadsSpec => []ServicesOutlived` | `StartAssumption` |
| `SkynetStart_proofs!SleepCounted` | `ThreadsSpec => []SleepExact` | `StartAssumption` |
| `SkynetStart_proofs!NobodyWaitsAfterQuit` | `ThreadsSpec => []QuitIsHeard` | `StartAssumption` |
| `SocketServer_proofs!SocketInvariant` | `Spec => []SocketInv` | `SocketAssumption` |
| `SocketServer_proofs!MessagesWholeInOrder` | `Spec => []StreamOrder` | `SocketAssumption` |
| `SocketServer_proofs!OnlyBoundDataIsForgotten` | `Spec => []WriteArmedUnlessBound`: sockets made by bind are exempt | `SocketAssumption` |
| `SocketServer_proofs!LastWritableEvent` | `Spec => NoIdleEvents` | `SocketAssumption` |
| `SocketServer_proofs!AssertionsHold` | `Spec => []AssertsOnlyOnReuse` | `SocketAssumption` |
| `SocketServer_proofs!EndsAreReported` | `Spec => []EndsReported` | `SocketAssumption` |

`TypeCorrect`. `TypeOK` is not inductive: a step applies a function to what its
thread has in hand, and only the control point tells that this is a service and
not the null pointer. The invariant proved is `ThreadInv`: `TypeOK`, `Hands`
(what `q`, `nq`, `cur`, `new` and `ret` are at each control point) and `Calls`
(where a kernel call may be in progress, and that it works on a service). It
speaks of one thread at a time, so each action is checked against its own thread
and the others are untouched: `HandFacts` gathers what the invariant says of one
thread, and `TypeStep`, `HandsStep` and `CallsStep` have one step per action.
That a batch never underflows, with a weight that is not negative, is `BatchNat`.

The other theorems about `SkynetDispatch` come from one invariant, `IInv`, built in
layers (`RefInv` in `SkynetRefs_proofs`, the others in `SkynetActors_proofs`). Each
layer is inductive once those below it are, and a step is always a step of one thread
`t`: the others keep
what they have (`StepsAlone`), so the work is to say what `t` takes up and gives
away.

* `RefInv` (`RefCountCorrect`, `ContextsSafe`): `ThreadInv`, `RefCountExact`,
  `ContextSafe` and `Newborns` (a service is launched by one thread, which finds
  its slot reserved). The count of a service splits into what the storage and `t`
  hold (`Held`) and what the others hold (`Others`, unchanged by the step, `Frame`).
  Most steps are `Balanced`: the count moves with `Held`, and nothing is taken up
  that the two did not have. The launch, the release of a last reference and the
  deletion are argued apart; the release is where the exact count is needed, since
  the thread that sees `ref = 1` must be the only one left.
* `MqInv` (`MailboxScheduledOnce`, `FlagExact`, `WakeupNeverLost`,
  `NeverTwoDispatchers`, `MailboxesSafe`): adds `ScheduledOnce`, `FlagMeansPlaced`,
  `MailboxSafe` and what they rest on. `Births`: there is a mailbox from
  `skynet_mq_create` on. `Seals`: a mailbox is marked by the thread that deletes
  its service, so by `ContextSafe` nobody who holds a reference ever meets a mark
  (`Unsealed`): this is why `skynet_mq_pop` may clear `in_global` without a look at
  `release`. `Flagged`: messages are only in flagged mailboxes. `Sources`: handles
  get around only once the mailbox exists, so a push never finds one that is not yet
  there. A step leaves a mailbox where it is (`StillSteps`), moves it between the
  queue and the hands of `t` (`GiveAway`, `TakeUp`), lets it go (`LetsGo`) or places
  it (`PushPlaces`, `MarkPlaces`, `CreatePlaces`).
* `IInv` (`AssertionsHold`, `AbortIsSafe`): adds `Initialised` (a published service
  that nobody is launching any more has been initialised) and `TotalExact`
  (`G_NODE.total` counts the contexts between `context_inc` and `context_dec`). That
  a service in the making keeps the process alive needs `MqInv` too: its launcher is
  in a callback, whose service is referenced, has its mailbox, and is counted.

`SchedulerImplementsActors`. The refinement mapping is `Life` (from the slot, the
mailbox's memory and its mark), the messages, and `Running`; the invariant is
`MqInv`. Most steps are silent (`SilentSteps`): they move references, mailboxes and
control points the services do not see. The others are one action of one actor
each, with the part of `MqInv` that makes the action possible: a push accepts since
its reference keeps the mark away (`PushAccepts`), the mark seals since the last
reference is gone (`MarkSeals`), a pop starts a message since nobody else
dispatches the service (`PopStarts`, from `ScheduledOnce`), and what is dropped or
freed has been marked (`DropDiscards`, `ReleaseVanishes`, from `Seals`). The proof
holds for more services than the run `dispatch` has, and needs it: with three, a
second worker can retire a service between `skynet_handle_register` and
`skynet_mq_create`, and its mailbox is then created for a service that is already
closed (`Create` of `ActorMailbox`).

`QueueIsFifo`. The invariant is `RingOK`: the indices lie in the array. It makes
`Contents` a sequence of the length `skynet_mq_length` computes (`ContentsSeq`).
`PushAppends` and `PopTakes` compare sequences element by element; for a push
that doubles the array this is where the copy from `head` on, with the index
taken modulo the old capacity (`ModOnce`), meets the index without wrapping in
the new array. Steps that only touch the alert change neither side.

`WriterAlone`, `FieldsTrue`. `Exclusion` alone is not inductive: a writer that
finds `read = 0` must know that no reader is in, and a reader that finds
`write = 0` that no writer is. `IInv` adds `ReadExact` (`read` counts the
announced readers, those about to back out included) and `OneClaimant` (`write`
is 1 exactly while one thread has or awaits the lock).

`QueueIsExclusive`, `NobodyForgotten`, `NobodyStranded`. Three layers, each inductive
once those below it are.

* `LuaIInv`: `QueueOK` is what `QueueExclusive` says with the types; it needs that only
  coroutines are resumed (`ResumedOK`), not the "BREAK" a woken sleeper leaves under its
  session. "BREAK" is left for timers only, and errors are reported for calls only
  (`SessionsOK`), so the two never meet.
* `WaitersIInv`: adds `WaitersKept`, that the place of a coroutine agrees with the tables
  (`PlacesOK`, `SleepersOK`) and that the calls watched are those waited for
  (`CallersOK`). `Resuming` is the common part of the five steps that resume somebody.
* `CleanIInv`: while no coroutine has ended with an error, what was woken is resumed
  before the turn ends and each failed call is told once (`DrainedOK`), nobody wakes
  those who wait for the section but who leaves it (`QueuedOK`), and the section is
  free, in use, or handed to one coroutine that has been woken (`HandoverOK`).

`RolesAreOwn`, `PoolFullOnly`. `OwnRoles` speaks of transactions that are over; `ZoneInv`
follows them on their way. `OneAtATime`: a transaction has one command, one reply or
the running callback, so a reply is for the stage its transaction is in.
`NamesTaken`: who has got a nil for its GETSET is the only one with its name, until the
end. `UidsCounted`, `UidSet`: a uid that is on its way to a registration is not above the
counter and nobody else's. With `OnlyPlayers` (who is in the pool or in redis was given
that uid) the branch of `GotUid` for a player that exists already is never taken, and a
new player never takes the place of another. `OwnNodes` and `CallbackOnItsNode`: the
event loop fills the node of its own player, which no registration holds, so
`RolesInPool` and `RolesStored` last.

`NothingForgotten`, `OrderIsKept`. The invariant is `HarborIInv`. `Good` keeps the books
of the messages under way, as sequences apart from the records they are in: each is in
one place, the line to a harbor (its wire, then its queue) is in order for each address,
and no message to a name that is not known is in a line yet (`Named`). The last is why
the queue of a name may be sent past that of its harbor, and why `OrderKept` survives
what `QueueAfterCheck` complains about. Each step adds a message, spends it, moves a
sequence to the end of another or drops one (`PutName` to `QueueDropped`), and `Waiting`
tells when a message may go past the queue: when it is empty. Nothing need be known of
what the parser finds here (`Parsed`): it leaves the socket and the queue, or closes the
harbor.

`StreamsAreWhole`. The invariant is `Framing`: before the check of the id nothing has been
read, and then the parser is where the bytes that were heard have got it to (`Reading`,
`At`), or has met a message that is too long (`Stuck`). That a piece of any size takes the
parser to the right place is `ParseRight`, by induction on the rounds of the loop that may
be left, two for each message; that there is a function that does the rounds at all
(`RoundsExist`) is proved in the same way, and so is what is needed of the ends of the
messages (`EndFacts`, `EndsGrow`). The induction theorems of the library take an operator
and cannot be used; `SetInduction` says the same of a set of numbers and follows from the
fact that the natural numbers are well-founded.

`HandlesFresh`, `LookupsFind`, `SweepsComplete`, `NamesAreExact`. The invariants come
in layers again.

* `HandleInv`: the types of all but the names, `Launches` (a context in the table is
  without a handle exactly while one launcher has it in hand) and `EverBelow` (the
  handles given since the counter wrapped are below it), which gives `FreshHandles`.
  The search for a slot is arithmetic: among as many handles in a row as the table has
  slots there is one for each slot (`Reach`), and the remainder by the number of handles
  does not change the slot (`ModOfMod`, since the size of the table divides it), so a
  table with a free slot is never searched in vain (`FreeTry`).
* `LookupInv` adds `Located` (each context is in the slot of its handle, or of the one
  it is about to get) and `Sweeps` (what a sweep must retire is still found, and as
  long as the pass has retired nobody it is in the slots ahead). Doubling: two handles
  that differ by the old size differ by the new one (`ModTwice`), so slot `k` goes to
  `k` or `k + Size`: two contexts never meet (`NoCollision`), and a sweep that is at
  slot `i` loses nothing that was ahead of it.
  Doubling while a context is in the table and has no handle yet moves that context to
  slot 0, where nobody finds it or it meets another: the run `handle_expand`. `LookupInv` is therefore
  proved of the behaviours where this does not happen (`ExpandsAlone`), and
  `OneLauncherFinds` shows that with one launching thread it never does. `Launches`
  and `FreshHandles` need no such thing.
* `Sorted`: the names are in order. `NamesExact` says what the binary search finds, a
  recursive function over the range that is left: the prover knows such a function only
  by its equation, once it exists (`ProbeExists`), and what it returns is shown by
  induction on the length of the range (`SearchAnswers`), by `SetInduction` again.
  `SortedInsert` and `InOrder` are about the insertion and about what
  `skynet_handle_retire` leaves.
* `Walks`, for `HandleTypes`: a sweep is within the table, which never shrinks
  (`TableGrows`).

`NobodyEndsEarly`, `SleepCounted`, `NobodyWaitsAfterQuit`. `StartInv`: besides the types, `SleepExact`
(`sleep` counts the workers between `++m->sleep` and `--m->sleep`, so what
`thread_timer` and `thread_socket` compare with is exact), `MutexExact`, `QuitIsHeard`
(a worker tests `quit` with the mutex in its hands, and it is set with the mutex in
the hands of the timer thread: whoever is about to wait either has seen it or is woken
by the broadcast) and `EndedFor` (who has ended, on which sign, and that the sign came
after the last context).

`MessagesWholeInOrder`, `OnlyBoundDataIsForgotten`, `LastWritableEvent`,
`AssertionsHold`, `EndsAreReported`.
`SocketInv` has two parts. `StreamInv` holds always, whatever socket a request finds: the
messages in the pipe are in the order of their numbers (`PipeOrder`); what has been
written with the high list behind it is whole messages, and so is the low list, each in the order sent, and all are older than what is in the pipe
(`Before`). A low message that is written in part must therefore go to the high list
before anything else is written: this is `raise_uncomplete`. `SlotInv` holds until
`stale`: a slot keeps data only in the types that may (`Fits`), a worker that reserves has
the slot for itself (`Holds`), a request finds the slot as its sender left it (`Waits`),
what is gone has been reported (`Reported`), and what is reported is gone (`Over`).
`Fits` also says who is in epoll for writing, with the exemption of bound sockets where
the theorem has it. `LastWritableEvent` speaks of steps: `StepDone` goes through those
that end an event, on top of `EvShape` (the batch is a function on the slots).

Only model-checked: liveness (fairness and `ENABLED` are beyond the prover); the
types of the alert fields of `MessageQueue`, whose threshold is multiplied by a
power of 2 that would need induction; `SkynetTimer` and `HashMemPool`, with their
refinements `KeepsPromise` and `IsMap`. The chains of the timer wheel and of the pool
are lists that are followed to their end: what is proved of them takes an induction
like that of the parser and of the binary search.
`LaunchResultLive`, `RegisterAssertions`, `QueueAfterCheck`,
`ProfileLoaded`, and `DataAwaited` and `CodeAssertions` of
`SocketServer` are false, see Findings.

## 6. What is left

In the order of what it would add:

1. `IsMap` and `KeepsPromise` as theorems, by induction over the chains of the pool and the
   lists of the wheel.
2. The answers to requests in `SkynetLua` (`skynet.response`, `watching_service`) and
   `skynet.exit`; the composition of two Lua services over `ActorMailbox`.
3. The gate service over `SocketServer`; two harbors with their slaves and the master.
4. Two processes of the game server, which share the semaphore of the player pool.

## 7. Not modelled

`PROJECT.json`, `components`, has every part and the reason. In short:

* Parts that keep no state of their own: `skynet_socket.c`, the dispatcher service, the
  encodings; `skynet_monitor.c`, whose findings are logged and readable by one command.
* Parts the game zone does not use: master and slave services, cluster, shared data, multicast,
  datacenter, socket channel and the data base drivers in Lua.
* Tables of waiting callers on top of what `SkynetLua` models: launcher, service manager.
* Input of configuration, dynamic loading, file and socket I/O proper; third party code
  (`3rd`, most of the lines of the repository), examples and tests.
