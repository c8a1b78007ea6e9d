--------------------------- MODULE SkynetDispatch ---------------------------
(***************************************************************************)
(* The scheduler of the skynet kernel: services (skynet_context), their    *)
(* mailboxes (message_queue), the global queue of runnable mailboxes and   *)
(* the worker threads that take a mailbox, run the callback of its service *)
(* on the messages and give the mailbox back.                              *)
(*                                                                         *)
(* Grain of atomicity: one step per section under a spin lock (the lock of *)
(* a mailbox, the lock of the global queue, the rwlock of the handle       *)
(* storage) and per atomic read-modify-write of a reference count.  A      *)
(* section that takes the global queue's lock inside a mailbox's lock is   *)
(* one step: whoever looks at that mailbox must take its lock first.       *)
(*                                                                         *)
(* A service is identified with its handle; a handle is never used twice   *)
(* here (module SkynetHandle is about the reuse of handles).               *)
(***************************************************************************)
EXTENDS Integers, Sequences, FiniteSets

CONSTANTS
  Services,   \* the services that may ever be launched (their handles)
  Boot,       \* the service the main thread launches first: the logger
  Workers,    \* the worker threads
  Clients,    \* timer, socket and monitor threads: they only send
  Weight,     \* Weight[w]: the batch weight thread start gives worker w
  MaxLen,     \* bound of the model: senders hold back at this mailbox length
  NoOne       \* the null pointer, and the handle 0

Threads == Workers \cup Clients

ASSUME DispatchAssumption ==
  /\ Boot \in Services
  /\ NoOne \notin Services
  /\ Workers \cap Clients = {}
  /\ IsFiniteSet(Workers) /\ IsFiniteSet(Clients) /\ IsFiniteSet(Services)
  /\ Weight \in [Workers -> Int]
  /\ \A w \in Workers : Weight[w] >= 0 => 2 ^ Weight[w] \in Nat \ {0}
  /\ MaxLen \in Nat

VARIABLES
  \* per service: handle storage, context and mailbox
  slot,       \* "no", "reserved" (ctx->handle still 0) or "published"
  ref,        \* ctx->ref
  ctx,        \* memory of the context: "none", "live", "freed"
  init,       \* ctx->init
  mem,        \* memory of the mailbox: "none", "live", "freed"
  msgs,       \* the messages in the mailbox
  inGlobal,   \* queue->in_global
  release,    \* queue->release
  globalQ,    \* the global queue Q
  total,      \* G_NODE.total
  \* per thread
  pc,         \* control point of the thread
  q,          \* the mailbox a worker got from the global queue
  nq,         \* the next mailbox, while q is not yet pushed back
  cur,        \* the context a worker grabbed to dispatch q
  budget,     \* messages still to dispatch in this batch
  new,        \* the service a worker is launching in skynet_context_new
  ret,        \* the context pointer skynet_context_new will return
  msg,        \* the message being dropped
  op,         \* the kernel call in progress: "none", "push", "release", ...
  arg,        \* ... the context it works on
  out         \* ... and the message it pushes

svcVars == <<slot, ref, ctx, init, total>>
mqVars  == <<mem, msgs, inGlobal, release, globalQ>>
runVars == <<pc, q, nq, cur, budget, new, ret, msg>>
opVars  == <<op, arg, out>>
vars    == <<svcVars, mqVars, runVars, opVars>>

Message == [src : Services \cup {NoOne}, kind : {"request", "error"}]
NoMsg   == [src |-> NoOne, kind |-> "request"]

PCs == {"idle", "take", "first", "next", "size", "callback", "rotate", "pushback",
        "done", "publish", "mqcreate", "init", "launched", "enqueue",
        "report", "failed", "failretire", "mqrelease", "drop", "bounce"}

-----------------------------------------------------------------------------
(* skynet_start: the main thread has launched Boot; its mailbox is in the  *)
(* global queue and the workers are about to enter their loop.             *)

Init ==
  /\ slot = [s \in Services |-> IF s = Boot THEN "published" ELSE "no"]
  /\ ref = [s \in Services |-> IF s = Boot THEN 1 ELSE 0]
  /\ ctx = [s \in Services |-> IF s = Boot THEN "live" ELSE "none"]
  /\ init = [s \in Services |-> s = Boot]
  /\ mem = [s \in Services |-> IF s = Boot THEN "live" ELSE "none"]
  /\ msgs = [s \in Services |-> <<>>]
  /\ inGlobal = [s \in Services |-> IF s = Boot THEN 1 ELSE 0]
  /\ release = [s \in Services |-> 0]
  /\ globalQ = <<Boot>>
  /\ total = 1
  /\ pc = [t \in Threads |-> "idle"]
  /\ q = [t \in Threads |-> NoOne]
  /\ nq = [t \in Threads |-> NoOne]
  /\ cur = [t \in Threads |-> NoOne]
  /\ budget = [t \in Threads |-> 0]
  /\ new = [t \in Threads |-> NoOne]
  /\ ret = [t \in Threads |-> NoOne]
  /\ msg = [t \in Threads |-> NoMsg]
  /\ op = [t \in Threads |-> "none"]
  /\ arg = [t \in Threads |-> NoOne]
  /\ out = [t \in Threads |-> NoMsg]

-----------------------------------------------------------------------------
(* The kernel calls a thread makes: send, and release of a context.        *)

\* The thread is in its own code, not inside a kernel call.
Free(t) == op[t] = "none"

\* The definitions named Bug... are wrong variants of the action that follows;
\* no specification uses them.  They are what the properties must catch.

\* The message is queued and the mailbox scheduled, in_global is forgotten.
BugPushForgetsFlag(t) ==
  LET d == arg[t] IN
  /\ op[t] = "push"
  /\ msgs' = [msgs EXCEPT ![d] = Append(@, out[t])]
  /\ globalQ' = IF inGlobal[d] = 0 THEN Append(globalQ, d) ELSE globalQ
  /\ op' = [op EXCEPT ![t] = "release"]
  /\ out' = [out EXCEPT ![t] = NoMsg]
  /\ UNCHANGED <<svcVars, mem, inGlobal, release, runVars, arg>>

\* skynet_context_push, first half: grab the context of d by its handle.
GrabToPush(t, d, m) ==
  /\ ref' = [ref EXCEPT ![d] = @ + 1]
  /\ op' = [op EXCEPT ![t] = "push"]
  /\ arg' = [arg EXCEPT ![t] = d]
  /\ out' = [out EXCEPT ![t] = m]

\* skynet_context_push, second half: skynet_mq_push.  A mailbox that was not
\* scheduled becomes so.
MqPush(t) ==
  LET d == arg[t] IN
  /\ op[t] = "push"
  /\ msgs' = [msgs EXCEPT ![d] = Append(@, out[t])]
  /\ IF inGlobal[d] = 0
     THEN /\ inGlobal' = [inGlobal EXCEPT ![d] = 1]
          /\ globalQ' = Append(globalQ, d)
     ELSE UNCHANGED <<inGlobal, globalQ>>
  /\ op' = [op EXCEPT ![t] = "release"]
  /\ out' = [out EXCEPT ![t] = NoMsg]
  /\ UNCHANGED <<svcVars, mem, release, runVars, arg>>

\* skynet_context_release.  The last reference goes on to delete_context.
ContextRelease(t) ==
  LET d == arg[t] IN
  /\ op[t] = "release"
  /\ ref' = [ref EXCEPT ![d] = @ - 1]
  /\ IF ref[d] = 1
     THEN /\ op' = [op EXCEPT ![t] = "mark"]
          /\ UNCHANGED <<arg, ret>>
     ELSE /\ op' = [op EXCEPT ![t] = "none"]
          /\ arg' = [arg EXCEPT ![t] = NoOne]
          /\ ret' = [ret EXCEPT ![t] = IF pc[t] = "launched" THEN d ELSE @]
  /\ UNCHANGED <<slot, ctx, init, total, mqVars, pc, q, nq, cur, budget, new,
                 msg, out>>

\* The mailbox is marked, and left where it is even when it is unscheduled.
BugMarkOnly(t) ==
  /\ op[t] = "mark"
  /\ release' = [release EXCEPT ![arg[t]] = 1]
  /\ op' = [op EXCEPT ![t] = "free"]
  /\ UNCHANGED <<svcVars, mem, msgs, inGlobal, globalQ, runVars, arg, out>>

\* delete_context: skynet_mq_mark_release, after the module's release.
MarkRelease(t) ==
  LET d == arg[t] IN
  /\ op[t] = "mark"
  /\ release' = [release EXCEPT ![d] = 1]
  /\ globalQ' = IF inGlobal[d] = 0 THEN Append(globalQ, d) ELSE globalQ
  /\ op' = [op EXCEPT ![t] = "free"]
  /\ UNCHANGED <<svcVars, mem, msgs, inGlobal, runVars, arg, out>>

\* delete_context: the context is freed and no longer counted.
DeleteContext(t) ==
  LET d == arg[t] IN
  /\ op[t] = "free"
  /\ ctx' = [ctx EXCEPT ![d] = "freed"]
  /\ total' = total - 1
  /\ op' = [op EXCEPT ![t] = "none"]
  /\ arg' = [arg EXCEPT ![t] = NoOne]
  /\ UNCHANGED <<slot, ref, init, mqVars, runVars, out>>

-----------------------------------------------------------------------------
(* What the code of a service does from its callback, or from its init     *)
(* while it is being launched: send, kill, launch.                         *)

\* skynet_error sends a line of text to the logger, if the logger is there.
Log(t, s) ==
  IF slot[Boot] = "published"
  THEN GrabToPush(t, Boot, [src |-> s, kind |-> "request"])
  ELSE UNCHANGED <<ref, opVars>>

InCode(t) == Free(t) /\ (t \in Clients \/ pc[t] \in {"callback", "init"})

Self(t) == IF t \in Clients THEN NoOne
           ELSE IF pc[t] = "init" THEN new[t] ELSE cur[t]

\* skynet_send to a local service.  Nobody knows the handle of a service
\* before its mailbox exists; a handle that is gone makes the call return -1
\* and changes nothing.
Send(t, d) ==
  /\ InCode(t)
  /\ slot[d] = "published" /\ mem[d] # "none"
  /\ Len(msgs[d]) < MaxLen
  /\ GrabToPush(t, d, [src |-> Self(t), kind |-> "request"])
  /\ UNCHANGED <<slot, ctx, init, total, mqVars, runVars>>

\* skynet_handle_retire of a registered handle: the slot is cleared under the
\* write lock, then the storage's reference is released.
Retire(t, d) ==
  /\ slot[d] = "published"
  /\ slot' = [slot EXCEPT ![d] = "no"]
  /\ op' = [op EXCEPT ![t] = "release"]
  /\ arg' = [arg EXCEPT ![t] = d]
  /\ UNCHANGED <<ref, ctx, init, total, mqVars, out>>

\* cmd_exit, cmd_kill and each round of cmd_abort.
Kill(t, d) ==
  /\ t \in Workers /\ InCode(t)
  /\ Retire(t, d)
  /\ UNCHANGED runVars

\* Only the storage is counted, not the creator that goes on using the context.
BugLaunchCountsOnce(t, s) ==
  /\ t \in Workers /\ InCode(t) /\ new[t] = NoOne
  /\ ctx[s] = "none"
  /\ ctx' = [ctx EXCEPT ![s] = "live"]
  /\ ref' = [ref EXCEPT ![s] = 1]
  /\ slot' = [slot EXCEPT ![s] = "reserved"]
  /\ new' = [new EXCEPT ![t] = s]
  /\ pc' = [pc EXCEPT ![t] = "publish"]
  /\ UNCHANGED <<init, total, mqVars, q, nq, cur, budget, ret, msg, opVars>>

\* skynet_context_new: a fresh context with two references enters the storage;
\* its handle is still 0, so no handle finds it.
Launch(t, s) ==
  /\ t \in Workers /\ InCode(t) /\ new[t] = NoOne
  /\ ctx[s] = "none"
  /\ ctx' = [ctx EXCEPT ![s] = "live"]
  /\ ref' = [ref EXCEPT ![s] = 2]
  /\ slot' = [slot EXCEPT ![s] = "reserved"]
  /\ new' = [new EXCEPT ![t] = s]
  /\ pc' = [pc EXCEPT ![t] = "publish"]
  /\ UNCHANGED <<init, total, mqVars, q, nq, cur, budget, ret, msg, opVars>>

\* ctx->handle = skynet_handle_register(ctx)
Publish(t) ==
  /\ pc[t] = "publish"
  /\ slot' = [slot EXCEPT ![new[t]] = "published"]
  /\ pc' = [pc EXCEPT ![t] = "mqcreate"]
  /\ UNCHANGED <<ref, ctx, init, total, mqVars, q, nq, cur, budget, new, ret,
                 msg, opVars>>

\* The new mailbox starts unscheduled, as an empty one would elsewhere.
BugCreateUnscheduled(t) ==
  /\ pc[t] = "mqcreate"
  /\ mem' = [mem EXCEPT ![new[t]] = "live"]
  /\ total' = total + 1
  /\ pc' = [pc EXCEPT ![t] = "init"]
  /\ UNCHANGED <<slot, ref, ctx, init, msgs, inGlobal, release, globalQ, q, nq,
                 cur, budget, new, ret, msg, opVars>>

\* The new context is counted later, not here.
BugCreateUncounted(t) ==
  /\ pc[t] = "mqcreate"
  /\ mem' = [mem EXCEPT ![new[t]] = "live"]
  /\ inGlobal' = [inGlobal EXCEPT ![new[t]] = 1]
  /\ pc' = [pc EXCEPT ![t] = "init"]
  /\ UNCHANGED <<slot, ref, ctx, init, total, msgs, release, globalQ, q, nq,
                 cur, budget, new, ret, msg, opVars>>

\* skynet_mq_create and context_inc.  in_global is set although the mailbox is
\* in no queue: a push must not schedule it before its service is initialised.
MqCreate(t) ==
  /\ pc[t] = "mqcreate"
  /\ mem' = [mem EXCEPT ![new[t]] = "live"]
  /\ inGlobal' = [inGlobal EXCEPT ![new[t]] = 1]
  /\ total' = total + 1
  /\ pc' = [pc EXCEPT ![t] = "init"]
  /\ UNCHANGED <<slot, ref, ctx, init, msgs, release, globalQ, q, nq, cur,
                 budget, new, ret, msg, opVars>>

\* The module's init function returns 0: the reference of skynet_context_new
\* is released.
InitReturns(t) ==
  /\ pc[t] = "init" /\ Free(t)
  /\ pc' = [pc EXCEPT ![t] = "launched"]
  /\ op' = [op EXCEPT ![t] = "release"]
  /\ arg' = [arg EXCEPT ![t] = new[t]]
  /\ UNCHANGED <<svcVars, mqVars, q, nq, cur, budget, new, ret, msg, out>>

\* It returns an error: that is logged first, and then the reference released.
InitFails(t) ==
  /\ pc[t] = "init" /\ Free(t)
  /\ pc' = [pc EXCEPT ![t] = "failed"]
  /\ Log(t, new[t])
  /\ UNCHANGED <<slot, ctx, init, total, mqVars, q, nq, cur, budget, new, ret,
                 msg>>

FailRelease(t) ==
  /\ pc[t] = "failed" /\ Free(t)
  /\ pc' = [pc EXCEPT ![t] = "failretire"]
  /\ op' = [op EXCEPT ![t] = "release"]
  /\ arg' = [arg EXCEPT ![t] = new[t]]
  /\ UNCHANGED <<svcVars, mqVars, q, nq, cur, budget, new, ret, msg, out>>

\* if (ret) ctx->init = true.  A write to a freed context changes nothing the
\* model speaks of.
SetInit(t) ==
  /\ pc[t] = "launched" /\ Free(t)
  /\ init' = IF ret[t] # NoOne /\ ctx[ret[t]] = "live"
             THEN [init EXCEPT ![ret[t]] = TRUE] ELSE init
  /\ pc' = [pc EXCEPT ![t] = "enqueue"]
  /\ UNCHANGED <<slot, ref, ctx, total, mqVars, q, nq, cur, budget, new, ret,
                 msg, opVars>>

\* The new mailbox is left to the first push to schedule.
BugEnqueueSkipped(t) ==
  /\ pc[t] = "enqueue"
  /\ new' = [new EXCEPT ![t] = NoOne]
  /\ pc' = [pc EXCEPT ![t] = "report"]
  /\ UNCHANGED <<svcVars, mqVars, q, nq, cur, budget, ret, msg, opVars>>

\* skynet_globalmq_push of the new mailbox.
Enqueue(t) ==
  /\ pc[t] = "enqueue"
  /\ globalQ' = Append(globalQ, new[t])
  /\ new' = [new EXCEPT ![t] = NoOne]
  /\ pc' = [pc EXCEPT ![t] = "report"]
  /\ UNCHANGED <<svcVars, mem, msgs, inGlobal, release, q, nq, cur, budget,
                 ret, msg, opVars>>

\* if (ret) skynet_error(ret, "LAUNCH ..."): this and the caller's inst->handle
\* read the handle through ret; then skynet_context_new is over.
Report(t) ==
  /\ pc[t] = "report"
  /\ IF ret[t] # NoOne THEN Log(t, ret[t]) ELSE UNCHANGED <<ref, opVars>>
  /\ ret' = [ret EXCEPT ![t] = NoOne]
  /\ pc' = [pc EXCEPT ![t] = "callback"]
  /\ UNCHANGED <<slot, ctx, init, total, mqVars, q, nq, cur, budget, new, msg>>

\* The failed launch: skynet_handle_retire, which finds nothing if somebody
\* else has retired the handle already, and then skynet_mq_release.
FailRetire(t) ==
  /\ pc[t] = "failretire" /\ Free(t)
  /\ pc' = [pc EXCEPT ![t] = "mqrelease"]
  /\ \/ Retire(t, new[t])
     \/ slot[new[t]] # "published" /\ UNCHANGED <<svcVars, mqVars, opVars>>
  /\ UNCHANGED <<q, nq, cur, budget, new, ret, msg>>

-----------------------------------------------------------------------------
(* thread_worker and skynet_context_message_dispatch.                      *)

\* skynet_globalmq_pop with no mailbox in hand; a worker that finds nothing
\* stays idle (module SkynetStart is about its sleep).
GlobalPop(w) ==
  /\ pc[w] = "idle" /\ w \in Workers
  /\ globalQ # <<>>
  /\ q' = [q EXCEPT ![w] = Head(globalQ)]
  /\ globalQ' = Tail(globalQ)
  /\ pc' = [pc EXCEPT ![w] = "take"]
  /\ UNCHANGED <<svcVars, mem, msgs, inGlobal, release, nq, cur, budget, new,
                 ret, msg, opVars>>

\* The context is found in the storage and used without a reference.
BugTakeUncounted(w) ==
  /\ pc[w] = "take"
  /\ \/ /\ slot[q[w]] = "published"
        /\ cur' = [cur EXCEPT ![w] = q[w]]
        /\ pc' = [pc EXCEPT ![w] = "first"]
     \/ /\ slot[q[w]] # "published"
        /\ pc' = [pc EXCEPT ![w] = "mqrelease"]
        /\ UNCHANGED cur
  /\ UNCHANGED <<svcVars, mqVars, q, nq, budget, new, ret, msg, opVars>>

\* skynet_handle_grab of the mailbox's handle: the service is dispatched, or it
\* is gone and the mailbox goes to skynet_mq_release.
Take(w) ==
  /\ pc[w] = "take"
  /\ \/ /\ slot[q[w]] = "published"
        /\ ref' = [ref EXCEPT ![q[w]] = @ + 1]
        /\ cur' = [cur EXCEPT ![w] = q[w]]
        /\ pc' = [pc EXCEPT ![w] = "first"]
     \/ /\ slot[q[w]] # "published"
        /\ pc' = [pc EXCEPT ![w] = "mqrelease"]
        /\ UNCHANGED <<ref, cur>>
  /\ UNCHANGED <<slot, ctx, init, total, mqVars, q, nq, budget, new, ret, msg,
                 opVars>>

\* in_global is cleared when a message is taken, not when none is left.
BugPopClearsFlag(w) ==
  /\ pc[w] \in {"first", "next"}
  /\ msgs[q[w]] # <<>>
  /\ msgs' = [msgs EXCEPT ![q[w]] = Tail(@)]
  /\ inGlobal' = [inGlobal EXCEPT ![q[w]] = 0]
  /\ pc' = [pc EXCEPT ![w] = "callback"]
  /\ UNCHANGED <<svcVars, mem, release, globalQ, q, nq, cur, budget, new,
                 ret, msg, opVars>>

\* skynet_mq_pop finds a message; the first one of a turn is the only one (n = 1),
\* unless the worker has a weight to size the batch with.
PopMessage(w) ==
  /\ pc[w] \in {"first", "next"}
  /\ msgs[q[w]] # <<>>
  /\ msgs' = [msgs EXCEPT ![q[w]] = Tail(@)]
  /\ budget' = [budget EXCEPT ![w] = IF pc[w] = "first" THEN 0 ELSE @ - 1]
  /\ pc' = [pc EXCEPT ![w] =
              IF @ = "first" /\ Weight[w] >= 0 THEN "size" ELSE "callback"]
  /\ UNCHANGED <<svcVars, mem, inGlobal, release, globalQ, q, nq, cur, new,
                 ret, msg, opVars>>

\* The loop bound without the test for a batch of no message.
BugBatchUnderflow(w, len) == len \div (2 ^ Weight[w]) - 1

\* n >>= weight: how many messages after the first one this turn may dispatch.
Batch(w, len) ==
  LET n == len \div (2 ^ Weight[w]) IN IF n = 0 THEN 0 ELSE n - 1

\* skynet_mq_length, with what has been pushed since the pop.
SizeBatch(w) ==
  /\ pc[w] = "size"
  /\ budget' = [budget EXCEPT ![w] = Batch(w, Len(msgs[q[w]]))]
  /\ pc' = [pc EXCEPT ![w] = "callback"]
  /\ UNCHANGED <<svcVars, mqVars, q, nq, cur, new, ret, msg, opVars>>

\* The context grabbed for this turn is released; then the loop goes on.
ReleaseCur(w) ==
  /\ op' = [op EXCEPT ![w] = "release"]
  /\ arg' = [arg EXCEPT ![w] = cur[w]]
  /\ cur' = [cur EXCEPT ![w] = NoOne]
  /\ pc' = [pc EXCEPT ![w] = "done"]

\* in_global stays set on a mailbox the worker lets go.
BugPopKeepsFlag(w) ==
  /\ pc[w] \in {"first", "next"}
  /\ msgs[q[w]] = <<>>
  /\ q' = [q EXCEPT ![w] = NoOne]
  /\ budget' = [budget EXCEPT ![w] = 0]
  /\ ReleaseCur(w)
  /\ UNCHANGED <<svcVars, mqVars, nq, new, ret, msg, out>>

\* skynet_mq_pop finds the mailbox empty: in_global is cleared in the same
\* section, and from then on a push schedules the mailbox again.
PopEmpty(w) ==
  /\ pc[w] \in {"first", "next"}
  /\ msgs[q[w]] = <<>>
  /\ inGlobal' = [inGlobal EXCEPT ![q[w]] = 0]
  /\ q' = [q EXCEPT ![w] = NoOne]
  /\ budget' = [budget EXCEPT ![w] = 0]
  /\ ReleaseCur(w)
  /\ UNCHANGED <<svcVars, mem, msgs, release, globalQ, nq, new, ret, msg, out>>

\* The callback returns: next message of the batch, or the end of the turn.
CallbackReturns(w) ==
  /\ pc[w] = "callback" /\ Free(w)
  /\ pc' = [pc EXCEPT ![w] = IF budget[w] > 0 THEN "next" ELSE "rotate"]
  /\ UNCHANGED <<svcVars, mqVars, q, nq, cur, budget, new, ret, msg, opVars>>

\* The worker stays with its mailbox as long as it has messages.
BugRotateStays(w) ==
  /\ pc[w] = "rotate"
  /\ ReleaseCur(w)
  /\ UNCHANGED <<svcVars, mqVars, q, nq, budget, new, ret, msg, out>>

\* End of the turn: take the next mailbox if there is one, else keep q.
Rotate(w) ==
  /\ pc[w] = "rotate"
  /\ IF globalQ # <<>>
     THEN /\ nq' = [nq EXCEPT ![w] = Head(globalQ)]
          /\ globalQ' = Tail(globalQ)
          /\ pc' = [pc EXCEPT ![w] = "pushback"]
          /\ UNCHANGED <<cur, op, arg>>
     ELSE /\ ReleaseCur(w)
          /\ UNCHANGED <<nq, globalQ>>
  /\ UNCHANGED <<svcVars, mem, msgs, inGlobal, release, q, budget, new, ret,
                 msg, out>>

\* skynet_globalmq_push(q); q = nq.
PushBack(w) ==
  /\ pc[w] = "pushback"
  /\ globalQ' = Append(globalQ, q[w])
  /\ q' = [q EXCEPT ![w] = nq[w]]
  /\ nq' = [nq EXCEPT ![w] = NoOne]
  /\ ReleaseCur(w)
  /\ UNCHANGED <<svcVars, mem, msgs, inGlobal, release, budget, new, ret, msg,
                 out>>

\* skynet_context_message_dispatch returns to thread_worker.
Return(w) ==
  /\ pc[w] = "done" /\ Free(w)
  /\ pc' = [pc EXCEPT ![w] = IF q[w] = NoOne THEN "idle" ELSE "take"]
  /\ UNCHANGED <<svcVars, mqVars, q, nq, cur, budget, new, ret, msg, opVars>>

-----------------------------------------------------------------------------
(* skynet_mq_release: for the mailbox of a service that is gone, and for   *)
(* the mailbox of a failed launch.                                         *)

Victim(w) == IF new[w] # NoOne THEN new[w] ELSE q[w]

\* Where the caller of skynet_mq_release goes on, its mailbox given away.
LeaveMqRelease(w) ==
  IF new[w] # NoOne
  THEN /\ new' = [new EXCEPT ![w] = NoOne]
       /\ pc' = [pc EXCEPT ![w] = "callback"]
       /\ UNCHANGED q
  ELSE /\ q' = [q EXCEPT ![w] = NoOne]
       /\ pc' = [pc EXCEPT ![w] = "idle"]
       /\ UNCHANGED new

\* The mailbox of a retired service is dropped at once.
BugReleaseAtOnce(w) ==
  /\ pc[w] = "mqrelease" /\ Free(w)
  /\ pc' = [pc EXCEPT ![w] = "drop"]
  /\ UNCHANGED <<svcVars, mqVars, q, nq, cur, budget, new, ret, msg, opVars>>

\* The mailbox is dropped if its context has been deleted; if somebody still
\* holds the context the mailbox waits in the global queue.
MqRelease(w) ==
  /\ pc[w] = "mqrelease" /\ Free(w)
  /\ IF release[Victim(w)] = 1
     THEN /\ pc' = [pc EXCEPT ![w] = "drop"]
          /\ UNCHANGED <<globalQ, q, new>>
     ELSE /\ globalQ' = Append(globalQ, Victim(w))
          /\ LeaveMqRelease(w)
  /\ UNCHANGED <<svcVars, mem, msgs, inGlobal, release, nq, cur, budget, ret,
                 msg, opVars>>

\* _drop_queue pops a message ...
DropMessage(w) ==
  LET v == Victim(w) IN
  /\ pc[w] = "drop" /\ Free(w)
  /\ msgs[v] # <<>>
  /\ msg' = [msg EXCEPT ![w] = Head(msgs[v])]
  /\ msgs' = [msgs EXCEPT ![v] = Tail(@)]
  /\ pc' = [pc EXCEPT ![w] = "bounce"]
  /\ UNCHANGED <<svcVars, mem, inGlobal, release, globalQ, q, nq, cur, budget,
                 new, ret, opVars>>

\* ... and drop_message reports the error to its source, if that is a service
\* and still there.
Bounce(w) ==
  LET s == msg[w].src IN
  /\ pc[w] = "bounce"
  /\ IF s # NoOne /\ slot[s] = "published"
     THEN GrabToPush(w, s, [src |-> Victim(w), kind |-> "error"])
     ELSE UNCHANGED <<ref, opVars>>
  /\ msg' = [msg EXCEPT ![w] = NoMsg]
  /\ pc' = [pc EXCEPT ![w] = "drop"]
  /\ UNCHANGED <<slot, ctx, init, total, mqVars, q, nq, cur, budget, new, ret>>

\* The mailbox is empty: _release frees it.
ReleaseMq(w) ==
  LET v == Victim(w) IN
  /\ pc[w] = "drop" /\ Free(w)
  /\ msgs[v] = <<>>
  /\ inGlobal' = [inGlobal EXCEPT ![v] = 0]
  /\ mem' = [mem EXCEPT ![v] = "freed"]
  /\ LeaveMqRelease(w)
  /\ UNCHANGED <<svcVars, msgs, release, globalQ, nq, cur, budget, ret, msg,
                 opVars>>

-----------------------------------------------------------------------------
KernelCall(t) == \/ MqPush(t) \/ ContextRelease(t)
                 \/ MarkRelease(t) \/ DeleteContext(t)

Launching(w) == \/ Publish(w) \/ MqCreate(w) \/ InitReturns(w)
                \/ InitFails(w) \/ SetInit(w) \/ Enqueue(w) \/ Report(w)
                \/ FailRelease(w) \/ FailRetire(w)

Dispatching(w) == \/ GlobalPop(w) \/ Take(w) \/ PopMessage(w) \/ PopEmpty(w)
                  \/ SizeBatch(w) \/ CallbackReturns(w) \/ Rotate(w) \/ PushBack(w) \/ Return(w)

Releasing(w) == \/ MqRelease(w) \/ DropMessage(w) \/ Bounce(w) \/ ReleaseMq(w)

\* The steps a thread takes by itself once it runs.
Progress(t) ==
  KernelCall(t) \/ Launching(t) \/ Dispatching(t) \/ Releasing(t)

\* The choices of the code the services run.
Choice(t) == \E d \in Services : Send(t, d) \/ Kill(t, d) \/ Launch(t, d)

\* Every worker waits for a signal and every mailbox is idle.
AllIdle == /\ globalQ = <<>>
           /\ \A t \in Threads : pc[t] = "idle" /\ Free(t)
           /\ UNCHANGED vars

Next == AllIdle \/ \E t \in Threads : Progress(t) \/ Choice(t)

Spec == Init /\ [][Next]_vars

\* Every thread keeps running (the timer thread signals a sleeping worker every
\* 2.5 ms), and a callback returns: it does not make kernel calls forever.
FairSpec == /\ Spec
            /\ \A t \in Threads : WF_vars(Progress(t))
            /\ \A t \in Workers : SF_vars(\/ CallbackReturns(t) \/ InitReturns(t)
                                         \/ InitFails(t))

-----------------------------------------------------------------------------
(* What must hold.                                                         *)

SvcTypeOK ==
  /\ slot \in [Services -> {"no", "reserved", "published"}]
  /\ ref \in [Services -> Int]
  /\ ctx \in [Services -> {"none", "live", "freed"}]
  /\ init \in [Services -> BOOLEAN]
  /\ total \in Int

MqTypeOK ==
  /\ mem \in [Services -> {"none", "live", "freed"}]
  /\ msgs \in [Services -> Seq(Message)]
  /\ inGlobal \in [Services -> {0, 1}]
  /\ release \in [Services -> {0, 1}]
  /\ globalQ \in Seq(Services)

Hand == Services \cup {NoOne}

RunTypeOK ==
  /\ pc \in [Threads -> PCs]
  /\ q \in [Threads -> Hand] /\ nq \in [Threads -> Hand]
  /\ cur \in [Threads -> Hand] /\ new \in [Threads -> Hand]
  /\ ret \in [Threads -> Hand]
  /\ budget \in [Threads -> Nat]
  /\ msg \in [Threads -> Message]

OpTypeOK ==
  /\ op \in [Threads -> {"none", "push", "release", "mark", "free"}]
  /\ arg \in [Threads -> Hand]
  /\ out \in [Threads -> Message]

\* Every variable has its type; in particular a batch never underflows.
TypeOK == SvcTypeOK /\ MqTypeOK /\ RunTypeOK /\ OpTypeOK

\* Worker w has the mailbox of s in hand.
Holds(w, s) == \/ q[w] = s \/ nq[w] = s
               \/ new[w] = s /\ pc[w] \notin {"publish", "mqcreate"}

InGlobalQ(s) == \E i \in 1..Len(globalQ) : globalQ[i] = s

Placed(s) == InGlobalQ(s) \/ \E w \in Threads : Holds(w, s)

\* A mailbox is in one place at most: once in the global queue, or in the hands
\* of one worker (the assertion queue->next == NULL of skynet_globalmq_push is
\* the part of it the code checks).
ScheduledOnce ==
  /\ \A i, j \in 1..Len(globalQ) : globalQ[i] = globalQ[j] => i = j
  /\ \A s \in Services :
       /\ InGlobalQ(s) => \A w \in Threads : ~Holds(w, s)
       /\ \A v, w \in Threads : Holds(v, s) /\ Holds(w, s) => v = w
  /\ \A w \in Threads : q[w] # NoOne => q[w] \notin {nq[w], new[w]}

\* in_global tells whether the mailbox is placed, as the comment on the flag
\* says; only a mailbox marked for release is placed without it.
FlagMeansPlaced ==
  \A s \in Services : mem[s] = "live" =>
    (Placed(s) <=> inGlobal[s] = 1 \/ release[s] = 1)

\* No wakeup is lost: a mailbox with messages is in the global queue or with a
\* worker, whatever the order of pushes, pops and marks.
NoLostWakeup ==
  \A s \in Services : msgs[s] # <<>> => Placed(s)

\* Two workers never run the same service at once (what CALLING_CHECK asserts).
OneDispatcher ==
  \A v, w \in Threads : cur[v] # NoOne /\ cur[v] = cur[w] => v = w

\* The references to the context of s: the storage, its creator, the dispatcher
\* and the kernel calls in progress.
Stored(s)      == IF slot[s] = "no" THEN 0 ELSE 1
Creators(s)    == {t \in Threads :
                     new[t] = s /\ pc[t] \in {"publish", "mqcreate", "init", "failed"}}
Dispatchers(s) == {t \in Threads : cur[t] = s}
Callers(s)     == {t \in Threads : arg[t] = s /\ op[t] \in {"push", "release"}}

\* The reference count is exact: what has been grabbed and not yet released.
RefCountExact ==
  \A s \in Services :
    ref[s] = Stored(s) + Cardinality(Creators(s)) + Cardinality(Dispatchers(s))
             + Cardinality(Callers(s))

Referenced(s) == \/ slot[s] # "no"
                 \/ Creators(s) \cup Dispatchers(s) \cup Callers(s) # {}

\* Thread t has dropped the last reference to s and is in delete_context.
Deletes(t, s) == op[t] \in {"mark", "free"} /\ arg[t] = s

\* A context is used while it lives: a counted reference keeps it, and the
\* thread that drops the last one is alone with it.
ContextSafe ==
  \A s \in Services :
    /\ Referenced(s) => ctx[s] = "live"
    /\ \A t \in Threads : Deletes(t, s) =>
         /\ ctx[s] = "live" /\ ~Referenced(s)
         /\ \A u \in Threads \ {t} : ~Deletes(u, s)

\* A mailbox is used while its memory is there: by the one who holds it, from
\* the global queue, by a push and by the mark for release.
MailboxSafe ==
  \A s \in Services :
    \/ Placed(s)
    \/ \E t \in Threads : op[t] \in {"push", "mark"} /\ arg[t] = s
    => mem[s] = "live"

\* The assertions of dispatch_message, skynet_context_message_dispatch and
\* skynet_mq_mark_release.
CodeAssertions ==
  /\ \A w \in Workers : pc[w] = "callback" /\ cur[w] # NoOne =>
       init[cur[w]] /\ q[w] = cur[w]
  /\ \A t \in Threads : op[t] = "mark" => release[arg[t]] = 0

\* CHECK_ABORT: when the context count reaches 0 there is no context left, not
\* even one being launched and not yet counted.
AbortMeansEmpty ==
  total = 0 => \A s \in Services : ctx[s] # "live"

\* The pointer skynet_context_new returns, and writes and reads through, is
\* that of a live context.
LaunchResultLive ==
  \A t \in Threads :
    pc[t] \in {"launched", "report"} /\ ret[t] # NoOne => ctx[ret[t]] = "live"

\* Every message is dispatched or dropped in the end: a mailbox with messages
\* gets a turn, however busy the other services are.
Served ==
  \A s \in Services : msgs[s] # <<>> ~>
    \/ \E w \in Workers : cur[w] = s /\ pc[w] = "callback"
    \/ \E w \in Workers : pc[w] = "bounce" /\ Victim(w) = s

\* A service that is gone from the handle storage is deleted, and its mailbox
\* drained and freed: neither leaks, even when it was empty and unscheduled.
Reclaimed ==
  \A s \in Services :
    slot[s] = "no" /\ ctx[s] = "live" ~> ctx[s] = "freed" /\ mem[s] = "freed"

-----------------------------------------------------------------------------
(* The inductive invariant behind these properties.                        *)

InLaunch == {"publish", "mqcreate", "init", "failed", "launched", "enqueue",
             "failretire"}
InRelease == {"mqrelease", "drop", "bounce"}

\* What a thread has in hand at each control point.
Hands ==
  \A t \in Threads :
    /\ pc[t] = "idle" => q[t] = NoOne
    /\ pc[t] \notin {"idle", "done"} => q[t] # NoOne
    /\ nq[t] # NoOne <=> pc[t] = "pushback"
    /\ new[t] # NoOne => pc[t] \in InLaunch \cup InRelease
    /\ pc[t] \in InLaunch => new[t] # NoOne
    /\ cur[t] # NoOne => cur[t] = q[t]
    /\ cur[t] # NoOne <=> \/ pc[t] \notin {"idle", "take", "done"} \cup InRelease
                          \/ pc[t] \in InRelease /\ new[t] # NoOne
    /\ ret[t] # NoOne => pc[t] \in {"launched", "enqueue", "report"}
    /\ t \in Clients => pc[t] = "idle"
    /\ pc[t] = "next" => budget[t] > 0
    /\ pc[t] = "size" => Weight[t] >= 0

\* Where a thread may be while a kernel call is in progress.
Calls ==
  \A t \in Threads :
    /\ op[t] = "none" <=> arg[t] = NoOne
    /\ op[t] # "none" =>
         \/ t \in Clients
         \/ pc[t] \in {"callback", "init", "failed", "launched", "failretire",
                       "mqrelease", "done", "drop"}
    /\ pc[t] = "mqrelease" /\ op[t] # "none" => new[t] # NoOne

\* What each thread knows by itself.
ThreadInv == TypeOK /\ Hands /\ Calls

\* A service is launched by one thread, which finds its slot as it left it.
Newborns ==
  /\ \A t, u \in Threads : new[t] # NoOne /\ new[t] = new[u] => t = u
  /\ \A t \in Threads : new[t] # NoOne => ctx[new[t]] # "none"
  /\ \A t \in Threads : pc[t] = "publish" => slot[new[t]] = "reserved"

\* References, with what each thread knows: inductive by themselves, whatever
\* the mailboxes do.
RefInv == ThreadInv /\ Newborns /\ RefCountExact /\ ContextSafe

\* The mailbox of a service comes after its context.
Births ==
  \A s \in Services :
    mem[s] = "none" <=>
      \/ ctx[s] = "none"
      \/ \E t \in Threads : new[t] = s /\ pc[t] \in {"publish", "mqcreate"}

\* A mailbox is marked by the thread that deletes its service, and freed after
\* that.
Seals ==
  /\ \A s \in Services :
       /\ release[s] = 1 => \/ ctx[s] = "freed"
                            \/ \E t \in Threads : op[t] = "free" /\ arg[t] = s
       /\ mem[s] = "freed" => release[s] = 1
  /\ \A w \in Threads : pc[w] \in {"drop", "bounce"} => release[Victim(w)] = 1

\* A mailbox with messages is flagged, and its memory is there.
Flagged ==
  \A s \in Services : msgs[s] # <<>> => inGlobal[s] = 1 /\ mem[s] = "live"

\* The mailbox of the service that h names exists, or once did; h may be null.
Known(h) == h # NoOne => mem[h] # "none"

\* Handles get around only once the mailbox exists: as sources of messages, in
\* kernel calls that push, and through the pointer a launch returns.
Sources ==
  /\ Known(Boot)
  /\ \A s \in Services : \A i \in 1..Len(msgs[s]) : Known(msgs[s][i].src)
  /\ \A t \in Threads :
       /\ Known(msg[t].src) /\ Known(out[t].src) /\ Known(ret[t])
       /\ pc[t] = "launched" /\ op[t] # "none" => arg[t] = new[t]

\* Mailboxes, with the references: what keeps the queues right.
MqInv ==
  /\ RefInv /\ Births /\ Seals /\ Flagged /\ Sources
  /\ ScheduledOnce /\ FlagMeansPlaced /\ MailboxSafe

\* A service whose launcher has let go of it is initialised, if anybody can still
\* find it, and so is one that is being dispatched.
Initialised ==
  /\ \A s \in Services :
       slot[s] = "published" /\ (\A t \in Threads : new[t] # s) => init[s]
  /\ \A t \in Threads :
       /\ cur[t] # NoOne => init[cur[t]]
       /\ pc[t] = "enqueue" /\ slot[new[t]] = "published" => init[new[t]]
       /\ pc[t] = "launched" /\ op[t] = "none" /\ slot[new[t]] = "published"
            => ret[t] = new[t]
       /\ new[t] # NoOne /\ pc[t] \in InRelease => slot[new[t]] # "published"

\* The contexts context_inc has counted and context_dec has not.
Counted == {s \in Services : ctx[s] = "live" /\ mem[s] # "none"}
TotalExact == total = Cardinality(Counted)

IInv == MqInv /\ Initialised /\ TotalExact

-----------------------------------------------------------------------------
(* The abstract service: see module ActorMailbox.                          *)

\* A service is open while its handle is in the storage and its mailbox exists,
\* sealed from the mark for release to the end of the mailbox's memory.
Life(s) == CASE mem[s] = "none"  -> "unborn"
             [] mem[s] = "freed" -> "gone"
             [] OTHER -> IF release[s] = 1 THEN "sealed"
                         ELSE IF slot[s] = "published" THEN "open"
                         ELSE "closed"

\* Its callback runs, or waits for a kernel call or for a launch to return.
Running(s) == \E w \in Workers :
  cur[w] = s /\ pc[w] \notin {"first", "next", "rotate", "pushback"}

Actor == INSTANCE ActorMailbox WITH
  life <- [s \in Services |-> Life(s)],
  box <- msgs,
  running <- [s \in Services |-> Running(s)]

\* Every step of the scheduler is a step of one actor, or none: a service runs
\* one message at a time, in the order they were accepted, and a message once
\* accepted is handled or discarded, and discarded only when nothing can run.
ImplementsActors == Actor!Spec

=============================================================================
