-------------------------- MODULE SkynetRefs_proofs --------------------------
(***************************************************************************)
(* The state of the scheduler is well typed, the reference counts of the   *)
(* contexts are exact, and no context is used after it is freed, for any   *)
(* number of services, workers and clients.                                *)
(*                                                                         *)
(* A step is a step of one thread t.  What the other threads hold does not *)
(* change, so the argument about references is about what t and the handle *)
(* storage hold of a service s, before and after the step.                 *)
(***************************************************************************)
EXTENDS SkynetDispatch, FiniteSetTheorems, TLAPS

\* The division of the batch size gives a number of messages.
LEMMA BatchNat ==
  ASSUME NEW w \in Workers, NEW len \in Nat, Weight[w] >= 0
  PROVE  Batch(w, len) \in Nat
<1> DEFINE d == 2 ^ Weight[w]
<1>1. Weight[w] \in Int
  BY DispatchAssumption
<1>2. d \in Nat \ {0}
  BY <1>1, DispatchAssumption
<1> HIDE DEF d
<1>3. len \div d \in Nat
  BY <1>2
<1>4. Batch(w, len) = IF len \div d = 0 THEN 0 ELSE len \div d - 1
  BY DEF Batch, d
<1> QED BY <1>3, <1>4

\* What the standard operators on sequences keep.
LEMMA SeqFacts ==
  ASSUME NEW S, NEW s \in Seq(S)
  PROVE  /\ \A e \in S : Append(s, e) \in Seq(S)
         /\ Len(s) \in Nat
         /\ s # <<>> => Head(s) \in S /\ Tail(s) \in Seq(S) /\ Len(s) > 0
OBVIOUS

\* What a thread has in hand is a service where its control point says so.
LEMMA HandFacts ==
  ASSUME ThreadInv, NEW t \in Threads
  PROVE  /\ {q[t], nq[t], cur[t], new[t], ret[t], arg[t]} \subseteq Hand
         /\ op[t] # "none" => arg[t] \in Services
         /\ pc[t] \notin {"idle", "done"} => q[t] \in Services
         /\ pc[t] = "pushback" => nq[t] \in Services
         /\ pc[t] \in InLaunch => new[t] \in Services
         /\ cur[t] # NoOne => cur[t] \in Services
         /\ pc[t] \in InRelease => Victim(t) \in Services
         /\ ret[t] # NoOne => ret[t] \in Services
         /\ pc[t] # "idle" => t \in Workers
<1>1. /\ {q[t], nq[t], cur[t], new[t], ret[t], arg[t]} \subseteq Hand
      /\ pc[t] \in PCs
  BY DEF ThreadInv, TypeOK, RunTypeOK, OpTypeOK
<1>2. /\ op[t] # "none" => arg[t] # NoOne
      /\ pc[t] \notin {"idle", "done"} => q[t] # NoOne
      /\ pc[t] = "pushback" => nq[t] # NoOne
      /\ pc[t] \in InLaunch => new[t] # NoOne
      /\ t \in Clients => pc[t] = "idle"
  BY DEF ThreadInv, Hands, Calls
<1> QED BY <1>1, <1>2 DEF Hand, Victim, InRelease, Threads

\* Every step keeps the types.
LEMMA TypeStep ==
  ASSUME ThreadInv, [Next]_vars
  PROVE  TypeOK'
<1>0. SvcTypeOK /\ MqTypeOK /\ RunTypeOK /\ OpTypeOK
  BY DEF ThreadInv, TypeOK
<1>1. ASSUME NEW t \in Threads, MqPush(t)
      PROVE  TypeOK'
  <2>1. SvcTypeOK'
    BY <1>0, <1>1 DEF SvcTypeOK, MqPush, svcVars
  <2>2. MqTypeOK'
    <3>1. arg[t] \in Services /\ out[t] \in Message
      BY <1>0, <1>1, HandFacts DEF MqPush, OpTypeOK
    <3>2. Append(msgs[arg[t]], out[t]) \in Seq(Message)
      BY <1>0, <3>1, SeqFacts DEF MqTypeOK
    <3>3. Append(globalQ, arg[t]) \in Seq(Services)
      BY <1>0, <3>1, SeqFacts DEF MqTypeOK
    <3> QED BY <1>0, <1>1, <3>1, <3>2, <3>3 DEF MqPush, MqTypeOK
  <2>3. RunTypeOK'
    BY <1>0, <1>1 DEF RunTypeOK, MqPush, runVars
  <2>4. OpTypeOK'
    BY <1>0, <1>1, HandFacts DEF OpTypeOK, MqPush, opVars, Hand, InLaunch,
       InRelease, NoMsg, Message
  <2> QED BY <2>1, <2>2, <2>3, <2>4 DEF TypeOK
<1>2. ASSUME NEW t \in Threads, ContextRelease(t)
      PROVE  TypeOK'
  <2>1. SvcTypeOK'
    BY <1>0, <1>2, HandFacts DEF SvcTypeOK, ContextRelease, svcVars
  <2>2. MqTypeOK'
    BY <1>0, <1>2 DEF MqTypeOK, ContextRelease, mqVars
  <2>3. RunTypeOK'
    BY <1>0, <1>2, HandFacts DEF RunTypeOK, ContextRelease, runVars, PCs,
       Hand, InLaunch, InRelease
  <2>4. OpTypeOK'
    BY <1>0, <1>2, HandFacts DEF OpTypeOK, ContextRelease, opVars, Hand,
       InLaunch, InRelease
  <2> QED BY <2>1, <2>2, <2>3, <2>4 DEF TypeOK
<1>3. ASSUME NEW t \in Threads, MarkRelease(t)
      PROVE  TypeOK'
  <2>1. SvcTypeOK'
    BY <1>0, <1>3 DEF SvcTypeOK, MarkRelease, svcVars
  <2>2. MqTypeOK'
    BY <1>0, <1>3, HandFacts, SeqFacts DEF MqTypeOK, MarkRelease, mqVars
  <2>3. RunTypeOK'
    BY <1>0, <1>3 DEF RunTypeOK, MarkRelease, runVars
  <2>4. OpTypeOK'
    BY <1>0, <1>3, HandFacts DEF OpTypeOK, MarkRelease, opVars, Hand,
       InLaunch, InRelease
  <2> QED BY <2>1, <2>2, <2>3, <2>4 DEF TypeOK
<1>4. ASSUME NEW t \in Threads, DeleteContext(t)
      PROVE  TypeOK'
  <2>1. SvcTypeOK'
    BY <1>0, <1>4, HandFacts DEF SvcTypeOK, DeleteContext, svcVars
  <2>2. MqTypeOK'
    BY <1>0, <1>4 DEF MqTypeOK, DeleteContext, mqVars
  <2>3. RunTypeOK'
    BY <1>0, <1>4 DEF RunTypeOK, DeleteContext, runVars
  <2>4. OpTypeOK'
    BY <1>0, <1>4, HandFacts DEF OpTypeOK, DeleteContext, opVars, Hand,
       InLaunch, InRelease
  <2> QED BY <2>1, <2>2, <2>3, <2>4 DEF TypeOK
<1>5. ASSUME NEW t \in Threads, NEW d \in Services, Send(t, d)
      PROVE  TypeOK'
  <2>1. SvcTypeOK'
    BY <1>0, <1>5, HandFacts DEF SvcTypeOK, Send, GrabToPush, InCode, Free,
       Self, svcVars
  <2>2. MqTypeOK'
    BY <1>0, <1>5 DEF MqTypeOK, Send, GrabToPush, mqVars
  <2>3. RunTypeOK'
    BY <1>0, <1>5 DEF RunTypeOK, Send, GrabToPush, runVars
  <2>4. OpTypeOK'
    <3>1. Self(t) \in Hand
      BY <1>5, HandFacts DEF Send, InCode, Self, Hand
    <3>2. [src |-> Self(t), kind |-> "request"] \in Message
      BY <3>1 DEF Message, Hand
    <3> QED BY <1>0, <1>5, <3>2 DEF Send, GrabToPush, OpTypeOK, Hand
  <2> QED BY <2>1, <2>2, <2>3, <2>4 DEF TypeOK
<1>6. ASSUME NEW t \in Threads, NEW d \in Services, Kill(t, d)
      PROVE  TypeOK'
  <2>1. SvcTypeOK'
    BY <1>0, <1>6, HandFacts DEF SvcTypeOK, Kill, Retire, InCode, Free,
       svcVars
  <2>2. MqTypeOK'
    BY <1>0, <1>6 DEF MqTypeOK, Kill, Retire, mqVars
  <2>3. RunTypeOK'
    BY <1>0, <1>6 DEF RunTypeOK, Kill, Retire, runVars
  <2>4. OpTypeOK'
    BY <1>0, <1>6, HandFacts DEF OpTypeOK, Kill, Retire, InCode, Free, opVars,
       Hand, InLaunch, InRelease
  <2> QED BY <2>1, <2>2, <2>3, <2>4 DEF TypeOK
<1>7. ASSUME NEW t \in Threads, NEW d \in Services, Launch(t, d)
      PROVE  TypeOK'
  <2>1. SvcTypeOK'
    BY <1>0, <1>7, HandFacts DEF SvcTypeOK, Launch, InCode, Free, svcVars
  <2>2. MqTypeOK'
    BY <1>0, <1>7 DEF MqTypeOK, Launch, mqVars
  <2>3. RunTypeOK'
    BY <1>0, <1>7, HandFacts DEF RunTypeOK, Launch, InCode, Free, runVars,
       PCs, Hand, InLaunch, InRelease
  <2>4. OpTypeOK'
    BY <1>0, <1>7 DEF OpTypeOK, Launch, opVars
  <2> QED BY <2>1, <2>2, <2>3, <2>4 DEF TypeOK
<1>8. ASSUME NEW t \in Threads, Publish(t)
      PROVE  TypeOK'
  <2>1. SvcTypeOK'
    BY <1>0, <1>8, HandFacts DEF SvcTypeOK, Publish, svcVars
  <2>2. MqTypeOK'
    BY <1>0, <1>8 DEF MqTypeOK, Publish, mqVars
  <2>3. RunTypeOK'
    BY <1>0, <1>8, HandFacts DEF RunTypeOK, Publish, runVars, PCs, Hand,
       InLaunch, InRelease
  <2>4. OpTypeOK'
    BY <1>0, <1>8 DEF OpTypeOK, Publish, opVars
  <2> QED BY <2>1, <2>2, <2>3, <2>4 DEF TypeOK
<1>9. ASSUME NEW t \in Threads, MqCreate(t)
      PROVE  TypeOK'
  <2>1. SvcTypeOK'
    BY <1>0, <1>9, HandFacts DEF SvcTypeOK, MqCreate, svcVars
  <2>2. MqTypeOK'
    BY <1>0, <1>9, HandFacts, SeqFacts DEF MqTypeOK, MqCreate, mqVars
  <2>3. RunTypeOK'
    BY <1>0, <1>9, HandFacts DEF RunTypeOK, MqCreate, runVars, PCs, Hand,
       InLaunch, InRelease
  <2>4. OpTypeOK'
    BY <1>0, <1>9 DEF OpTypeOK, MqCreate, opVars
  <2> QED BY <2>1, <2>2, <2>3, <2>4 DEF TypeOK
<1>10. ASSUME NEW t \in Threads, InitReturns(t)
      PROVE  TypeOK'
  <2>1. SvcTypeOK'
    BY <1>0, <1>10 DEF SvcTypeOK, InitReturns, svcVars
  <2>2. MqTypeOK'
    BY <1>0, <1>10 DEF MqTypeOK, InitReturns, mqVars
  <2>3. RunTypeOK'
    BY <1>0, <1>10, HandFacts DEF RunTypeOK, InitReturns, Free, runVars, PCs,
       Hand, InLaunch, InRelease
  <2>4. OpTypeOK'
    BY <1>0, <1>10, HandFacts DEF OpTypeOK, InitReturns, Free, opVars, Hand,
       InLaunch, InRelease
  <2> QED BY <2>1, <2>2, <2>3, <2>4 DEF TypeOK
<1>11. ASSUME NEW t \in Threads, InitFails(t)
      PROVE  TypeOK'
  <2>1. SvcTypeOK'
    BY <1>0, <1>11, HandFacts DEF SvcTypeOK, InitFails, Free, Log, GrabToPush,
       svcVars
  <2>2. MqTypeOK'
    BY <1>0, <1>11 DEF MqTypeOK, InitFails, Log, GrabToPush, mqVars
  <2>3. RunTypeOK'
    BY <1>0, <1>11, HandFacts DEF RunTypeOK, InitFails, Free, Log, GrabToPush,
       runVars, PCs, Hand, InLaunch, InRelease
  <2>4. OpTypeOK'
    <3>1. new[t] \in Services /\ Boot \in Services
      BY <1>11, HandFacts, DispatchAssumption DEF InitFails, InLaunch
    <3>2. [src |-> new[t], kind |-> "request"] \in Message
      BY <3>1 DEF Message
    <3> QED BY <1>0, <1>11, <3>1, <3>2 DEF InitFails, Log, GrabToPush, OpTypeOK, opVars, Hand
  <2> QED BY <2>1, <2>2, <2>3, <2>4 DEF TypeOK
<1>12. ASSUME NEW t \in Threads, SetInit(t)
      PROVE  TypeOK'
  <2>1. SvcTypeOK'
    BY <1>0, <1>12, HandFacts DEF SvcTypeOK, SetInit, Free, svcVars
  <2>2. MqTypeOK'
    BY <1>0, <1>12 DEF MqTypeOK, SetInit, mqVars
  <2>3. RunTypeOK'
    BY <1>0, <1>12, HandFacts DEF RunTypeOK, SetInit, Free, runVars, PCs,
       Hand, InLaunch, InRelease
  <2>4. OpTypeOK'
    BY <1>0, <1>12 DEF OpTypeOK, SetInit, opVars
  <2> QED BY <2>1, <2>2, <2>3, <2>4 DEF TypeOK
<1>13. ASSUME NEW t \in Threads, Enqueue(t)
      PROVE  TypeOK'
  <2>1. SvcTypeOK'
    BY <1>0, <1>13 DEF SvcTypeOK, Enqueue, svcVars
  <2>2. MqTypeOK'
    <3>1. new[t] \in Services
      BY <1>13, HandFacts DEF Enqueue, InLaunch
    <3> QED BY <1>0, <1>13, <3>1, SeqFacts DEF Enqueue, MqTypeOK
  <2>3. RunTypeOK'
    BY <1>0, <1>13, HandFacts DEF RunTypeOK, Enqueue, runVars, PCs, Hand,
       InLaunch, InRelease
  <2>4. OpTypeOK'
    BY <1>0, <1>13 DEF OpTypeOK, Enqueue, opVars
  <2> QED BY <2>1, <2>2, <2>3, <2>4 DEF TypeOK
<1>14. ASSUME NEW t \in Threads, Report(t)
      PROVE  TypeOK'
  <2>1. SvcTypeOK'
    BY <1>0, <1>14, HandFacts DEF SvcTypeOK, Report, Log, GrabToPush, svcVars
  <2>2. MqTypeOK'
    BY <1>0, <1>14 DEF MqTypeOK, Report, Log, GrabToPush, mqVars
  <2>3. RunTypeOK'
    BY <1>0, <1>14, HandFacts DEF RunTypeOK, Report, Log, GrabToPush, runVars,
       PCs, Hand, InLaunch, InRelease
  <2>4. OpTypeOK'
    <3>1. ret[t] # NoOne => ret[t] \in Services
      BY HandFacts
    <3>2. Boot \in Hand
      BY DispatchAssumption DEF Hand
    <3>3. \A s \in Services : [src |-> s, kind |-> "request"] \in Message
      BY DEF Message
    <3> QED BY <1>0, <1>14, <3>1, <3>2, <3>3 DEF Report, Log, GrabToPush,
       OpTypeOK, opVars
  <2> QED BY <2>1, <2>2, <2>3, <2>4 DEF TypeOK
<1>15. ASSUME NEW t \in Threads, FailRelease(t)
      PROVE  TypeOK'
  <2>1. SvcTypeOK'
    BY <1>0, <1>15 DEF SvcTypeOK, FailRelease, svcVars
  <2>2. MqTypeOK'
    BY <1>0, <1>15 DEF MqTypeOK, FailRelease, mqVars
  <2>3. RunTypeOK'
    BY <1>0, <1>15, HandFacts DEF RunTypeOK, FailRelease, Free, runVars, PCs,
       Hand, InLaunch, InRelease
  <2>4. OpTypeOK'
    BY <1>0, <1>15, HandFacts DEF OpTypeOK, FailRelease, Free, opVars, Hand,
       InLaunch, InRelease
  <2> QED BY <2>1, <2>2, <2>3, <2>4 DEF TypeOK
<1>16. ASSUME NEW t \in Threads, FailRetire(t)
      PROVE  TypeOK'
  <2>1. SvcTypeOK'
    BY <1>0, <1>16, HandFacts DEF SvcTypeOK, FailRetire, Free, Retire, svcVars
  <2>2. MqTypeOK'
    BY <1>0, <1>16 DEF MqTypeOK, FailRetire, Retire, mqVars
  <2>3. RunTypeOK'
    BY <1>0, <1>16, HandFacts DEF RunTypeOK, FailRetire, Free, Retire,
       runVars, PCs, Hand, InLaunch, InRelease
  <2>4. OpTypeOK'
    BY <1>0, <1>16, HandFacts DEF OpTypeOK, FailRetire, Free, Retire, opVars,
       Hand, InLaunch, InRelease
  <2> QED BY <2>1, <2>2, <2>3, <2>4 DEF TypeOK
<1>17. ASSUME NEW t \in Threads, GlobalPop(t)
      PROVE  TypeOK'
  <2>1. SvcTypeOK'
    BY <1>0, <1>17 DEF SvcTypeOK, GlobalPop, svcVars
  <2>2. MqTypeOK'
    BY <1>0, <1>17, HandFacts, SeqFacts DEF MqTypeOK, GlobalPop, mqVars
  <2>3. RunTypeOK'
    BY <1>0, <1>17, HandFacts, SeqFacts DEF RunTypeOK, GlobalPop, runVars,
       PCs, Hand, InLaunch, InRelease, MqTypeOK
  <2>4. OpTypeOK'
    BY <1>0, <1>17 DEF OpTypeOK, GlobalPop, opVars
  <2> QED BY <2>1, <2>2, <2>3, <2>4 DEF TypeOK
<1>18. ASSUME NEW t \in Threads, Take(t)
      PROVE  TypeOK'
  <2>1. SvcTypeOK'
    BY <1>0, <1>18, HandFacts DEF SvcTypeOK, Take, svcVars
  <2>2. MqTypeOK'
    BY <1>0, <1>18 DEF MqTypeOK, Take, mqVars
  <2>3. RunTypeOK'
    BY <1>0, <1>18, HandFacts DEF RunTypeOK, Take, runVars, PCs, Hand,
       InLaunch, InRelease
  <2>4. OpTypeOK'
    BY <1>0, <1>18 DEF OpTypeOK, Take, opVars
  <2> QED BY <2>1, <2>2, <2>3, <2>4 DEF TypeOK
<1>19. ASSUME NEW t \in Threads, PopMessage(t)
      PROVE  TypeOK'
  <2>1. SvcTypeOK'
    BY <1>0, <1>19 DEF SvcTypeOK, PopMessage, svcVars
  <2>2. MqTypeOK'
    BY <1>0, <1>19, HandFacts, SeqFacts DEF MqTypeOK, PopMessage, mqVars
  <2>3. RunTypeOK'
    <3>1. pc[t] = "next" => budget[t] > 0
      BY DEF ThreadInv, Hands
    <3>2. budget' \in [Threads -> Nat]
      BY <1>0, <1>19, <3>1 DEF PopMessage, RunTypeOK
    <3> QED BY <1>0, <1>19, <3>2 DEF PopMessage, RunTypeOK, PCs
  <2>4. OpTypeOK'
    BY <1>0, <1>19 DEF OpTypeOK, PopMessage, opVars
  <2> QED BY <2>1, <2>2, <2>3, <2>4 DEF TypeOK
<1>20. ASSUME NEW t \in Threads, PopEmpty(t)
      PROVE  TypeOK'
  <2>1. SvcTypeOK'
    BY <1>0, <1>20 DEF SvcTypeOK, PopEmpty, ReleaseCur, svcVars
  <2>2. MqTypeOK'
    BY <1>0, <1>20, HandFacts, SeqFacts DEF MqTypeOK, PopEmpty, ReleaseCur,
       mqVars
  <2>3. RunTypeOK'
    BY <1>0, <1>20, HandFacts DEF RunTypeOK, PopEmpty, ReleaseCur, runVars,
       PCs, Hand, InLaunch, InRelease
  <2>4. OpTypeOK'
    BY <1>0, <1>20, HandFacts DEF OpTypeOK, PopEmpty, ReleaseCur, opVars,
       Hand, InLaunch, InRelease
  <2> QED BY <2>1, <2>2, <2>3, <2>4 DEF TypeOK
<1>21. ASSUME NEW t \in Threads, CallbackReturns(t) \/ SizeBatch(t)
      PROVE  TypeOK'
  <2>1. SvcTypeOK'
    BY <1>0, <1>21 DEF SvcTypeOK, CallbackReturns, SizeBatch, svcVars
  <2>2. MqTypeOK'
    BY <1>0, <1>21 DEF MqTypeOK, CallbackReturns, SizeBatch, mqVars
  <2>3. RunTypeOK'
    <3>1. CASE CallbackReturns(t)
      BY <1>0, <3>1, HandFacts DEF RunTypeOK, CallbackReturns, Free, runVars,
         PCs, Hand, InLaunch, InRelease
    <3>2. CASE SizeBatch(t)
      <4>1. q[t] \in Services /\ t \in Workers /\ Weight[t] >= 0
        BY <3>2, HandFacts DEF SizeBatch, ThreadInv, Hands
      <4>2. Len(msgs[q[t]]) \in Nat
        BY <1>0, <4>1, SeqFacts DEF MqTypeOK
      <4>3. Batch(t, Len(msgs[q[t]])) \in Nat
        BY <4>1, <4>2, BatchNat
      <4> QED BY <1>0, <3>2, <4>3 DEF SizeBatch, RunTypeOK, PCs
    <3> QED BY <1>21, <3>1, <3>2
  <2>4. OpTypeOK'
    BY <1>0, <1>21 DEF OpTypeOK, CallbackReturns, SizeBatch, opVars
  <2> QED BY <2>1, <2>2, <2>3, <2>4 DEF TypeOK
<1>22. ASSUME NEW t \in Threads, Rotate(t)
      PROVE  TypeOK'
  <2>1. SvcTypeOK'
    BY <1>0, <1>22 DEF SvcTypeOK, Rotate, ReleaseCur, svcVars
  <2>2. MqTypeOK'
    BY <1>0, <1>22, HandFacts, SeqFacts DEF MqTypeOK, Rotate, ReleaseCur,
       mqVars
  <2>3. RunTypeOK'
    <3>1. globalQ # <<>> => Head(globalQ) \in Hand
      BY <1>0, SeqFacts DEF MqTypeOK, Hand
    <3> QED BY <1>0, <1>22, <3>1 DEF Rotate, ReleaseCur, RunTypeOK, PCs, Hand
  <2>4. OpTypeOK'
    BY <1>0, <1>22, HandFacts DEF OpTypeOK, Rotate, ReleaseCur, opVars, Hand,
       InLaunch, InRelease
  <2> QED BY <2>1, <2>2, <2>3, <2>4 DEF TypeOK
<1>23. ASSUME NEW t \in Threads, PushBack(t)
      PROVE  TypeOK'
  <2>1. SvcTypeOK'
    BY <1>0, <1>23 DEF SvcTypeOK, PushBack, ReleaseCur, svcVars
  <2>2. MqTypeOK'
    BY <1>0, <1>23, HandFacts, SeqFacts DEF MqTypeOK, PushBack, ReleaseCur,
       mqVars
  <2>3. RunTypeOK'
    BY <1>0, <1>23, HandFacts DEF RunTypeOK, PushBack, ReleaseCur, runVars,
       PCs, Hand, InLaunch, InRelease
  <2>4. OpTypeOK'
    BY <1>0, <1>23, HandFacts DEF OpTypeOK, PushBack, ReleaseCur, opVars,
       Hand, InLaunch, InRelease
  <2> QED BY <2>1, <2>2, <2>3, <2>4 DEF TypeOK
<1>24. ASSUME NEW t \in Threads, Return(t)
      PROVE  TypeOK'
  <2>1. SvcTypeOK'
    BY <1>0, <1>24 DEF SvcTypeOK, Return, svcVars
  <2>2. MqTypeOK'
    BY <1>0, <1>24 DEF MqTypeOK, Return, mqVars
  <2>3. RunTypeOK'
    BY <1>0, <1>24, HandFacts DEF RunTypeOK, Return, Free, runVars, PCs, Hand,
       InLaunch, InRelease
  <2>4. OpTypeOK'
    BY <1>0, <1>24 DEF OpTypeOK, Return, opVars
  <2> QED BY <2>1, <2>2, <2>3, <2>4 DEF TypeOK
<1>25. ASSUME NEW t \in Threads, MqRelease(t)
      PROVE  TypeOK'
  <2>1. SvcTypeOK'
    BY <1>0, <1>25 DEF SvcTypeOK, MqRelease, LeaveMqRelease, svcVars
  <2>2. MqTypeOK'
    <3>1. Victim(t) \in Services
      BY <1>25, HandFacts DEF MqRelease, InRelease
    <3> QED BY <1>0, <1>25, <3>1, SeqFacts DEF MqRelease, MqTypeOK
  <2>3. RunTypeOK'
    BY <1>0, <1>25, HandFacts DEF RunTypeOK, MqRelease, Free, LeaveMqRelease,
       Victim, runVars, PCs, Hand, InLaunch, InRelease
  <2>4. OpTypeOK'
    BY <1>0, <1>25 DEF OpTypeOK, MqRelease, LeaveMqRelease, opVars
  <2> QED BY <2>1, <2>2, <2>3, <2>4 DEF TypeOK
<1>26. ASSUME NEW t \in Threads, DropMessage(t)
      PROVE  TypeOK'
  <2>1. SvcTypeOK'
    BY <1>0, <1>26 DEF SvcTypeOK, DropMessage, svcVars
  <2>2. MqTypeOK'
    BY <1>0, <1>26, HandFacts, SeqFacts DEF MqTypeOK, DropMessage, Free,
       Victim, mqVars
  <2>3. RunTypeOK'
    BY <1>0, <1>26, HandFacts, SeqFacts DEF RunTypeOK, DropMessage, Free,
       Victim, runVars, PCs, Hand, InLaunch, InRelease, MqTypeOK, NoMsg
  <2>4. OpTypeOK'
    BY <1>0, <1>26 DEF OpTypeOK, DropMessage, opVars
  <2> QED BY <2>1, <2>2, <2>3, <2>4 DEF TypeOK
<1>27. ASSUME NEW t \in Threads, Bounce(t)
      PROVE  TypeOK'
  <2>1. SvcTypeOK'
    BY <1>0, <1>27, HandFacts DEF SvcTypeOK, Bounce, GrabToPush, Victim,
       svcVars
  <2>2. MqTypeOK'
    BY <1>0, <1>27 DEF MqTypeOK, Bounce, GrabToPush, mqVars
  <2>3. RunTypeOK'
    BY <1>0, <1>27, HandFacts DEF RunTypeOK, Bounce, GrabToPush, Victim,
       runVars, PCs, Hand, InLaunch, InRelease, NoMsg, Message
  <2>4. OpTypeOK'
    <3>1. Victim(t) \in Services /\ msg[t].src \in Services \cup {NoOne}
      BY <1>0, <1>27, HandFacts DEF Bounce, InRelease, RunTypeOK, Message
    <3>2. [src |-> Victim(t), kind |-> "error"] \in Message
      BY <3>1 DEF Message
    <3> QED BY <1>0, <1>27, <3>1, <3>2 DEF Bounce, GrabToPush, OpTypeOK, opVars, Hand
  <2> QED BY <2>1, <2>2, <2>3, <2>4 DEF TypeOK
<1>28. ASSUME NEW t \in Threads, ReleaseMq(t)
      PROVE  TypeOK'
  <2>1. SvcTypeOK'
    BY <1>0, <1>28 DEF SvcTypeOK, ReleaseMq, LeaveMqRelease, svcVars
  <2>2. MqTypeOK'
    BY <1>0, <1>28, HandFacts, SeqFacts DEF MqTypeOK, ReleaseMq, Free,
       LeaveMqRelease, Victim, mqVars
  <2>3. RunTypeOK'
    BY <1>0, <1>28, HandFacts DEF RunTypeOK, ReleaseMq, Free, LeaveMqRelease,
       Victim, runVars, PCs, Hand, InLaunch, InRelease
  <2>4. OpTypeOK'
    BY <1>0, <1>28 DEF OpTypeOK, ReleaseMq, LeaveMqRelease, opVars
  <2> QED BY <2>1, <2>2, <2>3, <2>4 DEF TypeOK
<1>29. CASE UNCHANGED vars
  BY <1>0, <1>29 DEF vars, svcVars, mqVars, runVars, opVars, TypeOK,
     SvcTypeOK, MqTypeOK, RunTypeOK, OpTypeOK
<1> QED BY <1>1, <1>2, <1>3, <1>4, <1>5, <1>6, <1>7, <1>8, <1>9, <1>10, <1>11,
   <1>12, <1>13, <1>14, <1>15, <1>16, <1>17, <1>18, <1>19, <1>20, <1>21,
   <1>22, <1>23, <1>24, <1>25, <1>26, <1>27, <1>28, <1>29 DEF Next, AllIdle,
   Progress, KernelCall, Launching, Dispatching, Releasing, Choice

\* A thread has in hand what its control point says.
LEMMA HandsStep ==
  ASSUME ThreadInv, [Next]_vars
  PROVE  Hands'
<1>0. MqTypeOK /\ RunTypeOK /\ OpTypeOK /\ Hands /\ Calls
  BY DEF ThreadInv, TypeOK
<1>1. ASSUME NEW t \in Threads, MqPush(t)
      PROVE  Hands'
  BY <1>0, <1>1, HandFacts DEF MqPush, svcVars, runVars, Hands, RunTypeOK,
     InLaunch, InRelease, PCs
<1>2. ASSUME NEW t \in Threads, ContextRelease(t)
      PROVE  Hands'
  BY <1>0, <1>2, HandFacts DEF ContextRelease, mqVars, Hands, RunTypeOK,
     InLaunch, InRelease, PCs
<1>3. ASSUME NEW t \in Threads, MarkRelease(t)
      PROVE  Hands'
  BY <1>0, <1>3, HandFacts DEF MarkRelease, svcVars, runVars, Hands,
     RunTypeOK, InLaunch, InRelease, PCs
<1>4. ASSUME NEW t \in Threads, DeleteContext(t)
      PROVE  Hands'
  BY <1>0, <1>4, HandFacts DEF DeleteContext, mqVars, runVars, Hands,
     RunTypeOK, InLaunch, InRelease, PCs
<1>5. ASSUME NEW t \in Threads, NEW d \in Services, Send(t, d)
      PROVE  Hands'
  BY <1>0, <1>5, HandFacts DEF Send, GrabToPush, InCode, Free, Self, mqVars,
     runVars, Hands, RunTypeOK, InLaunch, InRelease, PCs
<1>6. ASSUME NEW t \in Threads, NEW d \in Services, Kill(t, d)
      PROVE  Hands'
  BY <1>0, <1>6, HandFacts DEF Kill, Retire, InCode, Free, mqVars, runVars,
     Hands, RunTypeOK, InLaunch, InRelease, PCs
<1>7. ASSUME NEW t \in Threads, NEW d \in Services, Launch(t, d)
      PROVE  Hands'
  BY <1>0, <1>7, HandFacts, DispatchAssumption DEF Launch, InCode, Free,
     mqVars, opVars, Hands, RunTypeOK, InLaunch, InRelease, PCs
<1>8. ASSUME NEW t \in Threads, Publish(t)
      PROVE  Hands'
  BY <1>0, <1>8, HandFacts DEF Publish, mqVars, opVars, Hands, RunTypeOK,
     InLaunch, InRelease, PCs
<1>9. ASSUME NEW t \in Threads, MqCreate(t)
      PROVE  Hands'
  BY <1>0, <1>9, HandFacts DEF MqCreate, opVars, Hands, RunTypeOK, InLaunch,
     InRelease, PCs
<1>10. ASSUME NEW t \in Threads, InitReturns(t)
      PROVE  Hands'
  BY <1>0, <1>10, HandFacts DEF InitReturns, Free, svcVars, mqVars, Hands,
     RunTypeOK, InLaunch, InRelease, PCs
<1>11. ASSUME NEW t \in Threads, InitFails(t)
      PROVE  Hands'
  BY <1>0, <1>11, HandFacts DEF InitFails, Free, Log, GrabToPush, mqVars,
     opVars, Hands, RunTypeOK, InLaunch, InRelease, PCs
<1>12. ASSUME NEW t \in Threads, SetInit(t)
      PROVE  Hands'
  BY <1>0, <1>12, HandFacts DEF SetInit, Free, mqVars, opVars, Hands,
     RunTypeOK, InLaunch, InRelease, PCs
<1>13. ASSUME NEW t \in Threads, Enqueue(t)
      PROVE  Hands'
  BY <1>0, <1>13, HandFacts DEF Enqueue, svcVars, opVars, Hands, RunTypeOK,
     InLaunch, InRelease, PCs
<1>14. ASSUME NEW t \in Threads, Report(t)
      PROVE  Hands'
  BY <1>0, <1>14, HandFacts DEF Report, Log, GrabToPush, mqVars, opVars,
     Hands, RunTypeOK, InLaunch, InRelease, PCs
<1>15. ASSUME NEW t \in Threads, FailRelease(t)
      PROVE  Hands'
  BY <1>0, <1>15, HandFacts DEF FailRelease, Free, svcVars, mqVars, Hands,
     RunTypeOK, InLaunch, InRelease, PCs
<1>16. ASSUME NEW t \in Threads, FailRetire(t)
      PROVE  Hands'
  BY <1>0, <1>16, HandFacts DEF FailRetire, Free, Retire, svcVars, mqVars,
     opVars, Hands, RunTypeOK, InLaunch, InRelease, PCs
<1>17. ASSUME NEW t \in Threads, GlobalPop(t)
      PROVE  Hands'
  BY <1>0, <1>17, HandFacts, SeqFacts, DispatchAssumption DEF GlobalPop,
     svcVars, opVars, Hands, RunTypeOK, InLaunch, InRelease, PCs, MqTypeOK,
     ReleaseCur
<1>18. ASSUME NEW t \in Threads, Take(t)
      PROVE  Hands'
  BY <1>0, <1>18, HandFacts DEF Take, mqVars, opVars, Hands, RunTypeOK,
     InLaunch, InRelease, PCs
<1>19. ASSUME NEW t \in Threads, PopMessage(t)
      PROVE  Hands'
  BY <1>0, <1>19, HandFacts DEF PopMessage, svcVars, opVars, Hands, RunTypeOK,
     InLaunch, InRelease, PCs
<1>20. ASSUME NEW t \in Threads, PopEmpty(t)
      PROVE  Hands'
  BY <1>0, <1>20, HandFacts DEF PopEmpty, ReleaseCur, svcVars, Hands,
     RunTypeOK, InLaunch, InRelease, PCs
<1>21. ASSUME NEW t \in Threads, CallbackReturns(t) \/ SizeBatch(t)
      PROVE  Hands'
  <2>1. CASE CallbackReturns(t)
    BY <1>0, <2>1, HandFacts DEF CallbackReturns, Free, svcVars, mqVars, opVars,
       Hands, RunTypeOK, InLaunch, InRelease, PCs
  <2>2. CASE SizeBatch(t)
    BY <1>0, <2>2, HandFacts DEF SizeBatch, svcVars, mqVars, opVars, Hands,
       RunTypeOK, InLaunch, InRelease, PCs
  <2> QED BY <1>21, <2>1, <2>2
<1>22. ASSUME NEW t \in Threads, Rotate(t)
      PROVE  Hands'
  <2>1. CASE globalQ # <<>>
    <3>1. Head(globalQ) \in Services /\ Head(globalQ) # NoOne
      BY <1>0, <2>1, SeqFacts, DispatchAssumption DEF MqTypeOK
    <3>2. /\ pc' = [pc EXCEPT ![t] = "pushback"] /\ nq' = [nq EXCEPT ![t] = Head(globalQ)]
          /\ pc[t] = "rotate" /\ UNCHANGED <<q, cur, new, ret, budget>>
      BY <1>22, <2>1 DEF Rotate
    <3> QED BY <1>0, <3>1, <3>2 DEF Hands, RunTypeOK, InLaunch, InRelease
  <2>2. CASE globalQ = <<>>
    BY <1>0, <1>22, <2>2, HandFacts, DispatchAssumption DEF Rotate, ReleaseCur,
       svcVars, Hands, RunTypeOK, InLaunch, InRelease, PCs
  <2> QED BY <2>1, <2>2
<1>23. ASSUME NEW t \in Threads, PushBack(t)
      PROVE  Hands'
  BY <1>0, <1>23, HandFacts DEF PushBack, ReleaseCur, svcVars, Hands,
     RunTypeOK, InLaunch, InRelease, PCs
<1>24. ASSUME NEW t \in Threads, Return(t)
      PROVE  Hands'
  BY <1>0, <1>24, HandFacts DEF Return, Free, svcVars, mqVars, opVars, Hands,
     RunTypeOK, InLaunch, InRelease, PCs
<1>25. ASSUME NEW t \in Threads, MqRelease(t)
      PROVE  Hands'
  BY <1>0, <1>25, HandFacts DEF MqRelease, Free, LeaveMqRelease, Victim,
     svcVars, opVars, Hands, RunTypeOK, InLaunch, InRelease, PCs
<1>26. ASSUME NEW t \in Threads, DropMessage(t)
      PROVE  Hands'
  BY <1>0, <1>26, HandFacts DEF DropMessage, Free, Victim, svcVars, opVars,
     Hands, RunTypeOK, InLaunch, InRelease, PCs
<1>27. ASSUME NEW t \in Threads, Bounce(t)
      PROVE  Hands'
  BY <1>0, <1>27, HandFacts DEF Bounce, GrabToPush, Victim, mqVars, opVars,
     Hands, RunTypeOK, InLaunch, InRelease, PCs
<1>28. ASSUME NEW t \in Threads, ReleaseMq(t)
      PROVE  Hands'
  BY <1>0, <1>28, HandFacts DEF ReleaseMq, Free, LeaveMqRelease, Victim,
     svcVars, opVars, Hands, RunTypeOK, InLaunch, InRelease, PCs
<1>29. CASE UNCHANGED vars
  BY <1>0, <1>29 DEF vars, svcVars, mqVars, runVars, opVars, Hands, RunTypeOK,
     InLaunch, InRelease, PCs
<1> QED BY <1>1, <1>2, <1>3, <1>4, <1>5, <1>6, <1>7, <1>8, <1>9, <1>10, <1>11,
   <1>12, <1>13, <1>14, <1>15, <1>16, <1>17, <1>18, <1>19, <1>20, <1>21,
   <1>22, <1>23, <1>24, <1>25, <1>26, <1>27, <1>28, <1>29 DEF Next, AllIdle,
   Progress, KernelCall, Launching, Dispatching, Releasing, Choice

\* A kernel call is in progress only where a thread makes one.
LEMMA CallsStep ==
  ASSUME ThreadInv, [Next]_vars
  PROVE  Calls'
<1>0. RunTypeOK /\ OpTypeOK /\ Hands /\ Calls
  BY DEF ThreadInv, TypeOK
<1>1. ASSUME NEW t \in Threads, MqPush(t)
      PROVE  Calls'
  BY <1>0, <1>1, HandFacts DEF MqPush, svcVars, runVars, Calls, OpTypeOK,
     RunTypeOK
<1>2. ASSUME NEW t \in Threads, ContextRelease(t)
      PROVE  Calls'
  BY <1>0, <1>2, HandFacts DEF ContextRelease, mqVars, Calls, OpTypeOK,
     RunTypeOK
<1>3. ASSUME NEW t \in Threads, MarkRelease(t)
      PROVE  Calls'
  BY <1>0, <1>3, HandFacts DEF MarkRelease, svcVars, runVars, Calls, OpTypeOK,
     RunTypeOK
<1>4. ASSUME NEW t \in Threads, DeleteContext(t)
      PROVE  Calls'
  BY <1>0, <1>4, HandFacts DEF DeleteContext, mqVars, runVars, Calls,
     OpTypeOK, RunTypeOK
<1>5. ASSUME NEW t \in Threads, NEW d \in Services, Send(t, d)
      PROVE  Calls'
  BY <1>0, <1>5, HandFacts, DispatchAssumption DEF Send, GrabToPush, InCode,
     Free, Self, mqVars, runVars, Calls, OpTypeOK, RunTypeOK, Hands,
     InRelease, InLaunch
<1>6. ASSUME NEW t \in Threads, NEW d \in Services, Kill(t, d)
      PROVE  Calls'
  BY <1>0, <1>6, HandFacts, DispatchAssumption DEF Kill, Retire, InCode, Free,
     mqVars, runVars, Calls, OpTypeOK, RunTypeOK, Hands, InRelease, InLaunch
<1>7. ASSUME NEW t \in Threads, NEW d \in Services, Launch(t, d)
      PROVE  Calls'
  BY <1>0, <1>7, HandFacts DEF Launch, InCode, Free, mqVars, opVars, Calls,
     OpTypeOK, RunTypeOK
<1>8. ASSUME NEW t \in Threads, Publish(t)
      PROVE  Calls'
  BY <1>0, <1>8, HandFacts DEF Publish, mqVars, opVars, Calls, OpTypeOK,
     RunTypeOK
<1>9. ASSUME NEW t \in Threads, MqCreate(t)
      PROVE  Calls'
  BY <1>0, <1>9, HandFacts DEF MqCreate, opVars, Calls, OpTypeOK, RunTypeOK
<1>10. ASSUME NEW t \in Threads, InitReturns(t)
      PROVE  Calls'
  BY <1>0, <1>10, HandFacts, DispatchAssumption DEF InitReturns, Free,
     svcVars, mqVars, Calls, OpTypeOK, RunTypeOK, Hands, InRelease, InLaunch
<1>11. ASSUME NEW t \in Threads, InitFails(t)
      PROVE  Calls'
  BY <1>0, <1>11, HandFacts, DispatchAssumption DEF InitFails, Free, Log,
     GrabToPush, mqVars, opVars, Calls, OpTypeOK, RunTypeOK, Hands, InRelease,
     InLaunch
<1>12. ASSUME NEW t \in Threads, SetInit(t)
      PROVE  Calls'
  BY <1>0, <1>12, HandFacts DEF SetInit, Free, mqVars, opVars, Calls,
     OpTypeOK, RunTypeOK
<1>13. ASSUME NEW t \in Threads, Enqueue(t)
      PROVE  Calls'
  BY <1>0, <1>13, HandFacts DEF Enqueue, svcVars, opVars, Calls, OpTypeOK,
     RunTypeOK
<1>14. ASSUME NEW t \in Threads, Report(t)
      PROVE  Calls'
  BY <1>0, <1>14, HandFacts, DispatchAssumption DEF Report, Log, GrabToPush,
     mqVars, opVars, Calls, OpTypeOK, RunTypeOK, Hands, InRelease, InLaunch
<1>15. ASSUME NEW t \in Threads, FailRelease(t)
      PROVE  Calls'
  BY <1>0, <1>15, HandFacts, DispatchAssumption DEF FailRelease, Free,
     svcVars, mqVars, Calls, OpTypeOK, RunTypeOK, Hands, InRelease, InLaunch
<1>16. ASSUME NEW t \in Threads, FailRetire(t)
      PROVE  Calls'
  BY <1>0, <1>16, HandFacts, DispatchAssumption DEF FailRetire, Free, Retire,
     svcVars, mqVars, opVars, Calls, OpTypeOK, RunTypeOK, Hands, InRelease,
     InLaunch
<1>17. ASSUME NEW t \in Threads, GlobalPop(t)
      PROVE  Calls'
  BY <1>0, <1>17, HandFacts DEF GlobalPop, svcVars, opVars, Calls, OpTypeOK,
     RunTypeOK
<1>18. ASSUME NEW t \in Threads, Take(t)
      PROVE  Calls'
  BY <1>0, <1>18, HandFacts, DispatchAssumption DEF Take, mqVars, opVars,
     Calls, OpTypeOK, RunTypeOK, Hands, InRelease, InLaunch
<1>19. ASSUME NEW t \in Threads, PopMessage(t)
      PROVE  Calls'
  BY <1>0, <1>19, HandFacts DEF PopMessage, svcVars, opVars, Calls, OpTypeOK,
     RunTypeOK
<1>20. ASSUME NEW t \in Threads, PopEmpty(t)
      PROVE  Calls'
  BY <1>0, <1>20, HandFacts, DispatchAssumption DEF PopEmpty, ReleaseCur,
     svcVars, Calls, OpTypeOK, RunTypeOK, Hands, InRelease, InLaunch
<1>21. ASSUME NEW t \in Threads, CallbackReturns(t) \/ SizeBatch(t)
      PROVE  Calls'
  BY <1>0, <1>21, HandFacts DEF CallbackReturns, SizeBatch, Free, svcVars, mqVars,
     opVars, Calls, OpTypeOK, RunTypeOK
<1>22. ASSUME NEW t \in Threads, Rotate(t)
      PROVE  Calls'
  BY <1>0, <1>22, HandFacts, DispatchAssumption DEF Rotate, ReleaseCur,
     svcVars, Calls, OpTypeOK, RunTypeOK, Hands, InRelease, InLaunch
<1>23. ASSUME NEW t \in Threads, PushBack(t)
      PROVE  Calls'
  BY <1>0, <1>23, HandFacts, DispatchAssumption DEF PushBack, ReleaseCur,
     svcVars, Calls, OpTypeOK, RunTypeOK, Hands, InRelease, InLaunch
<1>24. ASSUME NEW t \in Threads, Return(t)
      PROVE  Calls'
  BY <1>0, <1>24, HandFacts DEF Return, Free, svcVars, mqVars, opVars, Calls,
     OpTypeOK, RunTypeOK
<1>25. ASSUME NEW t \in Threads, MqRelease(t)
      PROVE  Calls'
  BY <1>0, <1>25, HandFacts DEF MqRelease, Free, LeaveMqRelease, Victim,
     svcVars, opVars, Calls, OpTypeOK, RunTypeOK
<1>26. ASSUME NEW t \in Threads, DropMessage(t)
      PROVE  Calls'
  BY <1>0, <1>26, HandFacts DEF DropMessage, Free, Victim, svcVars, opVars,
     Calls, OpTypeOK, RunTypeOK
<1>27. ASSUME NEW t \in Threads, Bounce(t)
      PROVE  Calls'
  BY <1>0, <1>27, HandFacts DEF Bounce, GrabToPush, Victim, mqVars, opVars,
     Calls, OpTypeOK, RunTypeOK
<1>28. ASSUME NEW t \in Threads, ReleaseMq(t)
      PROVE  Calls'
  BY <1>0, <1>28, HandFacts DEF ReleaseMq, Free, LeaveMqRelease, Victim,
     svcVars, opVars, Calls, OpTypeOK, RunTypeOK
<1>29. CASE UNCHANGED vars
  BY <1>0, <1>29 DEF vars, svcVars, mqVars, runVars, opVars, Calls, OpTypeOK,
     RunTypeOK
<1> QED BY <1>1, <1>2, <1>3, <1>4, <1>5, <1>6, <1>7, <1>8, <1>9, <1>10, <1>11,
   <1>12, <1>13, <1>14, <1>15, <1>16, <1>17, <1>18, <1>19, <1>20, <1>21,
   <1>22, <1>23, <1>24, <1>25, <1>26, <1>27, <1>28, <1>29 DEF Next, AllIdle,
   Progress, KernelCall, Launching, Dispatching, Releasing, Choice

\* It holds at the start.
LEMMA ThreadInit ==
  ASSUME Init
  PROVE  ThreadInv
<1>1. Boot \in Services /\ NoOne \notin Services /\ NoMsg \in Message
  BY DispatchAssumption DEF NoMsg, Message
<1>2. SvcTypeOK
  BY <1>1 DEF Init, SvcTypeOK
<1>3. MqTypeOK
  BY <1>1 DEF Init, MqTypeOK
<1>4. RunTypeOK
  BY <1>1 DEF Init, RunTypeOK, PCs, Hand
<1>5. OpTypeOK
  BY <1>1 DEF Init, OpTypeOK, Hand
<1>6. Hands
  BY DEF Init, Hands, InLaunch, InRelease
<1>7. Calls
  BY DEF Init, Calls
<1> QED BY <1>2, <1>3, <1>4, <1>5, <1>6, <1>7 DEF ThreadInv, TypeOK

\* Every variable of the scheduler keeps its type, whatever the services, the
\* threads and the batch weights: in particular the count of a batch stays a
\* natural number (the loop of skynet_context_message_dispatch), and the two
\* flags of a mailbox are 0 or 1.
THEOREM TypeCorrect == Spec => []TypeOK
<1>1. Init => ThreadInv
  BY ThreadInit
<1>2. ThreadInv /\ [Next]_vars => ThreadInv'
  BY TypeStep, HandsStep, CallsStep DEF ThreadInv
<1>3. ThreadInv => TypeOK
  BY DEF ThreadInv
<1> QED BY <1>1, <1>2, <1>3, PTL DEF Spec

-----------------------------------------------------------------------------
\* The references thread t holds to s, those it holds together with the handle
\* storage, and those of the other threads.
Own(t, s) == (IF t \in Creators(s) THEN 1 ELSE 0)
             + (IF t \in Dispatchers(s) THEN 1 ELSE 0)
             + (IF t \in Callers(s) THEN 1 ELSE 0)
Held(t, s) == Stored(s) + Own(t, s)
Others(t, s) == Cardinality(Creators(s) \ {t}) + Cardinality(Dispatchers(s) \ {t})
                + Cardinality(Callers(s) \ {t})

\* What RefCountExact and ContextSafe say of s.
RefOK(s) ==
  /\ ref[s] = Stored(s) + Cardinality(Creators(s)) + Cardinality(Dispatchers(s))
              + Cardinality(Callers(s))
  /\ Referenced(s) => ctx[s] = "live"
  /\ \A t \in Threads : Deletes(t, s) =>
       /\ ctx[s] = "live" /\ ~Referenced(s)
       /\ \A u \in Threads \ {t} : ~Deletes(u, s)

LEMMA RefOKAll == RefCountExact /\ ContextSafe <=> \A s \in Services : RefOK(s)
BY DEF RefCountExact, ContextSafe, RefOK

\* Counting a set of threads with and without t.
LEMMA Count ==
  ASSUME NEW S \in SUBSET Threads, NEW t \in Threads
  PROVE  /\ Cardinality(S \ {t}) \in Nat
         /\ Cardinality(S \ {t}) = 0 <=> S \ {t} = {}
         /\ Cardinality(S) = Cardinality(S \ {t}) + (IF t \in S THEN 1 ELSE 0)
<1>1. IsFiniteSet(Threads)
  BY DispatchAssumption, FS_Union DEF Threads
<1>2. IsFiniteSet(S) /\ IsFiniteSet(S \ {t})
  BY <1>1, FS_Subset
<1>3. Cardinality(S) \in Nat /\ Cardinality(S \ {t}) \in Nat
  BY <1>2, FS_CardinalityType
<1>4. Cardinality(S \ {t}) = IF t \in S THEN Cardinality(S) - 1 ELSE Cardinality(S)
  BY <1>2, FS_RemoveElement
<1>5. Cardinality(S \ {t}) = 0 <=> S \ {t} = {}
  BY <1>2, FS_EmptySet
<1> QED BY <1>3, <1>4, <1>5

\* The references to s are those of the storage and t and those of the others.
SplitOK(t, s) ==
  /\ Others(t, s) \in Nat
  /\ Own(t, s) \in Nat /\ Stored(s) \in Nat
  /\ {Cardinality(Creators(s)), Cardinality(Dispatchers(s)),
      Cardinality(Callers(s))} \subseteq Nat
  /\ Cardinality(Creators(s)) + Cardinality(Dispatchers(s))
       + Cardinality(Callers(s)) = Others(t, s) + Own(t, s)
  /\ Referenced(s) <=> Held(t, s) + Others(t, s) > 0
SplitAll == \A t \in Threads, s \in Services : SplitOK(t, s)

LEMMA Split == SplitAll
<1> SUFFICES ASSUME NEW t \in Threads, NEW s \in Services
             PROVE  SplitOK(t, s)
  BY DEF SplitAll
<1>1. /\ Creators(s) \in SUBSET Threads
      /\ Dispatchers(s) \in SUBSET Threads
      /\ Callers(s) \in SUBSET Threads
  BY DEF Creators, Dispatchers, Callers
<1> DEFINE C == Creators(s)  D == Dispatchers(s)  K == Callers(s)
           c == Cardinality(C \ {t})
           d == Cardinality(D \ {t})
           k == Cardinality(K \ {t})
<1>2. /\ c \in Nat /\ (c = 0 <=> C \ {t} = {})
      /\ Cardinality(C) = c + (IF t \in C THEN 1 ELSE 0)
  BY <1>1, Count
<1>3. /\ d \in Nat /\ (d = 0 <=> D \ {t} = {})
      /\ Cardinality(D) = d + (IF t \in D THEN 1 ELSE 0)
  BY <1>1, Count
<1>4. /\ k \in Nat /\ (k = 0 <=> K \ {t} = {})
      /\ Cardinality(K) = k + (IF t \in K THEN 1 ELSE 0)
  BY <1>1, Count
<1>5. Others(t, s) = c + d + k
  BY DEF Others
<1>6. Stored(s) \in Nat /\ (Stored(s) = 0 <=> slot[s] = "no")
  BY DEF Stored
<1>7. /\ Own(t, s) \in Nat
      /\ Own(t, s) = (IF t \in C THEN 1 ELSE 0) + (IF t \in D THEN 1 ELSE 0)
                     + (IF t \in K THEN 1 ELSE 0)
  BY DEF Own
<1>8. Own(t, s) = 0 <=> t \notin C /\ t \notin D /\ t \notin K
  BY <1>7
<1>9. Referenced(s) <=> \/ Stored(s) # 0 \/ Own(t, s) # 0
                        \/ C \ {t} # {} \/ D \ {t} # {} \/ K \ {t} # {}
  BY <1>6, <1>8 DEF Referenced
<1> HIDE DEF C, D, K, c, d, k
<1>10. Others(t, s) > 0 <=> C \ {t} # {} \/ D \ {t} # {} \/ K \ {t} # {}
  BY <1>2, <1>3, <1>4, <1>5
<1>11. Others(t, s) \in Nat
  BY <1>2, <1>3, <1>4, <1>5
<1>12. Referenced(s) <=> Held(t, s) + Others(t, s) > 0
  BY <1>6, <1>7, <1>9, <1>10, <1>11 DEF Held
<1>13. Cardinality(C) + Cardinality(D) + Cardinality(K) = Others(t, s) + Own(t, s)
  BY <1>2, <1>3, <1>4, <1>5, <1>7
<1>14. {Cardinality(C), Cardinality(D), Cardinality(K)} \subseteq Nat
  BY <1>2, <1>3, <1>4
<1> QED BY <1>6, <1>7, <1>11, <1>12, <1>13, <1>14 DEF C, D, K, SplitOK

\* The threads other than t stay where they are.
OnlyMoves(t) ==
  \A u \in Threads \ {t} :
    /\ pc'[u] = pc[u] /\ new'[u] = new[u] /\ cur'[u] = cur[u]
    /\ op'[u] = op[u] /\ arg'[u] = arg[u]

\* The step of t changes the count of s by what t and the storage gain or lose,
\* and takes up s only if one of them had it.
Balanced(t, s) ==
  /\ ref'[s] + Held(t, s) = ref[s] + Held(t, s)'
  /\ ctx'[s] = ctx[s]
  /\ Held(t, s)' > 0 => Held(t, s) > 0
  /\ Deletes(t, s)' <=> Deletes(t, s)

\* The others hold what they held, and delete what they deleted.
LEMMA Frame ==
  ASSUME NEW t \in Threads, OnlyMoves(t), NEW s \in Services
  PROVE  /\ Others(t, s)' = Others(t, s)
         /\ \A u \in Threads \ {t} : Deletes(u, s)' <=> Deletes(u, s)
<1>1. Creators(s)' \ {t} = Creators(s) \ {t}
  BY DEF OnlyMoves, Creators
<1>2. Dispatchers(s)' \ {t} = Dispatchers(s) \ {t}
  BY DEF OnlyMoves, Dispatchers
<1>3. Callers(s)' \ {t} = Callers(s) \ {t}
  BY DEF OnlyMoves, Callers
<1>4. \A u \in Threads \ {t} : Deletes(u, s)' <=> Deletes(u, s)
  BY DEF OnlyMoves, Deletes
<1> QED BY <1>1, <1>2, <1>3, <1>4 DEF Others

\* A step of t moves the count of s by what t and the storage gain or lose: the
\* count stays exact.
LEMMA CountKept ==
  ASSUME ThreadInv, NEW t \in Threads, OnlyMoves(t),
         NEW s \in Services, RefOK(s), ref'[s] \in Int,
         ref'[s] + Held(t, s) = ref[s] + Held(t, s)'
  PROVE  /\ ref'[s] = Stored(s)' + Cardinality(Creators(s)')
                      + Cardinality(Dispatchers(s)') + Cardinality(Callers(s)')
         /\ Referenced(s)' <=> Held(t, s)' + Others(t, s) > 0
         /\ Referenced(s) <=> Held(t, s) + Others(t, s) > 0
         /\ ref[s] = Held(t, s) + Others(t, s)
         /\ {Held(t, s), Held(t, s)', Others(t, s)} \subseteq Nat
<1>1. SplitOK(t, s)
  BY Split DEF SplitAll
<1>2. SplitOK(t, s)'
  <2>1. SplitAll'
    BY Split, PTL
  <2> QED BY <2>1 DEF SplitAll
<1>3. Others(t, s)' = Others(t, s)
  BY Frame
<1> DEFINE o == Others(t, s)  h == Held(t, s)  k == Held(t, s)'
           n == Cardinality(Creators(s)) + Cardinality(Dispatchers(s))
                + Cardinality(Callers(s))
           m == Cardinality(Creators(s)') + Cardinality(Dispatchers(s)')
                + Cardinality(Callers(s)')
<1>4. /\ o \in Nat /\ h \in Nat /\ k \in Nat
      /\ h = Stored(s) + Own(t, s) /\ k = Stored(s)' + Own(t, s)'
      /\ Stored(s) \in Nat /\ Stored(s)' \in Nat
      /\ Own(t, s) \in Nat /\ Own(t, s)' \in Nat
      /\ n = o + Own(t, s) /\ m = o + Own(t, s)'
      /\ Referenced(s)' <=> k + o > 0
      /\ Referenced(s) <=> h + o > 0
  BY <1>1, <1>2, <1>3 DEF SplitOK, Held
<1>5. ref[s] = Stored(s) + n
  BY <1>1, <1>4 DEF RefOK, SplitOK
<1> HIDE DEF o, h, k, n, m
<1>6. ref[s] = h + o
  BY <1>4, <1>5
<1>7. ref'[s] + h = ref[s] + k
  BY DEF h, k
<1>8. ref'[s] = Stored(s)' + m
  BY <1>4, <1>6, <1>7
<1>9. ref'[s] = Stored(s)' + Cardinality(Creators(s)')
                + Cardinality(Dispatchers(s)') + Cardinality(Callers(s)')
  BY <1>2, <1>4, <1>8 DEF m, SplitOK
<1> QED BY <1>4, <1>6, <1>9 DEF o, h, k

\* A balanced step keeps the count exact and the context safe.
LEMMA BalancedKeeps ==
  ASSUME ThreadInv, NEW t \in Threads, OnlyMoves(t),
         NEW s \in Services, RefOK(s), ref'[s] \in Int, Balanced(t, s)
  PROVE  RefOK(s)'
<1>1. /\ ref'[s] = Stored(s)' + Cardinality(Creators(s)')
                   + Cardinality(Dispatchers(s)') + Cardinality(Callers(s)')
      /\ Referenced(s)' <=> Held(t, s)' + Others(t, s) > 0
      /\ Referenced(s) <=> Held(t, s) + Others(t, s) > 0
      /\ {Held(t, s), Held(t, s)', Others(t, s)} \subseteq Nat
  BY CountKept DEF Balanced
<1>2. Referenced(s)' => Referenced(s)
  BY <1>1 DEF Balanced
<1>3. \A u \in Threads : Deletes(u, s)' <=> Deletes(u, s)
  BY Frame DEF Balanced
<1>4. ctx'[s] = ctx[s]
  BY DEF Balanced
<1> QED BY <1>1, <1>2, <1>3, <1>4 DEF RefOK

\* What t knows: Creators, Dispatchers and Callers, seen from t, and the calls it
\* may be in.
LEMMA Local ==
  ASSUME ThreadInv, NEW t \in Threads
  PROVE  /\ pc[t] \notin {"idle", "callback", "init", "failed", "launched",
                         "failretire", "mqrelease", "done", "drop"}
              => op[t] = "none"
         /\ op[t] = "none" <=> arg[t] = NoOne
         /\ pc[t] \in {"first", "next", "rotate", "pushback"} => cur[t] \in Services
         /\ pc[t] \in InLaunch => new[t] \in Services
         /\ new[t] # NoOne => pc[t] \in InLaunch \cup InRelease
         /\ op[t] # "none" => arg[t] \in Services
         /\ pc[t] = "take" => cur[t] = NoOne
  BY HandFacts DEF ThreadInv, Hands, Calls, InRelease

\* At the end of a turn the reference goes from the worker's hand to the call that
\* releases it.
LEMMA HandsOver ==
  ASSUME ThreadInv, NEW t \in Threads, NEW s \in Services,
         pc[t] \in {"first", "next", "rotate", "pushback"}, ReleaseCur(t),
         UNCHANGED <<slot, ref, ctx, new>>
  PROVE  Balanced(t, s)
<1>1. RunTypeOK /\ OpTypeOK /\ SvcTypeOK
  BY DEF ThreadInv, TypeOK
<1>2. /\ op[t] = "none" /\ cur[t] \in Services /\ new[t] = NoOne
      /\ NoOne \notin Services
  BY Local, DispatchAssumption DEF InLaunch, InRelease
<1>3. /\ op'[t] = "release" /\ arg'[t] = cur[t] /\ cur'[t] = NoOne
      /\ new'[t] = NoOne
  BY <1>1, <1>2 DEF ReleaseCur, RunTypeOK, OpTypeOK
<1>4. /\ t \notin Creators(s) /\ t \notin Creators(s)'
      /\ t \notin Callers(s) /\ t \notin Dispatchers(s)'
      /\ t \in Dispatchers(s) <=> cur[t] = s
      /\ t \in Callers(s)' <=> cur[t] = s
  BY <1>2, <1>3 DEF Creators, Callers, Dispatchers
<1>5. Own(t, s)' = Own(t, s)
  BY <1>4 DEF Own
<1>6. ~Deletes(t, s) /\ ~Deletes(t, s)'
  BY <1>2, <1>3 DEF Deletes
<1>7. Held(t, s)' = Held(t, s)
  BY <1>5 DEF Held, Stored
<1> QED BY <1>6, <1>7 DEF Balanced

\* The steps that take no reference a thread did not have: they only move one
\* between the thread's hands, the storage and a call in progress, or count it.
LEMMA Ordinary ==
  ASSUME ThreadInv, Newborns, NEW t \in Threads,
         \/ MqPush(t) \/ MarkRelease(t) \/ Publish(t) \/ MqCreate(t)
         \/ InitReturns(t) \/ FailRelease(t) \/ SetInit(t) \/ Enqueue(t)
         \/ FailRetire(t) \/ GlobalPop(t) \/ PopMessage(t) \/ PopEmpty(t)
         \/ CallbackReturns(t) \/ SizeBatch(t) \/ Rotate(t) \/ PushBack(t) \/ Return(t)
         \/ MqRelease(t) \/ DropMessage(t) \/ ReleaseMq(t) \/ InitFails(t)
         \/ Report(t) \/ Take(t) \/ Bounce(t)
  PROVE  OnlyMoves(t) /\ \A s \in Services : Balanced(t, s)
<1> USE DEF Stored, Creators, Dispatchers, Callers, Deletes, Own, Held, Balanced,
            InLaunch, InRelease
<1>0. SvcTypeOK /\ RunTypeOK /\ OpTypeOK
  BY DEF ThreadInv, TypeOK
<1>a. NoOne \notin Services /\ Boot \in Services
  BY DispatchAssumption
<1>1. CASE MqPush(t)
  <2>1. OnlyMoves(t)
    BY <1>0, <1>1 DEF MqPush, svcVars, runVars, OnlyMoves, RunTypeOK, OpTypeOK
  <2>2. ASSUME NEW s \in Services
        PROVE  Balanced(t, s)
    BY <1>0, <1>a, <1>1, Local, HandFacts DEF MqPush, svcVars, runVars,
       SvcTypeOK, RunTypeOK, OpTypeOK
  <2> QED BY <2>1, <2>2
<1>2. CASE MarkRelease(t)
  <2>1. OnlyMoves(t)
    BY <1>0, <1>2 DEF MarkRelease, svcVars, runVars, OnlyMoves, RunTypeOK,
     OpTypeOK
  <2>2. ASSUME NEW s \in Services
        PROVE  Balanced(t, s)
    BY <1>0, <1>a, <1>2, Local, HandFacts DEF MarkRelease, svcVars, runVars,
       SvcTypeOK, RunTypeOK, OpTypeOK
  <2> QED BY <2>1, <2>2
<1>3. CASE Publish(t)
  <2>1. OnlyMoves(t)
    BY <1>0, <1>3 DEF Publish, mqVars, opVars, OnlyMoves, RunTypeOK, OpTypeOK
  <2>2. ASSUME NEW s \in Services
        PROVE  Balanced(t, s)
    BY <1>0, <1>a, <1>3, Local DEF Publish, mqVars, opVars, SvcTypeOK,
       RunTypeOK, OpTypeOK, Newborns
  <2> QED BY <2>1, <2>2
<1>4. CASE MqCreate(t)
  <2>1. OnlyMoves(t)
    BY <1>0, <1>4 DEF MqCreate, opVars, OnlyMoves, RunTypeOK, OpTypeOK
  <2>2. ASSUME NEW s \in Services
        PROVE  Balanced(t, s)
    BY <1>0, <1>a, <1>4, Local, HandFacts DEF MqCreate, opVars, SvcTypeOK,
       RunTypeOK, OpTypeOK
  <2> QED BY <2>1, <2>2
<1>5. CASE InitReturns(t)
  <2>1. OnlyMoves(t)
    BY <1>0, <1>5 DEF InitReturns, Free, svcVars, mqVars, OnlyMoves,
     RunTypeOK, OpTypeOK
  <2>2. ASSUME NEW s \in Services
        PROVE  Balanced(t, s)
    BY <1>0, <1>a, <1>5, Local, HandFacts DEF InitReturns, Free, svcVars,
       mqVars, SvcTypeOK, RunTypeOK, OpTypeOK
  <2> QED BY <2>1, <2>2
<1>6. CASE FailRelease(t)
  <2>1. OnlyMoves(t)
    BY <1>0, <1>6 DEF FailRelease, Free, svcVars, mqVars, OnlyMoves,
     RunTypeOK, OpTypeOK
  <2>2. ASSUME NEW s \in Services
        PROVE  Balanced(t, s)
    BY <1>0, <1>a, <1>6, Local, HandFacts DEF FailRelease, Free, svcVars,
       mqVars, SvcTypeOK, RunTypeOK, OpTypeOK
  <2> QED BY <2>1, <2>2
<1>7. CASE SetInit(t)
  <2>1. OnlyMoves(t)
    BY <1>0, <1>7 DEF SetInit, Free, mqVars, opVars, OnlyMoves, RunTypeOK,
     OpTypeOK
  <2>2. ASSUME NEW s \in Services
        PROVE  Balanced(t, s)
    BY <1>0, <1>a, <1>7, Local, HandFacts DEF SetInit, Free, mqVars, opVars,
       SvcTypeOK, RunTypeOK, OpTypeOK
  <2> QED BY <2>1, <2>2
<1>8. CASE Enqueue(t)
  <2>1. OnlyMoves(t)
    BY <1>0, <1>8 DEF Enqueue, svcVars, opVars, OnlyMoves, RunTypeOK, OpTypeOK
  <2>2. ASSUME NEW s \in Services
        PROVE  Balanced(t, s)
    BY <1>0, <1>a, <1>8, Local, HandFacts DEF Enqueue, svcVars, opVars,
       SvcTypeOK, RunTypeOK, OpTypeOK
  <2> QED BY <2>1, <2>2
<1>9. CASE FailRetire(t)
  <2>1. OnlyMoves(t)
    BY <1>0, <1>9 DEF FailRetire, Free, Retire, svcVars, mqVars, opVars,
     OnlyMoves, RunTypeOK, OpTypeOK
  <2>2. ASSUME NEW s \in Services
        PROVE  Balanced(t, s)
    BY <1>0, <1>a, <1>9, Local, HandFacts DEF FailRetire, Free, Retire,
       svcVars, mqVars, opVars, SvcTypeOK, RunTypeOK, OpTypeOK
  <2> QED BY <2>1, <2>2
<1>10. CASE GlobalPop(t)
  <2>1. OnlyMoves(t)
    BY <1>0, <1>10 DEF GlobalPop, svcVars, opVars, OnlyMoves, RunTypeOK,
     OpTypeOK
  <2>2. ASSUME NEW s \in Services
        PROVE  Balanced(t, s)
    BY <1>0, <1>a, <1>10, Local, HandFacts DEF GlobalPop, svcVars, opVars,
       SvcTypeOK, RunTypeOK, OpTypeOK
  <2> QED BY <2>1, <2>2
<1>11. CASE PopMessage(t)
  <2>1. OnlyMoves(t)
    BY <1>0, <1>11 DEF PopMessage, svcVars, opVars, OnlyMoves, RunTypeOK,
     OpTypeOK
  <2>2. ASSUME NEW s \in Services
        PROVE  Balanced(t, s)
    BY <1>0, <1>a, <1>11, Local, HandFacts DEF PopMessage, svcVars, opVars,
       SvcTypeOK, RunTypeOK, OpTypeOK
  <2> QED BY <2>1, <2>2
<1>12. CASE PopEmpty(t)
  <2>1. OnlyMoves(t)
    BY <1>0, <1>12 DEF PopEmpty, ReleaseCur, svcVars, OnlyMoves, RunTypeOK,
     OpTypeOK
  <2>2. ASSUME NEW s \in Services
        PROVE  Balanced(t, s)
    BY <1>12, HandsOver DEF PopEmpty, svcVars
  <2> QED BY <2>1, <2>2
<1>13. CASE CallbackReturns(t) \/ SizeBatch(t)
  <2>1. OnlyMoves(t)
    BY <1>0, <1>13 DEF CallbackReturns, SizeBatch, Free, svcVars, mqVars, opVars,
     OnlyMoves, RunTypeOK, OpTypeOK
  <2>2. ASSUME NEW s \in Services
        PROVE  Balanced(t, s)
    BY <1>0, <1>a, <1>13, Local, HandFacts DEF CallbackReturns, SizeBatch, Free,
       svcVars, mqVars, opVars, SvcTypeOK, RunTypeOK, OpTypeOK
  <2> QED BY <2>1, <2>2
<1>14. CASE Rotate(t)
  <2>1. OnlyMoves(t)
    BY <1>0, <1>14 DEF Rotate, ReleaseCur, svcVars, OnlyMoves, RunTypeOK,
     OpTypeOK
  <2>2. ASSUME NEW s \in Services
        PROVE  Balanced(t, s)
    <3>1. CASE globalQ = <<>>
      BY <1>14, <3>1, HandsOver DEF Rotate, svcVars
    <3>2. CASE globalQ # <<>>
      BY <1>0, <1>a, <1>14, <3>2, Local DEF Rotate, svcVars, SvcTypeOK,
         RunTypeOK, OpTypeOK
    <3> QED BY <3>1, <3>2
  <2> QED BY <2>1, <2>2
<1>15. CASE PushBack(t)
  <2>1. OnlyMoves(t)
    BY <1>0, <1>15 DEF PushBack, ReleaseCur, svcVars, OnlyMoves, RunTypeOK,
     OpTypeOK
  <2>2. ASSUME NEW s \in Services
        PROVE  Balanced(t, s)
    BY <1>15, HandsOver DEF PushBack, svcVars
  <2> QED BY <2>1, <2>2
<1>16. CASE Return(t)
  <2>1. OnlyMoves(t)
    BY <1>0, <1>16 DEF Return, Free, svcVars, mqVars, opVars, OnlyMoves,
     RunTypeOK, OpTypeOK
  <2>2. ASSUME NEW s \in Services
        PROVE  Balanced(t, s)
    BY <1>0, <1>a, <1>16, Local, HandFacts DEF Return, Free, svcVars, mqVars,
       opVars, SvcTypeOK, RunTypeOK, OpTypeOK
  <2> QED BY <2>1, <2>2
<1>17. CASE MqRelease(t)
  <2>1. OnlyMoves(t)
    BY <1>0, <1>17 DEF MqRelease, LeaveMqRelease, Free, svcVars, opVars,
     OnlyMoves, RunTypeOK, OpTypeOK
  <2>2. ASSUME NEW s \in Services
        PROVE  Balanced(t, s)
    BY <1>0, <1>a, <1>17, Local, HandFacts DEF MqRelease, LeaveMqRelease,
       Free, svcVars, opVars, SvcTypeOK, RunTypeOK, OpTypeOK
  <2> QED BY <2>1, <2>2
<1>18. CASE DropMessage(t)
  <2>1. OnlyMoves(t)
    BY <1>0, <1>18 DEF DropMessage, Free, svcVars, opVars, OnlyMoves,
     RunTypeOK, OpTypeOK
  <2>2. ASSUME NEW s \in Services
        PROVE  Balanced(t, s)
    BY <1>0, <1>a, <1>18, Local, HandFacts DEF DropMessage, Free, svcVars,
       opVars, SvcTypeOK, RunTypeOK, OpTypeOK
  <2> QED BY <2>1, <2>2
<1>19. CASE ReleaseMq(t)
  <2>1. OnlyMoves(t)
    BY <1>0, <1>19 DEF ReleaseMq, LeaveMqRelease, Free, svcVars, opVars,
     OnlyMoves, RunTypeOK, OpTypeOK
  <2>2. ASSUME NEW s \in Services
        PROVE  Balanced(t, s)
    BY <1>0, <1>a, <1>19, Local, HandFacts DEF ReleaseMq, LeaveMqRelease,
       Free, svcVars, opVars, SvcTypeOK, RunTypeOK, OpTypeOK
  <2> QED BY <2>1, <2>2
<1>20. CASE InitFails(t)
  <2>1. OnlyMoves(t)
    BY <1>0, <1>20 DEF InitFails, Log, GrabToPush, Free, mqVars, opVars,
     OnlyMoves, RunTypeOK, OpTypeOK
  <2>2. ASSUME NEW s \in Services
        PROVE  Balanced(t, s)
    BY <1>0, <1>a, <1>20, Local, HandFacts DEF InitFails, Log, GrabToPush,
       Free, mqVars, opVars, SvcTypeOK, RunTypeOK, OpTypeOK
  <2> QED BY <2>1, <2>2
<1>21. CASE Report(t)
  <2>1. OnlyMoves(t)
    BY <1>0, <1>21 DEF Report, Log, GrabToPush, mqVars, opVars, OnlyMoves,
     RunTypeOK, OpTypeOK
  <2>2. ASSUME NEW s \in Services
        PROVE  Balanced(t, s)
    BY <1>0, <1>a, <1>21, Local, HandFacts DEF Report, Log, GrabToPush,
       mqVars, opVars, SvcTypeOK, RunTypeOK, OpTypeOK
  <2> QED BY <2>1, <2>2
<1>22. CASE Take(t)
  <2>1. OnlyMoves(t)
    BY <1>0, <1>22 DEF Take, mqVars, opVars, OnlyMoves, RunTypeOK, OpTypeOK
  <2>2. ASSUME NEW s \in Services
        PROVE  Balanced(t, s)
    BY <1>0, <1>a, <1>22, Local, HandFacts DEF Take, mqVars, opVars,
       SvcTypeOK, RunTypeOK, OpTypeOK
  <2> QED BY <2>1, <2>2
<1>23. CASE Bounce(t)
  <2>1. OnlyMoves(t)
    BY <1>0, <1>23 DEF Bounce, GrabToPush, mqVars, opVars, OnlyMoves,
     RunTypeOK, OpTypeOK
  <2>2. ASSUME NEW s \in Services
        PROVE  Balanced(t, s)
    BY <1>0, <1>a, <1>23, Local, HandFacts DEF Bounce, GrabToPush, mqVars,
       opVars, SvcTypeOK, RunTypeOK, OpTypeOK
  <2> QED BY <2>1, <2>2
<1> QED BY <1>1, <1>2, <1>3, <1>4, <1>5, <1>6, <1>7, <1>8, <1>9, <1>10, <1>11,
   <1>12, <1>13, <1>14, <1>15, <1>16, <1>17, <1>18, <1>19, <1>20, <1>21, <1>22,
   <1>23

\* A send takes a reference to a service that is in the storage; a kill turns the
\* storage's reference into that of a call.
LEMMA OrdinaryChoice ==
  ASSUME ThreadInv, NEW t \in Threads, NEW d \in Services,
         Send(t, d) \/ Kill(t, d)
  PROVE  OnlyMoves(t) /\ \A s \in Services : Balanced(t, s)
<1> USE DEF Stored, Creators, Dispatchers, Callers, Deletes, Own, Held, Balanced
<1>0. SvcTypeOK /\ RunTypeOK /\ OpTypeOK
  BY DEF ThreadInv, TypeOK
<1>1. NoOne \notin Services
  BY DispatchAssumption
<1>2. CASE Send(t, d)
  <2>1. OnlyMoves(t)
    BY <1>0, <1>2 DEF Send, GrabToPush, runVars, OnlyMoves, OpTypeOK
  <2>2. ASSUME NEW s \in Services
        PROVE  Balanced(t, s)
    BY <1>0, <1>1, <1>2 DEF Send, InCode, Free, GrabToPush, runVars, SvcTypeOK,
       OpTypeOK
  <2> QED BY <2>1, <2>2
<1>3. CASE Kill(t, d)
  <2>1. OnlyMoves(t)
    BY <1>0, <1>3 DEF Kill, Retire, runVars, OnlyMoves, OpTypeOK
  <2>2. ASSUME NEW s \in Services
        PROVE  Balanced(t, s)
    BY <1>0, <1>1, <1>3 DEF Kill, Retire, InCode, Free, runVars, SvcTypeOK,
       OpTypeOK
  <2> QED BY <2>1, <2>2
<1> QED BY <1>2, <1>3

\* A launch takes two references to a context nobody knows, the storage's and its
\* own.
LEMMA LaunchKeeps ==
  ASSUME ThreadInv, ThreadInv', NEW t \in Threads, NEW d \in Services,
         Launch(t, d), \A s \in Services : RefOK(s)
  PROVE  \A s \in Services : RefOK(s)'
<1>0. SvcTypeOK /\ RunTypeOK /\ OpTypeOK /\ SvcTypeOK'
  BY DEF ThreadInv, TypeOK
<1>1. OnlyMoves(t)
  BY <1>0 DEF Launch, opVars, OnlyMoves, RunTypeOK
<1>2. ASSUME NEW s \in Services, s # d
      PROVE  RefOK(s)'
  <2>1. Balanced(t, s)
    BY <1>0, <1>2, DispatchAssumption DEF Launch, opVars, SvcTypeOK, RunTypeOK,
       Balanced, Held, Own, Stored, Creators, Dispatchers, Callers, Deletes
  <2> QED BY <1>0, <1>1, <2>1, BalancedKeeps DEF SvcTypeOK
<1>3. RefOK(d)'
  <2>1. ctx[d] = "none" /\ ctx'[d] = "live" /\ ref'[d] = 2 /\ op[t] = "none"
    BY <1>0 DEF Launch, InCode, Free, SvcTypeOK
  <2>2. ~Referenced(d) /\ \A u \in Threads : ~Deletes(u, d)
    BY <2>1 DEF RefOK
  <2>3. Held(t, d)' = 2 /\ Held(t, d) = 0
    <3>1. /\ slot[d] = "no" /\ t \notin Creators(d) /\ t \notin Dispatchers(d)
          /\ t \notin Callers(d)
      BY <2>2 DEF Referenced
    <3>2. /\ slot'[d] = "reserved" /\ t \in Creators(d)'
          /\ t \notin Dispatchers(d)' /\ t \notin Callers(d)'
      BY <1>0, <3>1 DEF Launch, opVars, SvcTypeOK, RunTypeOK, Creators,
         Dispatchers, Callers
    <3> QED BY <3>1, <3>2 DEF Held, Own, Stored
  <2>4. ref[d] = 0
    <3>1. SplitOK(t, d)
      BY Split DEF SplitAll
    <3>2. Others(t, d) = 0 /\ Own(t, d) = 0 /\ Stored(d) = 0
      BY <2>2, <2>3, <3>1 DEF SplitOK, Held
    <3> QED BY <3>1, <3>2 DEF RefOK, SplitOK
  <2>5. ref'[d] = Stored(d)' + Cardinality(Creators(d)')
                  + Cardinality(Dispatchers(d)') + Cardinality(Callers(d)')
    BY <1>1, <2>1, <2>3, <2>4, CountKept
  <2>6. \A u \in Threads : ~Deletes(u, d)'
    BY <1>1, <2>1, <2>2, Frame DEF Launch, opVars, Deletes
  <2> QED BY <2>1, <2>5, <2>6 DEF RefOK
<1> QED BY <1>2, <1>3

\* The thread that releases the last reference is alone with the context.
LEMMA ReleaseKeeps ==
  ASSUME ThreadInv, ThreadInv', NEW t \in Threads, ContextRelease(t),
         \A s \in Services : RefOK(s)
  PROVE  \A s \in Services : RefOK(s)'
<1>0. SvcTypeOK /\ RunTypeOK /\ OpTypeOK /\ SvcTypeOK'
  BY DEF ThreadInv, TypeOK
<1>b. NoOne \notin Services
  BY DispatchAssumption
<1>a. PICK d \in Services : d = arg[t]
  BY Local DEF ContextRelease
<1>1. OnlyMoves(t)
  BY <1>0 DEF ContextRelease, OnlyMoves, OpTypeOK
<1>2. ASSUME NEW s \in Services, s # d
      PROVE  RefOK(s)'
  <2>1. Balanced(t, s)
    BY <1>0, <1>a, <1>b, <1>2 DEF ContextRelease, SvcTypeOK, OpTypeOK, Balanced, Held,
       Own, Stored, Creators, Dispatchers, Callers, Deletes
  <2> QED BY <1>0, <1>1, <2>1, BalancedKeeps DEF SvcTypeOK
<1>3. CASE ref[d] # 1
  <2>1. Balanced(t, d)
    BY <1>0, <1>a, <1>b, <1>3 DEF ContextRelease, SvcTypeOK, OpTypeOK, Balanced, Held,
       Own, Stored, Creators, Dispatchers, Callers, Deletes
  <2>2. RefOK(d)'
    BY <1>0, <1>a, <1>b, <1>1, <2>1, BalancedKeeps DEF SvcTypeOK
  <2> QED BY <1>2, <2>2
<1>4. CASE ref[d] = 1
  <2>1. /\ ref'[d] = 0 /\ ctx'[d] = ctx[d]
        /\ t \in Callers(d)
    BY <1>0, <1>a, <1>b, <1>4 DEF ContextRelease, SvcTypeOK, Callers
  <2>2. ref'[d] + Held(t, d) = ref[d] + Held(t, d)'
    BY <1>0, <1>a, <1>b, <1>4 DEF ContextRelease, SvcTypeOK, OpTypeOK, Held, Own,
       Stored, Creators, Dispatchers, Callers
  <2>3. /\ ref'[d] = Stored(d)' + Cardinality(Creators(d)')
                     + Cardinality(Dispatchers(d)') + Cardinality(Callers(d)')
        /\ Referenced(d)' <=> Held(t, d)' + Others(t, d) > 0
        /\ ref[d] = Held(t, d) + Others(t, d)
        /\ {Held(t, d), Held(t, d)', Others(t, d)} \subseteq Nat
    BY <1>0, <1>a, <1>b, <1>1, <2>2, CountKept DEF SvcTypeOK
  <2>4. ~Referenced(d)'
    BY <1>4, <2>1, <2>2, <2>3
  <2>5. Referenced(d)
    BY <2>1 DEF Referenced
  <2>6. ctx[d] = "live" /\ \A u \in Threads : ~Deletes(u, d)
    BY <1>a, <1>b, <2>5 DEF RefOK
  <2>7. \A u \in Threads \ {t} : ~Deletes(u, d)'
    BY <1>a, <1>b, <1>1, <2>6, Frame
  <2>8. RefOK(d)'
    BY <2>1, <2>3, <2>4, <2>6, <2>7 DEF RefOK
  <2> QED BY <1>2, <2>8
<1> QED BY <1>3, <1>4

\* The context is freed by the one thread that deletes it, and nobody refers to it.
LEMMA DeleteKeeps ==
  ASSUME ThreadInv, ThreadInv', NEW t \in Threads, DeleteContext(t),
         \A s \in Services : RefOK(s)
  PROVE  \A s \in Services : RefOK(s)'
<1>0. SvcTypeOK /\ RunTypeOK /\ OpTypeOK /\ SvcTypeOK'
  BY DEF ThreadInv, TypeOK
<1>b. NoOne \notin Services
  BY DispatchAssumption
<1>a. PICK d \in Services : d = arg[t]
  BY Local DEF DeleteContext
<1>1. OnlyMoves(t)
  BY <1>0 DEF DeleteContext, runVars, OnlyMoves, OpTypeOK
<1>2. ASSUME NEW s \in Services, s # d
      PROVE  RefOK(s)'
  <2>1. Balanced(t, s)
    BY <1>0, <1>a, <1>b, <1>2 DEF DeleteContext, runVars, SvcTypeOK, OpTypeOK,
       Balanced, Held, Own, Stored, Creators, Dispatchers, Callers, Deletes
  <2> QED BY <1>0, <1>1, <2>1, BalancedKeeps DEF SvcTypeOK
<1>3. RefOK(d)'
  <2>1. Deletes(t, d)
    BY <1>a DEF DeleteContext, Deletes
  <2>2. ~Referenced(d) /\ \A u \in Threads \ {t} : ~Deletes(u, d)
    BY <1>a, <1>b, <2>1 DEF RefOK
  <2>3. ref'[d] + Held(t, d) = ref[d] + Held(t, d)'
    BY <1>0, <1>a, <1>b DEF DeleteContext, runVars, SvcTypeOK, OpTypeOK, Held, Own,
       Stored, Creators, Dispatchers, Callers
  <2>4. /\ ref'[d] = Stored(d)' + Cardinality(Creators(d)')
                     + Cardinality(Dispatchers(d)') + Cardinality(Callers(d)')
        /\ Referenced(d)' <=> Held(t, d)' + Others(t, d) > 0
        /\ Referenced(d) <=> Held(t, d) + Others(t, d) > 0
        /\ ref[d] = Held(t, d) + Others(t, d)
        /\ {Held(t, d), Held(t, d)', Others(t, d)} \subseteq Nat
    BY <1>0, <1>a, <1>b, <1>1, <2>3, CountKept DEF SvcTypeOK
  <2>5. ref'[d] = ref[d]
    BY DEF DeleteContext
  <2>6. ~Referenced(d)'
    BY <2>2, <2>3, <2>4, <2>5
  <2>7. \A u \in Threads : ~Deletes(u, d)'
    <3>1. ~Deletes(t, d)'
      BY <1>0 DEF DeleteContext, OpTypeOK, Deletes
    <3>2. \A u \in Threads \ {t} : ~Deletes(u, d)'
      BY <1>a, <1>b, <1>1, <2>2, Frame
    <3> QED BY <3>1, <3>2
  <2> QED BY <2>4, <2>6, <2>7 DEF RefOK
<1> QED BY <1>2, <1>3

\* Launches stay apart: the context of a new service is nobody else's.
LEMMA NewbornsStep ==
  ASSUME ThreadInv, Newborns, [Next]_vars
  PROVE  Newborns'
<1> USE DEF Newborns
<1>0. SvcTypeOK /\ RunTypeOK /\ OpTypeOK
  BY DEF ThreadInv, TypeOK
<1>a. /\ NoOne \notin Services
      /\ \A u \in Threads : /\ new[u] # NoOne => new[u] \in Services
                           /\ pc[u] = "publish" => new[u] \in Services
  BY <1>0, Local, DispatchAssumption DEF RunTypeOK, Hand, InLaunch
<1>b. ASSUME UNCHANGED <<slot, ctx>>,
             \A u \in Threads : \/ new'[u] = NoOne /\ pc'[u] # "publish"
                                \/ /\ new'[u] = new[u]
                                   /\ pc'[u] = "publish" => pc[u] = "publish"
      PROVE  Newborns'
  BY <1>0, <1>a, <1>b
<1>1. ASSUME NEW t \in Threads, MqPush(t)
      PROVE  Newborns'
  BY <1>0, <1>a, <1>1 DEF MqPush, svcVars, runVars, SvcTypeOK, RunTypeOK
<1>2. ASSUME NEW t \in Threads, ContextRelease(t)
      PROVE  Newborns'
  BY <1>0, <1>a, <1>2 DEF ContextRelease, SvcTypeOK, RunTypeOK
<1>3. ASSUME NEW t \in Threads, MarkRelease(t)
      PROVE  Newborns'
  BY <1>0, <1>a, <1>3 DEF MarkRelease, svcVars, runVars, SvcTypeOK, RunTypeOK
<1>4. ASSUME NEW t \in Threads, DeleteContext(t)
      PROVE  Newborns'
  BY <1>0, <1>a, <1>4 DEF DeleteContext, runVars, SvcTypeOK, RunTypeOK
<1>5. ASSUME NEW t \in Threads, Publish(t)
      PROVE  Newborns'
  BY <1>0, <1>a, <1>5 DEF Publish, mqVars, opVars, SvcTypeOK, RunTypeOK
<1>6. ASSUME NEW t \in Threads, MqCreate(t)
      PROVE  Newborns'
  BY <1>0, <1>a, <1>6 DEF MqCreate, opVars, SvcTypeOK, RunTypeOK
<1>7. ASSUME NEW t \in Threads, InitReturns(t)
      PROVE  Newborns'
  BY <1>0, <1>a, <1>7 DEF InitReturns, Free, svcVars, mqVars, SvcTypeOK,
     RunTypeOK
<1>8. ASSUME NEW t \in Threads, InitFails(t)
      PROVE  Newborns'
  BY <1>0, <1>a, <1>8 DEF InitFails, Log, GrabToPush, Free, mqVars, opVars,
     SvcTypeOK, RunTypeOK
<1>9. ASSUME NEW t \in Threads, SetInit(t)
      PROVE  Newborns'
  BY <1>0, <1>a, <1>9 DEF SetInit, Free, mqVars, opVars, SvcTypeOK, RunTypeOK
<1>10. ASSUME NEW t \in Threads, Enqueue(t)
       PROVE  Newborns'
  BY <1>0, <1>a, <1>10 DEF Enqueue, svcVars, opVars, SvcTypeOK, RunTypeOK
<1>11. ASSUME NEW t \in Threads, Report(t)
       PROVE  Newborns'
  BY <1>0, <1>a, <1>11 DEF Report, Log, GrabToPush, mqVars, opVars,
     SvcTypeOK, RunTypeOK
<1>12. ASSUME NEW t \in Threads, FailRelease(t)
       PROVE  Newborns'
  BY <1>0, <1>a, <1>12 DEF FailRelease, Free, svcVars, mqVars, SvcTypeOK,
     RunTypeOK
<1>13. ASSUME NEW t \in Threads, FailRetire(t)
       PROVE  Newborns'
  <2>1. UNCHANGED <<ctx, new>> /\ pc' = [pc EXCEPT ![t] = "mqrelease"]
    BY <1>13 DEF FailRetire, Retire, svcVars
  <2>2. \A u \in Threads : pc[u] = "publish" => slot'[new[u]] = slot[new[u]]
    <3>1. CASE UNCHANGED slot
      BY <3>1
    <3>2. CASE slot[new[t]] = "published" /\ slot' = [slot EXCEPT ![new[t]] = "no"]
      BY <1>0, <1>a, <3>2 DEF SvcTypeOK
    <3> QED BY <1>13, <3>1, <3>2 DEF FailRetire, Retire, svcVars
  <2> QED BY <1>0, <2>1, <2>2 DEF RunTypeOK
<1>14. ASSUME NEW t \in Threads, GlobalPop(t)
       PROVE  Newborns'
  BY <1>0, <1>a, <1>14 DEF GlobalPop, svcVars, opVars, SvcTypeOK, RunTypeOK
<1>15. ASSUME NEW t \in Threads, Take(t)
       PROVE  Newborns'
  BY <1>0, <1>a, <1>15 DEF Take, mqVars, opVars, SvcTypeOK, RunTypeOK
<1>16. ASSUME NEW t \in Threads, PopMessage(t)
       PROVE  Newborns'
  BY <1>0, <1>a, <1>16 DEF PopMessage, svcVars, opVars, SvcTypeOK, RunTypeOK
<1>17. ASSUME NEW t \in Threads, PopEmpty(t)
       PROVE  Newborns'
  BY <1>0, <1>a, <1>17 DEF PopEmpty, ReleaseCur, svcVars, SvcTypeOK, RunTypeOK
<1>18. ASSUME NEW t \in Threads, CallbackReturns(t) \/ SizeBatch(t)
       PROVE  Newborns'
  BY <1>0, <1>a, <1>18 DEF CallbackReturns, SizeBatch, Free, svcVars, mqVars, opVars,
     SvcTypeOK, RunTypeOK
<1>19. ASSUME NEW t \in Threads, Rotate(t)
       PROVE  Newborns'
  BY <1>0, <1>a, <1>19 DEF Rotate, ReleaseCur, svcVars, SvcTypeOK, RunTypeOK
<1>20. ASSUME NEW t \in Threads, PushBack(t)
       PROVE  Newborns'
  BY <1>0, <1>a, <1>20 DEF PushBack, ReleaseCur, svcVars, SvcTypeOK, RunTypeOK
<1>21. ASSUME NEW t \in Threads, Return(t)
       PROVE  Newborns'
  BY <1>0, <1>a, <1>21 DEF Return, Free, svcVars, mqVars, opVars, SvcTypeOK,
     RunTypeOK
<1>22. ASSUME NEW t \in Threads, MqRelease(t)
       PROVE  Newborns'
  <2>1. UNCHANGED <<slot, ctx>>
    BY <1>22 DEF MqRelease, svcVars
  <2>2. CASE UNCHANGED new /\ \E c \in {"drop", "idle"} : pc' = [pc EXCEPT ![t] = c]
    BY <1>0, <1>b, <2>1, <2>2 DEF RunTypeOK
  <2>3. CASE /\ new' = [new EXCEPT ![t] = NoOne]
             /\ pc' = [pc EXCEPT ![t] = "callback"]
    BY <1>0, <1>b, <2>1, <2>3 DEF RunTypeOK
  <2> QED BY <1>22, <2>2, <2>3 DEF MqRelease, LeaveMqRelease
<1>23. ASSUME NEW t \in Threads, DropMessage(t)
       PROVE  Newborns'
  BY <1>0, <1>a, <1>23 DEF DropMessage, Free, svcVars, opVars, SvcTypeOK,
     RunTypeOK
<1>24. ASSUME NEW t \in Threads, Bounce(t)
       PROVE  Newborns'
  BY <1>0, <1>a, <1>24 DEF Bounce, GrabToPush, mqVars, opVars, SvcTypeOK,
     RunTypeOK
<1>25. ASSUME NEW t \in Threads, ReleaseMq(t)
       PROVE  Newborns'
  <2>1. UNCHANGED <<slot, ctx>>
    BY <1>25 DEF ReleaseMq, svcVars
  <2>2. CASE UNCHANGED new /\ \E c \in {"drop", "idle"} : pc' = [pc EXCEPT ![t] = c]
    BY <1>0, <1>b, <2>1, <2>2 DEF RunTypeOK
  <2>3. CASE /\ new' = [new EXCEPT ![t] = NoOne]
             /\ pc' = [pc EXCEPT ![t] = "callback"]
    BY <1>0, <1>b, <2>1, <2>3 DEF RunTypeOK
  <2> QED BY <1>25, <2>2, <2>3 DEF ReleaseMq, LeaveMqRelease
<1>26. ASSUME NEW t \in Threads, NEW d \in Services, Send(t, d)
       PROVE  Newborns'
  BY <1>0, <1>a, <1>26 DEF Send, GrabToPush, runVars
<1>27. ASSUME NEW t \in Threads, NEW d \in Services, Kill(t, d)
       PROVE  Newborns'
  BY <1>0, <1>a, <1>27 DEF Kill, Retire, runVars, SvcTypeOK
<1>28. ASSUME NEW t \in Threads, NEW d \in Services, Launch(t, d)
       PROVE  Newborns'
  BY <1>0, <1>a, <1>28 DEF Launch, SvcTypeOK, RunTypeOK
<1>29. CASE UNCHANGED vars
  BY <1>29 DEF vars, svcVars, runVars
<1> QED BY <1>1, <1>2, <1>3, <1>4, <1>5, <1>6, <1>7, <1>8, <1>9, <1>10,
   <1>11, <1>12, <1>13, <1>14, <1>15, <1>16, <1>17, <1>18, <1>19, <1>20,
   <1>21, <1>22, <1>23, <1>24, <1>25, <1>26, <1>27, <1>28, <1>29
   DEF Next, AllIdle, Progress, KernelCall, Launching, Dispatching, Releasing,
       Choice

\* Every step keeps the counts exact and the contexts safe.
LEMMA RefStep ==
  ASSUME ThreadInv, ThreadInv', Newborns, \A s \in Services : RefOK(s),
         [Next]_vars
  PROVE  \A s \in Services : RefOK(s)'
<1>0. \A s \in Services : ref'[s] \in Int
  BY DEF ThreadInv, TypeOK, SvcTypeOK
<1>1. ASSUME NEW t \in Threads,
             OnlyMoves(t) /\ \A s \in Services : Balanced(t, s)
      PROVE  \A s \in Services : RefOK(s)'
  BY <1>0, <1>1, BalancedKeeps
<1>2. ASSUME NEW t \in Threads, Progress(t)
      PROVE  \A s \in Services : RefOK(s)'
  <2>1. CASE ContextRelease(t)
    BY <2>1, ReleaseKeeps
  <2>2. CASE DeleteContext(t)
    BY <2>2, DeleteKeeps
  <2>3. CASE ~ContextRelease(t) /\ ~DeleteContext(t)
    <3>1. OnlyMoves(t) /\ \A s \in Services : Balanced(t, s)
      BY <1>2, <2>3, Ordinary DEF Progress, KernelCall, Launching, Dispatching,
         Releasing
    <3> QED BY <1>1, <3>1
  <2> QED BY <2>1, <2>2, <2>3
<1>3. ASSUME NEW t \in Threads, NEW d \in Services, Send(t, d) \/ Kill(t, d)
      PROVE  \A s \in Services : RefOK(s)'
  BY <1>1, <1>3, OrdinaryChoice
<1>4. ASSUME NEW t \in Threads, NEW d \in Services, Launch(t, d)
      PROVE  \A s \in Services : RefOK(s)'
  BY <1>4, LaunchKeeps
<1>5. CASE UNCHANGED vars
  BY <1>5 DEF vars, svcVars, runVars, opVars, RefOK, Stored, Creators,
     Dispatchers, Callers, Referenced, Deletes
<1> QED BY <1>2, <1>3, <1>4, <1>5 DEF Next, AllIdle, Choice

\* At the start the storage refers to Boot and nobody refers to anything else.
LEMMA RefInit ==
  ASSUME Init
  PROVE  RefInv
<1>1. ThreadInv
  BY ThreadInit
<1>2. Newborns
  BY DEF Init, Newborns
<1>3. \A s \in Services : RefOK(s)
  <2> SUFFICES ASSUME NEW s \in Services
               PROVE  RefOK(s)
    OBVIOUS
  <2>1. Creators(s) = {} /\ Callers(s) = {} /\ \A t \in Threads : ~Deletes(t, s)
    BY DispatchAssumption DEF Init, Creators, Callers, Deletes
  <2>2. Dispatchers(s) = {}
    BY DispatchAssumption DEF Init, Dispatchers
  <2>3. ref[s] = Stored(s) /\ (slot[s] # "no" => ctx[s] = "live") /\ ref[s] \in Nat
    BY DEF Init, Stored
  <2> QED BY <2>1, <2>2, <2>3, FS_EmptySet DEF RefOK, Referenced
<1> QED BY <1>1, <1>2, <1>3, RefOKAll DEF RefInv

LEMMA RefInvStep ==
  ASSUME RefInv, [Next]_vars
  PROVE  RefInv'
<1>1. ThreadInv'
  BY TypeStep, HandsStep, CallsStep DEF RefInv, ThreadInv
<1>2. Newborns'
  BY NewbornsStep DEF RefInv
<1>3. \A s \in Services : RefOK(s)
  BY RefOKAll DEF RefInv
<1>4. \A s \in Services : RefOK(s)'
  BY <1>1, <1>3, RefStep DEF RefInv
<1>5. (RefCountExact /\ ContextSafe)'
  BY <1>4 DEF RefCountExact, ContextSafe, RefOK
<1> QED BY <1>1, <1>2, <1>5 DEF RefInv

\* The invariant holds in every reachable state.
LEMMA RefInvariance == Spec => []RefInv
<1> QED BY RefInit, RefInvStep, PTL DEF Spec

\* ctx->ref is the number of references the handle storage, the launcher, the
\* dispatching worker and the kernel calls in progress hold, at every moment: no
\* grab of skynet_handle_grab is left without its skynet_context_release, and no
\* reference is released twice.
THEOREM RefCountCorrect == Spec => []RefCountExact
<1>1. RefInv => RefCountExact
  BY DEF RefInv
<1> QED BY <1>1, RefInvariance, PTL

\* While anybody holds a counted reference the context has not been freed, and
\* the thread in delete_context is alone with it: no other thread refers to the
\* context or deletes it too.
THEOREM ContextsSafe == Spec => []ContextSafe
<1>1. RefInv => ContextSafe
  BY DEF RefInv
<1> QED BY <1>1, RefInvariance, PTL
==============================================================================
