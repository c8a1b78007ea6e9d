------------------------------- MODULE MC_Parts -------------------------------
(* An instance for TLC of the parts that stand alone.  A behaviour is about *)
(* one of them, the others keep their initial states.                       *)
EXTENDS MessageQueue, RWLock, SkynetTimer, HashMemPool, MC_Harbor

CONSTANTS m1, m2, t1, t2, t3, d1, d2, v1

VARIABLE part   \* the part this behaviour is about

parts == <<vars, lockVars, timerVars, pool, harborVars, part>>

Queue  == part = "queue" /\ Next      /\ UNCHANGED <<lockVars, timerVars, pool, harborVars, part>>
Lock   == part = "lock"  /\ LockNext  /\ UNCHANGED <<vars, timerVars, pool, harborVars, part>>
Timer  == part = "timer" /\ TimerNext /\ UNCHANGED <<vars, lockVars, pool, harborVars, part>>
Pool   == part = "pool"  /\ PoolNext  /\ UNCHANGED <<vars, lockVars, timerVars, harborVars, part>>
Remote == part = "harbor" /\ HarborNext /\ UNCHANGED <<vars, lockVars, timerVars, pool, part>>

PartsInit ==
  /\ Init /\ LockInit /\ TimerInit /\ PoolInit /\ HarborInit
  /\ part \in {"queue", "lock", "timer", "pool", "harbor"}

OneOf == PartsInit /\ [][Queue \/ Lock \/ Timer \/ Pool \/ Remote]_parts

\* The threads of the lock and, where it is the part, the timer thread run.
FairOneOf ==
  OneOf /\ LockFairness /\ WF_parts(part = "timer" /\ TimerThread /\ UNCHANGED <<vars, lockVars, pool, harborVars, part>>)

=============================================================================
