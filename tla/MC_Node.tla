-------------------------------- MODULE MC_Node --------------------------------
(* An instance for TLC of what makes the process live: the scheduler with its *)
(* services, and the threads that run it.  A behaviour is about one of them,  *)
(* the other keeps its initial state.                                         *)
EXTENDS MC_SkynetDispatch, SkynetStart

CONSTANTS k1, k2

VARIABLE about   \* what this behaviour is about

nodeVars == <<vars, threadVars, about>>

Kernel(A) == about = "kernel"  /\ A /\ UNCHANGED <<threadVars, about>>
Thread(A) == about = "threads" /\ A /\ UNCHANGED <<vars, about>>

NodeInit ==
  /\ Init /\ ThreadsInit
  /\ about \in {"kernel", "threads"}
  /\ about = "kernel" => ready = 1 /\ alive = 1

NodeSpec == NodeInit /\ [][Kernel(Next) \/ Thread(ThreadsNext)]_nodeVars

\* The fairness of FairSpec and of ThreadsFairSpec.
FairNode ==
  /\ NodeSpec
  /\ \A t \in Threads : WF_nodeVars(Kernel(Progress(t)))
  /\ \A t \in Workers :
       SF_nodeVars(Kernel(CallbackReturns(t) \/ InitReturns(t) \/ InitFails(t)))
  /\ \A w \in Crew :
       /\ WF_nodeVars(Thread(LoopTest(w) \/ Dispatch(w) \/ Check(w) \/ Unlock(w)))
       /\ SF_nodeVars(Thread(Lock(w) \/ Wake(w)))
  /\ WF_nodeVars(Thread(UpdateTime \/ TimerTest \/ TimerWakeup \/ TimerSignal
                        \/ ExitSocket))
  /\ SF_nodeVars(Thread(Quit))
  /\ SF_nodeVars(Thread(SocketExit)) /\ WF_nodeVars(Thread(SocketWakeup \/ SocketSignal))
  /\ WF_nodeVars(Thread(MonitorTest)) /\ WF_nodeVars(Thread(Join))

=============================================================================
