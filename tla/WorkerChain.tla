---------------------------- MODULE WorkerChain ----------------------------
(***************************************************************************)
(* The worker kernel and the lifecycle of its workers: managers spawn,     *)
(* review, hand off, retire and replace workers while ticks expire, claim  *)
(* and run them.  A manager does one thing at a time; the manager and the  *)
(* task owner of a plan may act at once.                                   *)
(***************************************************************************)
EXTENDS WorkerKernel, WorkerLifecycle

chainVars == <<vars, lifeVars>>

ChainTypeOK == TypeOK /\ LifecycleType

ChainInit == Init /\ LifecycleInit

KernelStep ==
    /\ \/ \E t \in Ticker : TickStep(t)
       \/ \E b \in Reporter : ReportStep(b)
       \/ \E m \in Manager : In(m, "rest") /\ ReviewStep(m)
       \/ Intervene
       \/ \E t \in Ticker : Crash(t)
    /\ UNCHANGED lifeVars

Feedback == \E w \in Worker : RecordFeedback(w)

LifecycleStep == \E m \in Manager : At(m, "idle") /\ LifeStep(m)

ChainWaits == TimePasses /\ UNCHANGED lifeVars

ChainNext == KernelStep \/ LifecycleStep \/ Feedback \/ ChainWaits

ChainSpec == ChainInit /\ [][ChainNext]_chainVars

-----------------------------------------------------------------------------
Quiet == \A m \in Manager : At(m, "idle") /\ In(m, "rest")

(* Whenever no manager is in the middle of an action, a worker and its     *)
(* successor name each other, and its handoff names the successor too,     *)
(* although three rows and a session run are written one by one and a      *)
(* failure is undone row by row (workflowV2WorkerSuccessorCreate).         *)
LineageAgrees ==
    Quiet => \A w, s \in Worker :
        /\ worker[w].successor = s
           <=> Present(s) /\ worker[s].supersedes = w
        /\ handoff[w].successor = s
           <=> worker[w].successor = s
        /\ worker[w].successor = s
           => worker[w].status = "successor_spawned"

(* An autonomous loop exceeds its cap by no more than the managers that    *)
(* may stand, beside the one that makes the last iteration allowed,        *)
(* between the gate, which counts, and the transaction, which does not     *)
(* (workflowV2AutonomousLoopSpawnGate, workflowV2WorkerSpawnCreate); with  *)
(* two managers it is exceeded by one.                                     *)
IterationsCapped ==
    MaxIterations > 0 => Cardinality(Iteration) < MaxIterations + Cardinality(Manager)

(* Another iteration of an autonomous loop begins only when the one before *)
(* it is over and feedback on it was recorded, whatever ticks and reviews  *)
(* do between the gate and the transaction                                 *)
(* (workflowV2AutonomousLoopSpawnGate, workflowV2WorkerSpawnCreate).       *)
IterationsInTurn ==
    [][\A w, s \in Worker :
          /\ MaxIterations > 0
          /\ ~Present(s) /\ Present(s)'
          /\ Latest(w)
          => worker[w].status \notin OpenStatus /\ w \in feedback]_chainVars
=============================================================================
