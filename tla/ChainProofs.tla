---------------------------- MODULE ChainProofs ----------------------------
(***************************************************************************)
(* Theorems about the life of workers under the kernel: spawns, handoffs,  *)
(* retirements and successors while ticks, reports and reviews go on, for  *)
(* any number of workers, ticks, backends and calls.                       *)
(***************************************************************************)
EXTENDS WorkerChain, KernelProofs

USE LifecycleAssumption

ChainInv == KernelInv /\ LifecycleType

LEMMA AtMost ==
  \A a, b, c \in Nat :
     /\ a <= b /\ b <= c => a <= c
     /\ a <= IF a > b THEN a ELSE b
  OBVIOUS

-----------------------------------------------------------------------------
(* Frames.                                                                 *)

LEMMA RestTyped ==
  /\ Rest \in Frame /\ Rest.pc = "rest" /\ Rest.act = "none"
  /\ NoHandoff \in HandoffRow
  <1>1. Idle.w \in Worker
    BY IdleSound DEF Sound, Locals
  <1>2. Rest \in Frame /\ NoHandoff \in HandoffRow
    BY <1>1, NoRowTyped DEF Rest, Frame, LifeLabel, NoHandoff, HandoffRow
  <1> QED BY <1>2 DEF Rest

LEMMA CallTyped ==
  ASSUME LifecycleType, NEW m \in Manager, NEW f \in Frame, Call(m, f)
  PROVE  life' \in [Manager -> Frame]
  BY DEF LifecycleType, Call

LEMMA StepTyped ==
  ASSUME LifecycleType, NEW m \in Manager, NEW pc \in LifeLabel, Step(m, pc)
  PROVE  life' \in [Manager -> Frame]
  <1>1. life[m] \in Frame
    BY DEF LifecycleType
  <1>2. [life[m] EXCEPT !.pc = pc] \in Frame
    BY <1>1 DEF Frame
  <1> QED BY <1>2, CallTyped DEF Step

LEMMA ReturnTyped ==
  ASSUME LifecycleType, NEW m \in Manager, Return(m)
  PROVE  life' \in [Manager -> Frame]
  BY RestTyped, CallTyped DEF Return

LEMMA SpawnFailsTyped ==
  ASSUME LifecycleType, NEW m \in Manager, SpawnFails(m)
  PROVE  life' \in [Manager -> Frame]
  BY ReturnTyped, StepTyped DEF SpawnFails, LifeLabel

LEMMA BeginTyped ==
  ASSUME LifecycleType, NEW m \in Manager, NEW f \in Frame, Begin(m, f)
  PROVE  life' \in [Manager -> Frame] /\ calls' \in Nat
  BY CallTyped DEF Begin, LifecycleType

(* What a frame of each action looks like when it begins.                  *)
LEMMA FirstFrames ==
  ASSUME NEW w \in Worker, NEW s \in Worker, NEW accepted \in BOOLEAN
  PROVE  /\ [Rest EXCEPT !.act = "spawn", !.pc = "session", !.w = w, !.s = s] \in Frame
         /\ [Rest EXCEPT !.act = "handoff", !.pc = "raw", !.w = w,
                         !.accepted = accepted] \in Frame
         /\ [Rest EXCEPT !.act = "retire", !.pc = "raw", !.w = w,
                         !.accepted = accepted] \in Frame
         /\ [Rest EXCEPT !.act = "successor", !.pc = "raw", !.w = w, !.s = s,
                         !.accepted = TRUE] \in Frame
  <1>1. Rest \in Frame
    BY RestTyped
  <1> QED BY <1>1 DEF Frame, LifeLabel

LEMMA NewWorkerTyped ==
  ASSUME NEW f \in Frame
  PROVE  NewWorker(f) \in WorkerRow
  <1>1. f.w \in Worker
    BY DEF Frame
  <1> QED BY <1>1, NoRowTyped DEF NewWorker, WorkerRow, WorkerStatus

LEMMA ClosedTyped ==
  ASSUME NEW f \in Frame, NEW r \in WorkerRow
  PROVE  Closed(f, r) \in WorkerRow
  <1>1. /\ Unleased(r, "handoff_required", 0) \in WorkerRow
        /\ Unleased(r, "retired", 0) \in WorkerRow
        /\ Unleased(r, "successor_spawned", 0) \in WorkerRow
    BY UnleasedTyped DEF WorkerStatus
  <1>2. f.s \in Worker /\ f.accepted \in BOOLEAN /\ r.info \in BOOLEAN
    BY DEF Frame, WorkerRow
  <1>3. [Unleased(r, "handoff_required", 0) EXCEPT !.info = TRUE] \in WorkerRow
    BY <1>1 DEF WorkerRow
  <1>4. [Unleased(r, "retired", 0) EXCEPT !.info = r.info \/ f.accepted] \in WorkerRow
    <2>1. (r.info \/ f.accepted) \in BOOLEAN
      OBVIOUS
    <2> QED BY <1>1, <2>1 DEF WorkerRow
  <1>5. [Unleased(r, "successor_spawned", 0) EXCEPT !.info = TRUE,
                                                     !.successor = f.s] \in WorkerRow
    BY <1>1, <1>2 DEF WorkerRow
  <1> QED BY <1>3, <1>4, <1>5 DEF Closed

(* A lifecycle step writes workers and session runs, its own rows, and     *)
(* nothing else.                                                           *)
LEMMA ChainAssembled ==
  ASSUME ChainInv, UNCHANGED <<clock, plan, job, review, at, bounds>>,
         worker' \in [Worker -> WorkerRow],
         session' \in [Worker -> SessionStatus],
         handoff' \in [Worker -> HandoffRow],
         life' \in [Manager -> Frame],
         feedback' \subseteq Worker,
         last' \in Nat, calls' \in Nat, throws' \in Nat
  PROVE  ChainInv'
  <1>1. KernelInv'
    BY Assembled DEF ChainInv, KernelInv, TypeOK, bounds
  <1>2. LifecycleType'
    BY DEF LifecycleType
  <1> QED BY <1>1, <1>2 DEF ChainInv

LEMMA ChainFacts ==
  ASSUME ChainInv, NEW m \in Manager
  PROVE  /\ worker \in [Worker -> WorkerRow]
         /\ session \in [Worker -> SessionStatus]
         /\ handoff \in [Worker -> HandoffRow]
         /\ life \in [Manager -> Frame]
         /\ life[m] \in Frame /\ life[m].w \in Worker /\ life[m].s \in Worker
         /\ life[m].raw \in WorkerRow /\ life[m].paper \in HandoffRow
         /\ feedback \subseteq Worker
         /\ last \in Nat /\ calls \in Nat /\ throws \in Nat
  <1>1. TypeOK /\ LifecycleType
    BY DEF ChainInv, KernelInv
  <1>2. life[m] \in Frame
    BY <1>1 DEF LifecycleType
  <1> QED BY <1>1, <1>2 DEF TypeOK, LifecycleType, Frame

-----------------------------------------------------------------------------
(* Every record action keeps its rows well typed.                          *)

LEMMA StartsTyped ==
  ASSUME ChainInv, NEW m \in Manager, NEW w \in Worker,
         \/ StartSpawn(m, w)
         \/ StartHandoff(m, w)
         \/ \E unattended \in BOOLEAN : StartRetire(m, w, unattended)
         \/ \E s \in Worker : StartSuccessor(m, w, s)
  PROVE  ChainInv'
  <1>0. LifecycleType /\ Worker \subseteq Nat
    BY DEF ChainInv
  <1>1. /\ UNCHANGED <<vars, handoff, feedback, throws>>
        /\ last' = last \/ \E s \in Worker : Choose(s)
    BY DEF StartSpawn, StartHandoff, StartRetire, StartSuccessor
  <1>2. last' \in Nat
    BY <1>0, <1>1, ChainFacts DEF Choose
  <1>3. life' \in [Manager -> Frame] /\ calls' \in Nat
    <2>1. CASE StartSpawn(m, w)
      BY <1>0, <2>1, FirstFrames, BeginTyped DEF StartSpawn
    <2>2. CASE StartHandoff(m, w)
      BY <1>0, <2>2, FirstFrames, BeginTyped DEF StartHandoff
    <2>3. CASE \E unattended \in BOOLEAN : StartRetire(m, w, unattended)
      <3>1. Begin(m, [Rest EXCEPT !.act = "retire", !.pc = "raw", !.w = w,
                                  !.accepted = (handoff[w].status = "accepted")])
        BY <2>3 DEF StartRetire
      <3>2. (handoff[w].status = "accepted") \in BOOLEAN
        OBVIOUS
      <3> HIDE DEF Begin
      <3> QED BY <1>0, <3>1, <3>2, FirstFrames, BeginTyped
    <2>4. CASE \E s \in Worker : StartSuccessor(m, w, s)
      BY <1>0, <2>4, FirstFrames, BeginTyped DEF StartSuccessor
    <2> QED BY <2>1, <2>2, <2>3, <2>4
  <1> QED BY <1>1, <1>2, <1>3, ChainFacts, ChainAssembled DEF vars, tables

LEMMA SpawnTyped ==
  ASSUME ChainInv, NEW m \in Manager, ReadSession(m) \/ CreateWorker(m)
  PROVE  ChainInv'
  <1>0. /\ worker \in [Worker -> WorkerRow]
        /\ session \in [Worker -> SessionStatus]
        /\ handoff \in [Worker -> HandoffRow]
        /\ life[m] \in Frame /\ life[m].s \in Worker
        /\ feedback \subseteq Worker
        /\ last \in Nat /\ calls \in Nat /\ throws \in Nat
        /\ LifecycleType
    BY ChainFacts DEF ChainInv
  <1>1. CASE ReadSession(m)
    <2> DEFINE f == [life[m] EXCEPT !.pc = "create",
                                    !.fresh = (session[life[m].s] = "absent")]
    <2>1. (session[life[m].s] = "absent") \in BOOLEAN
      OBVIOUS
    <2>2. f \in Frame
      BY <1>0, <2>1 DEF Frame, LifeLabel
    <2>3. Call(m, f) \/ SpawnFails(m)
      BY <1>1 DEF ReadSession
    <2>4. UNCHANGED <<vars, handoff, feedback, last, calls, throws>>
      BY <1>1 DEF ReadSession
    <2> HIDE DEF f
    <2>5. life' \in [Manager -> Frame]
      BY <1>0, <2>2, <2>3, CallTyped, SpawnFailsTyped
    <2> QED BY <1>0, <2>4, <2>5, ChainAssembled DEF vars, tables
  <1>2. CASE CreateWorker(m)
    <2> DEFINE f == [life[m] EXCEPT !.pc = "supersede", !.spawned = TRUE]
    <2>1. f \in Frame
      BY <1>0 DEF Frame, LifeLabel
    <2>2. \/ SpawnFails(m) /\ UNCHANGED <<worker, session>>
          \/ /\ worker' = [worker EXCEPT ![life[m].s] = NewWorker(life[m])]
             /\ session' \in {session, Patched(life[m].s, "queued")}
             /\ Return(m) \/ Call(m, f)
      BY <1>2 DEF CreateWorker
    <2>3. /\ UNCHANGED <<clock, plan, job, review, at, bounds, handoff, last, calls, throws>>
          /\ feedback' \in {feedback, feedback \ {life[m].s}}
      BY <1>2 DEF CreateWorker
    <2> HIDE DEF f
    <2>4. life' \in [Manager -> Frame]
      BY <1>0, <2>1, <2>2, CallTyped, SpawnFailsTyped, ReturnTyped
    <2>5. NewWorker(life[m]) \in WorkerRow
      BY <1>0, NewWorkerTyped
    <2>6. worker' \in [Worker -> WorkerRow] /\ session' \in [Worker -> SessionStatus]
      BY <1>0, <2>2, <2>5 DEF Patched, SessionStatus
    <2> QED BY <1>0, <2>3, <2>4, <2>6, ChainAssembled
  <1> QED BY <1>1, <1>2

LEMMA WritesTyped ==
  ASSUME ChainInv, NEW m \in Manager,
         \/ ReadWorker(m) \/ ReadHandoff(m) \/ UpdateWorker(m) \/ PatchSession(m)
         \/ WriteHandoff(m) \/ GateSuccessor(m) \/ SupersedeHandoff(m)
  PROVE  ChainInv'
  <1>0. /\ worker \in [Worker -> WorkerRow]
        /\ session \in [Worker -> SessionStatus]
        /\ handoff \in [Worker -> HandoffRow]
        /\ life[m] \in Frame /\ life[m].s \in Worker /\ life[m].w \in Worker
        /\ feedback \subseteq Worker
        /\ last \in Nat /\ calls \in Nat /\ throws \in Nat
        /\ LifecycleType
    BY ChainFacts DEF ChainInv
  <1>1. CASE ReadWorker(m)
    <2> DEFINE f == [life[m] EXCEPT !.raw = worker[life[m].w],
                 !.pc = IF life[m].act = "retire" THEN "worker" ELSE "paper"]
    <2>1. f \in Frame
      BY <1>0 DEF Frame, LifeLabel
    <2>2. Call(m, f) /\ UNCHANGED <<vars, handoff, feedback, last, calls, throws>>
      BY <1>1 DEF ReadWorker
    <2> HIDE DEF f
    <2>3. life' \in [Manager -> Frame]
      BY <1>0, <2>1, <2>2, CallTyped
    <2> QED BY <1>0, <2>2, <2>3, ChainAssembled DEF vars, tables
  <1>2. CASE ReadHandoff(m)
    <2> DEFINE f == [life[m] EXCEPT !.paper = handoff[life[m].w],
                 !.pc = IF life[m].act = "handoff" THEN "write" ELSE "gate"]
    <2>1. f \in Frame
      BY <1>0 DEF Frame, LifeLabel
    <2>2. Call(m, f) /\ UNCHANGED <<vars, handoff, feedback, last, calls, throws>>
      BY <1>2 DEF ReadHandoff
    <2> HIDE DEF f
    <2>3. life' \in [Manager -> Frame]
      BY <1>0, <2>1, <2>2, CallTyped
    <2> QED BY <1>0, <2>2, <2>3, ChainAssembled DEF vars, tables
  <1>3. CASE UpdateWorker(m)
    <2>1. /\ Step(m, "patch") \/ Return(m) \/ Step(m, "undo worker")
          /\ \/ worker' = [worker EXCEPT ![life[m].w] =
                              Closed(life[m], worker[life[m].w])]
             \/ worker' = worker
          /\ UNCHANGED <<clock, plan, session, job, review, at, bounds, handoff,
                         feedback, last, calls, throws>>
      BY <1>3 DEF UpdateWorker
    <2>2. life' \in [Manager -> Frame]
      BY <1>0, <2>1, StepTyped, ReturnTyped DEF LifeLabel
    <2>3. Closed(life[m], worker[life[m].w]) \in WorkerRow
      BY <1>0, ClosedTyped
    <2>4. worker' \in [Worker -> WorkerRow]
      BY <1>0, <2>1, <2>3
    <2> QED BY <1>0, <2>1, <2>2, <2>4, ChainAssembled
  <1>4. CASE PatchSession(m)
    <2> DEFINE status == LastStatus(life[m])
    <2>1. status \in SessionStatus
      BY DEF LastStatus, SessionStatus
    <2>2. /\ Return(m) \/ Step(m, "undo worker")
          /\ throws' \in {throws, throws + 1}
          /\ session' \in {session, Patched(life[m].w, status)}
          /\ UNCHANGED <<clock, plan, worker, job, review, at, bounds, handoff,
                         feedback, last, calls>>
      BY <1>4 DEF PatchSession
    <2> HIDE DEF status
    <2>3. life' \in [Manager -> Frame]
      BY <1>0, <2>2, StepTyped, ReturnTyped DEF LifeLabel
    <2>4. session' \in [Worker -> SessionStatus]
      <3>1. Patched(life[m].w, status) \in [Worker -> SessionStatus]
        BY <1>0, <2>1 DEF Patched
      <3> QED BY <1>0, <2>2, <3>1
    <2>5. throws' \in Nat
      <3>1. throws \in Nat /\ (throws' = throws \/ throws' = throws + 1)
        BY <1>0, <2>2
      <3> QED BY ONLY <3>1
    <2> QED BY <1>0, <2>2, <2>3, <2>4, <2>5, ChainAssembled
  <1>5. CASE WriteHandoff(m)
    <2>1. /\ Step(m, "worker") /\ UNCHANGED <<vars, feedback, last, calls, throws>>
          /\ handoff' \in [Worker -> HandoffRow]
      BY <1>0, <1>5 DEF WriteHandoff, HandoffRow
    <2>2. life' \in [Manager -> Frame]
      BY <1>0, <2>1, StepTyped DEF LifeLabel
    <2> QED BY <1>0, <2>1, <2>2, ChainAssembled DEF vars, tables
  <1>6. CASE GateSuccessor(m)
    <2>1. /\ Step(m, "session") \/ Step(m, "undo worker")
          /\ UNCHANGED <<vars, handoff, feedback, last, calls, throws>>
      BY <1>6 DEF GateSuccessor
    <2>2. life' \in [Manager -> Frame]
      BY <1>0, <2>1, StepTyped DEF LifeLabel
    <2> QED BY <1>0, <2>1, <2>2, ChainAssembled DEF vars, tables
  <1>7. CASE SupersedeHandoff(m)
    <2>1. /\ Step(m, "worker") \/ Step(m, "undo worker")
          /\ UNCHANGED <<vars, feedback, last, calls, throws>>
          /\ \/ handoff' = [handoff EXCEPT ![life[m].w] =
                       [status |-> "superseded", successor |-> life[m].s]]
             \/ handoff' = handoff
      BY <1>7 DEF SupersedeHandoff
    <2>3. [status |-> "superseded", successor |-> life[m].s] \in HandoffRow
      BY <1>0 DEF HandoffRow
    <2>4. handoff' \in [Worker -> HandoffRow]
      BY <1>0, <2>1, <2>3
    <2>2. life' \in [Manager -> Frame]
      BY <1>0, <2>1, StepTyped DEF LifeLabel
    <2> QED BY <1>0, <2>1, <2>2, <2>4, ChainAssembled DEF vars, tables
  <1> QED BY <1>1, <1>2, <1>3, <1>4, <1>5, <1>6, <1>7

LEMMA UndoesTyped ==
  ASSUME ChainInv, NEW m \in Manager,
         UndoLife(m) \/ UndoHandoff(m) \/ CleanupWorker(m) \/ CleanupSession(m)
  PROVE  ChainInv'
  <1>0. /\ worker \in [Worker -> WorkerRow]
        /\ session \in [Worker -> SessionStatus]
        /\ handoff \in [Worker -> HandoffRow]
        /\ life[m] \in Frame /\ life[m].s \in Worker /\ life[m].w \in Worker
        /\ life[m].raw \in WorkerRow /\ life[m].paper \in HandoffRow
        /\ feedback \subseteq Worker
        /\ last \in Nat /\ calls \in Nat /\ throws \in Nat
        /\ LifecycleType /\ TypeOK
    BY ChainFacts DEF ChainInv, KernelInv
  <1>1. CASE UndoLife(m)
    <2>1. /\ Return(m) \/ Step(m, "undo handoff")
          /\ worker' = Restored(life[m].w, life[m].raw)
          /\ UNCHANGED <<clock, plan, session, job, review, at, bounds, handoff,
                         feedback, last, calls, throws>>
      BY <1>1 DEF UndoLife, RestoreWorker
    <2>2. life' \in [Manager -> Frame]
      BY <1>0, <2>1, StepTyped, ReturnTyped DEF LifeLabel
    <2>3. worker' \in [Worker -> WorkerRow]
      BY <1>0, <2>1, RestoredTyped
    <2> QED BY <1>0, <2>1, <2>2, <2>3, ChainAssembled
  <1>2. CASE UndoHandoff(m)
    <2>1. /\ Return(m) \/ Step(m, "undo spawn")
          /\ handoff' \in [Worker -> HandoffRow]
          /\ UNCHANGED <<vars, feedback, last, calls, throws>>
      BY <1>0, <1>2 DEF UndoHandoff, Paper
    <2>2. life' \in [Manager -> Frame]
      BY <1>0, <2>1, StepTyped, ReturnTyped DEF LifeLabel
    <2> QED BY <1>0, <2>1, <2>2, ChainAssembled DEF vars, tables
  <1>3. CASE CleanupWorker(m)
    <2>1. /\ Step(m, "undo session")
          /\ worker' \in [Worker -> WorkerRow]
          /\ UNCHANGED <<clock, plan, session, job, review, at, bounds, handoff,
                         feedback, last, calls, throws>>
      BY <1>0, <1>3, NoRowTyped DEF CleanupWorker, Without
    <2>2. life' \in [Manager -> Frame]
      BY <1>0, <2>1, StepTyped DEF LifeLabel
    <2> QED BY <1>0, <2>1, <2>2, ChainAssembled
  <1>4. CASE CleanupSession(m)
    <2>1. /\ Return(m)
          /\ session' \in [Worker -> SessionStatus]
          /\ UNCHANGED <<clock, plan, worker, job, review, at, bounds, handoff,
                         feedback, last, calls, throws>>
      BY <1>0, <1>4 DEF CleanupSession, Patched, SessionStatus
    <2>2. life' \in [Manager -> Frame]
      BY <1>0, <2>1, ReturnTyped
    <2> QED BY <1>0, <2>1, <2>2, ChainAssembled
  <1> QED BY <1>1, <1>2, <1>3, <1>4

-----------------------------------------------------------------------------
(* Type correctness.                                                       *)

LEMMA ChainStepInv ==
  ASSUME ChainInv, [ChainNext]_chainVars
  PROVE  ChainInv'
  <1>0. KernelInv /\ LifecycleType
    BY DEF ChainInv
  <1>1. CASE KernelStep
    <2>1. KernelInv'
      <3>1. CASE \E t \in Ticker : TickStep(t)
        BY <1>0, <3>1, TickInv
      <3>2. CASE \E b \in Reporter : ReportStep(b)
        BY <1>0, <3>2, ReportInv
      <3>3. CASE \E m \in Manager : ReviewStep(m)
        BY <1>0, <3>3, ReviewInv
      <3>4. CASE Intervene \/ \E t \in Ticker : Crash(t)
        BY <1>0, <3>4, OutsideInv DEF Environment, Process
      <3> QED BY <1>1, <3>1, <3>2, <3>3, <3>4 DEF KernelStep
    <2>2. LifecycleType'
      BY <1>0, <1>1 DEF KernelStep, lifeVars, LifecycleType
    <2> QED BY <2>1, <2>2 DEF ChainInv
  <1>2. CASE LifecycleStep
    BY <1>2, StartsTyped, SpawnTyped, WritesTyped, UndoesTyped
    DEF LifecycleStep, LifeStep
  <1>3. CASE Feedback
    <2>1. /\ UNCHANGED vars /\ LifecycleType'
      BY <1>0, <1>3 DEF Feedback, RecordFeedback, LifecycleType
    <2> QED BY <1>0, <2>1, OutsideInv DEF ChainInv
  <1>4. CASE ChainWaits
    <2>1. LifecycleType'
      BY <1>0, <1>4 DEF ChainWaits, lifeVars, LifecycleType
    <2> QED BY <1>0, <1>4, <2>1, OutsideInv DEF ChainInv, ChainWaits
  <1>5. CASE UNCHANGED chainVars
    <2>1. UNCHANGED vars /\ LifecycleType'
      BY <1>0, <1>5 DEF chainVars, lifeVars, LifecycleType
    <2> QED BY <1>0, <2>1, OutsideInv DEF ChainInv
  <1> QED BY <1>1, <1>2, <1>3, <1>4, <1>5 DEF ChainNext

LEMMA ChainInitInv == ChainInit => ChainInv
  BY InitInv, RestTyped DEF ChainInit, LifecycleInit, ChainInv, LifecycleType

LEMMA ChainInvariance == ChainSpec => []ChainInv
  BY ChainInitInv, ChainStepInv, PTL DEF ChainSpec

(* Every reachable state of workers, handoffs and record actions is well   *)
(* typed: whatever a record that fails puts back, and wherever it stops,   *)
(* is a row of its table.                                                  *)
THEOREM ChainTypeCorrect == ChainSpec => []ChainTypeOK
  BY ChainInvariance, PTL DEF ChainInv, ChainTypeOK, KernelInv

-----------------------------------------------------------------------------
(* Where a record action is after a step of it.                            *)

LEMMA CallIs ==
  ASSUME LifecycleType, NEW m \in Manager, NEW f, Call(m, f)
  PROVE  life'[m] = f
  BY DEF LifecycleType, Call

LEMMA StepIs ==
  ASSUME LifecycleType, NEW m \in Manager, NEW pc, Step(m, pc)
  PROVE  /\ life'[m].pc = pc /\ life'[m].act = life[m].act
         /\ life'[m].s = life[m].s /\ life'[m].spawned = life[m].spawned
  <1>1. life'[m] = [life[m] EXCEPT !.pc = pc] /\ life[m] \in Frame
    BY CallIs DEF Step, LifecycleType
  <1> QED BY <1>1 DEF Frame

LEMMA ReturnIs ==
  ASSUME LifecycleType, NEW m \in Manager, Return(m)
  PROVE  life'[m].pc = "rest" /\ life'[m].act = "none"
  BY CallIs, RestTyped DEF Return

LEMMA SpawnFailsIs ==
  ASSUME LifecycleType, NEW m \in Manager, SpawnFails(m)
  PROVE  \/ life'[m].pc = "rest" /\ life'[m].act = "none"
         \/ /\ life'[m].pc = "undo worker" /\ life'[m].act = life[m].act
            /\ life'[m].s = life[m].s /\ life'[m].spawned = life[m].spawned
  BY StepIs, ReturnIs DEF SpawnFails

(* A record action begins: what it remembers.                              *)
LEMMA StartIs ==
  ASSUME LifecycleType, NEW m \in Manager, NEW w \in Worker,
         \/ StartSpawn(m, w)
         \/ StartHandoff(m, w)
         \/ \E unattended \in BOOLEAN : StartRetire(m, w, unattended)
         \/ \E s \in Worker : StartSuccessor(m, w, s)
  PROVE  /\ ~life'[m].spawned /\ life[m].pc = "rest"
         /\ UNCHANGED <<vars, handoff, feedback, throws>>
         /\ \/ /\ life'[m].act = "spawn" /\ life'[m].pc = "session"
               /\ SpawnAllowed /\ life'[m].s \in Worker
               /\ Candidate(life'[m].s) /\ Choose(life'[m].s)
            \/ /\ life'[m].act \in {"handoff", "retire"} /\ life'[m].pc = "raw"
               /\ last' = last
            \/ /\ life'[m].act = "successor" /\ life'[m].pc = "raw"
               /\ life'[m].s \in Worker
               /\ Candidate(life'[m].s) /\ Choose(life'[m].s)
  <1>r. Rest \in Frame /\ ~Rest.spawned
    BY RestTyped DEF Rest
  <1>1. CASE StartSpawn(m, w)
    <2>1. life'[m] = [Rest EXCEPT !.act = "spawn", !.pc = "session", !.w = w, !.s = w]
      BY <1>1, CallIs DEF StartSpawn, Begin
    <2>2. /\ ~life'[m].spawned /\ life'[m].act = "spawn"
          /\ life'[m].pc = "session" /\ life'[m].s = w
      BY <1>r, <2>1 DEF Frame
    <2> QED BY <1>1, <2>2 DEF StartSpawn, Begin, In
  <1>2. CASE StartHandoff(m, w)
    <2>1. PICK accepted \in BOOLEAN :
            life'[m] = [Rest EXCEPT !.act = "handoff", !.pc = "raw", !.w = w,
                                    !.accepted = accepted]
      BY <1>2, CallIs DEF StartHandoff, Begin
    <2>2. ~life'[m].spawned /\ life'[m].act = "handoff" /\ life'[m].pc = "raw"
      BY <1>r, <2>1 DEF Frame
    <2> QED BY <1>2, <2>2 DEF StartHandoff, Begin, In
  <1>3. CASE \E unattended \in BOOLEAN : StartRetire(m, w, unattended)
    <2>1. PICK accepted :
            life'[m] = [Rest EXCEPT !.act = "retire", !.pc = "raw", !.w = w,
                                    !.accepted = accepted]
      BY <1>3, CallIs DEF StartRetire, Begin
    <2>2. ~life'[m].spawned /\ life'[m].act = "retire" /\ life'[m].pc = "raw"
      BY <1>r, <2>1 DEF Frame
    <2> QED BY <1>3, <2>2 DEF StartRetire, Begin, In
  <1>4. CASE \E s \in Worker : StartSuccessor(m, w, s)
    <2>1. PICK s \in Worker : StartSuccessor(m, w, s)
      BY <1>4
    <2>2. life'[m] = [Rest EXCEPT !.act = "successor", !.pc = "raw", !.w = w, !.s = s,
                                  !.accepted = TRUE]
      BY <2>1, CallIs DEF StartSuccessor, Begin
    <2>3. /\ ~life'[m].spawned /\ life'[m].act = "successor"
          /\ life'[m].pc = "raw" /\ life'[m].s = s
      BY <1>r, <2>2 DEF Frame
    <2> QED BY <2>1, <2>3 DEF StartSuccessor, MaySucceed, Begin, In
  <1> QED BY <1>1, <1>2, <1>3, <1>4

Starts(m) ==
    \E w \in Worker :
        \/ StartSpawn(m, w)
        \/ StartHandoff(m, w)
        \/ \E unattended \in BOOLEAN : StartRetire(m, w, unattended)
        \/ \E s \in Worker : StartSuccessor(m, w, s)

(* The gate was passed, and the worker is not made yet.                    *)
Deciding(m) == life[m].pc \in {"session", "create"}

LEMMA Decides ==
  ASSUME ChainInv, NEW m \in Manager, LifeStep(m), Deciding(m)'
  PROVE  /\ worker' = worker /\ plan' = plan /\ feedback' = feedback
         /\ Deciding(m) \/ SpawnAllowed
  <1>0. LifecycleType
    BY DEF ChainInv
  <1>1. CASE Starts(m)
    BY <1>0, <1>1, StartIs DEF Starts, Deciding, vars, tables
  <1>2. CASE ReadSession(m)
    BY <1>2 DEF ReadSession, Deciding, In, vars, tables
  <1>3. CASE GateSuccessor(m)
    <2>1. Step(m, "undo worker") \/ SpawnAllowed
      BY <1>3 DEF GateSuccessor
    <2>2. ASSUME Step(m, "undo worker") PROVE FALSE
      <3>1. life'[m].pc = "undo worker"
        BY <1>0, <2>2, StepIs
      <3> QED BY <3>1 DEF Deciding
    <2>3. UNCHANGED <<worker, plan, feedback>>
      BY <1>3 DEF GateSuccessor, vars, tables
    <2> QED BY <2>1, <2>2, <2>3
  <1>4. ~CreateWorker(m)
    <2>1. ASSUME CreateWorker(m) PROVE FALSE
      <3> DEFINE f == [life[m] EXCEPT !.pc = "supersede", !.spawned = TRUE]
      <3>1. SpawnFails(m) \/ Return(m) \/ Call(m, f)
        BY <2>1 DEF CreateWorker
      <3>2. f.pc = "supersede"
        BY <1>0 DEF LifecycleType, Frame
      <3> HIDE DEF f
      <3> QED BY <1>0, <3>1, <3>2, SpawnFailsIs, ReturnIs, CallIs DEF Deciding
    <2> QED BY <2>1
  <1>5. ~ReadWorker(m) /\ ~ReadHandoff(m)
    <2>1. ASSUME ReadWorker(m) \/ ReadHandoff(m) PROVE FALSE
      <3>1. PICK pc \in {"worker", "paper", "write", "gate"} :
              \/ life'[m] = [life[m] EXCEPT !.raw = worker[life[m].w], !.pc = pc]
              \/ life'[m] = [life[m] EXCEPT !.paper = handoff[life[m].w], !.pc = pc]
        BY <1>0, <2>1, CallIs DEF ReadWorker, ReadHandoff
      <3>2. life'[m].pc = pc
        BY <1>0, <3>1 DEF LifecycleType, Frame
      <3> QED BY <3>2 DEF Deciding
    <2> QED BY <2>1
  <1>6. ~UpdateWorker(m) /\ ~PatchSession(m) /\ ~UndoLife(m) /\ ~UndoHandoff(m)
    <2>1. ASSUME UpdateWorker(m) \/ PatchSession(m) \/ UndoLife(m) \/ UndoHandoff(m)
          PROVE  FALSE
      <3>1. \/ Return(m)
            \/ \E pc \in {"patch", "undo worker", "undo handoff", "undo spawn"} : Step(m, pc)
        BY <2>1 DEF UpdateWorker, PatchSession, UndoLife, UndoHandoff
      <3> QED BY <1>0, <3>1, StepIs, ReturnIs DEF Deciding
    <2> QED BY <2>1
  <1>7. ~WriteHandoff(m) /\ ~SupersedeHandoff(m) /\ ~CleanupWorker(m) /\ ~CleanupSession(m)
    <2>1. ASSUME WriteHandoff(m) \/ SupersedeHandoff(m) \/ CleanupWorker(m) \/ CleanupSession(m)
          PROVE  FALSE
      <3>1. \/ Return(m)
            \/ \E pc \in {"worker", "undo worker", "undo session"} : Step(m, pc)
        BY <2>1 DEF WriteHandoff, SupersedeHandoff, CleanupWorker, CleanupSession
      <3> QED BY <1>0, <3>1, StepIs, ReturnIs DEF Deciding
    <2> QED BY <2>1
  <1> QED BY <1>1, <1>2, <1>3, <1>4, <1>5, <1>6, <1>7 DEF LifeStep, Starts

(* Of the steps of a record action one makes a worker and one deletes one. *)
LEMMA LifeAppears ==
  ASSUME ChainInv, NEW m \in Manager, LifeStep(m), ~CreateWorker(m),
         NEW w \in Worker, Present(w)'
  PROVE  Present(w)
  <1>0. worker \in [Worker -> WorkerRow] /\ life[m].w \in Worker
    BY ChainFacts
  <1>1. \/ worker' = worker \/ UpdateWorker(m) \/ UndoLife(m) \/ CleanupWorker(m)
    BY DEF LifeStep, StartSpawn, StartHandoff, StartRetire, StartSuccessor,
       ReadSession, ReadWorker, ReadHandoff, PatchSession, UndoHandoff,
       WriteHandoff, GateSuccessor, SupersedeHandoff, CleanupSession, vars, tables
  <1>2. CASE UpdateWorker(m)
    <2>1. worker' = worker \/ (Present(life[m].w) /\ (w = life[m].w \/ worker'[w] = worker[w]))
      BY <1>0, <1>2 DEF UpdateWorker
    <2> QED BY <2>1 DEF Present
  <1>3. CASE UndoLife(m)
    BY <1>0, <1>3 DEF UndoLife, RestoreWorker, Restored, Present
  <1>4. CASE CleanupWorker(m)
    BY <1>0, <1>4 DEF CleanupWorker, Without, NoWorker, Present
  <1> QED BY <1>1, <1>2, <1>3, <1>4 DEF Present

LEMMA LifeVanishes ==
  ASSUME ChainInv, NEW m \in Manager, LifeStep(m), NEW w \in Worker, Present(w),
         ~CleanupWorker(m) \/ w # life[m].s
  PROVE  Present(w)'
  <1>0. /\ worker \in [Worker -> WorkerRow] /\ life[m].w \in Worker
        /\ life[m].s \in Worker /\ life[m] \in Frame
    BY ChainFacts
  <1>1. \/ worker' = worker \/ UpdateWorker(m) \/ UndoLife(m) \/ CleanupWorker(m)
        \/ CreateWorker(m)
    BY DEF LifeStep, StartSpawn, StartHandoff, StartRetire, StartSuccessor,
       ReadSession, ReadWorker, ReadHandoff, PatchSession, UndoHandoff,
       WriteHandoff, GateSuccessor, SupersedeHandoff, CleanupSession, vars, tables
  <1>2. CASE UpdateWorker(m)
    <2>1. worker'[w] = worker[w] \/ worker'[w] = Closed(life[m], worker[w])
      BY <1>0, <1>2 DEF UpdateWorker
    <2>2. Closed(life[m], worker[w]).status
             \in {"handoff_required", "retired", "successor_spawned"}
      BY <1>0 DEF Closed, Unleased, WorkerRow
    <2> QED BY <2>1, <2>2 DEF Present
  <1>3. CASE UndoLife(m)
    BY <1>0, <1>3 DEF UndoLife, RestoreWorker, Restored, Present
  <1>4. CASE CleanupWorker(m)
    BY <1>0, <1>4 DEF CleanupWorker, Without, Present
  <1>5. CASE CreateWorker(m)
    <2>1. worker'[w] = worker[w] \/ worker'[w] = NewWorker(life[m])
      BY <1>0, <1>5 DEF CreateWorker
    <2>2. NewWorker(life[m]).status = "queued"
      BY DEF NewWorker, NoWorker
    <2> QED BY <2>1, <2>2 DEF Present
  <1> QED BY <1>1, <1>2, <1>3, <1>4, <1>5 DEF Present

-----------------------------------------------------------------------------
(* What ticks, reports and reviews do to the rows of workers.              *)

Undoing == {"expire undo", "claim undo", "execute undo", "undo worker"}

Advances(w) == worker[w].status \in OpenStatus /\ Present(w)'

Judged(w) == Present(w) /\ worker'[w].status \in Decision

PutBack(w) ==
    /\ Present(w) /\ Present(w)'
    /\ \/ \E p \in Ticker \cup Reporter : at[p].w = w /\ at[p].pc \in Undoing
       \/ \E m \in Manager : At(m, "review undo") /\ worker'[w] = at[m].raw

LEMMA RestoredRow ==
  ASSUME worker \in [Worker -> WorkerRow], NEW x \in Worker, NEW r,
         RestoreWorker(x, r), NEW w \in Worker
  PROVE  \/ worker'[w] = worker[w]
         \/ x = w /\ Present(w) /\ Present(w)' /\ worker'[w] = r
  BY DEF RestoreWorker, Restored, Present

LEMMA KernelMoves ==
  ASSUME ChainInv, KernelStep, NEW w \in Worker
  PROVE  worker'[w] = worker[w] \/ Advances(w) \/ Judged(w) \/ PutBack(w)
  <1>0. /\ KernelInv /\ worker \in [Worker -> WorkerRow] /\ worker[w] \in WorkerRow
    BY DEF ChainInv, KernelInv, TypeOK
  <1>1. ASSUME NEW t \in Ticker, TickStep(t), worker'[w] # worker[w]
        PROVE  Advances(w) \/ PutBack(w)
    <2>r. at[t].w \in Worker
      BY <1>0, Remembered DEF Process
    <2>1. ASSUME NEW x \in Worker, ExpireWorker(t, x) PROVE Advances(w)
      <3>1. worker[w].status = "running" /\ worker'[w] = Expired(worker[w], at[t].now)
        BY <1>0, <1>1, <2>1 DEF ExpireWorker, Lapsed
      <3>2. worker'[w].status \in {"retry_scheduled", "timed_out"}
        BY <1>0, <3>1 DEF Expired, Unleased, WorkerRow
      <3> QED BY <3>1, <3>2 DEF Advances, OpenStatus, Present
    <2>2. CASE ClaimCas(t)
      <3>1. /\ worker[w].status \in {"queued", "retry_scheduled"}
            /\ worker'[w] = ClaimedWorker(worker[w], t, at[t].now)
        BY <1>0, <1>1, <2>r, <2>2 DEF ClaimCas, MayClaimWorker
      <3>2. worker'[w].status = "running"
        BY <1>0, <3>1 DEF ClaimedWorker, WorkerRow
      <3> QED BY <3>1, <3>2 DEF Advances, OpenStatus, Present
    <2>3. CASE Execute(t)
      <3>1. /\ worker[w].status = "running" /\ worker'[w] = Submitted(worker[w])
        BY <1>0, <1>1, <2>r, <2>3 DEF Execute, HoldsWorker
      <3>2. worker'[w].status = "submitted_for_review"
        BY <1>0, <3>1 DEF Submitted, Unleased, WorkerRow
      <3> QED BY <3>1, <3>2 DEF Advances, OpenStatus, Present
    <2>4. CASE ExpireUndo(t) \/ ClaimUndo(t) \/ ExecuteUndo(t)
      <3>1. /\ at[t].pc \in Undoing
            /\ \/ RestoreWorker(at[t].w, at[t].raw)
               \/ RestoreWorker(at[t].w, at[t].held)
        BY <2>4 DEF ExpireUndo, ClaimUndo, ExecuteUndo, At, Undoing
      <3>2. at[t].w = w /\ Present(w) /\ Present(w)'
        BY <1>0, <1>1, <2>r, <3>1, RestoredRow
      <3> QED BY <3>1, <3>2 DEF PutBack
    <2>5. worker' # worker
      BY <1>1
    <2> QED BY <1>1, <2>1, <2>2, <2>3, <2>4, <2>5
            DEF TickStep, StartTick, ExpireSession, ExpireJobs, ExpireDone,
                ClaimSelect, ClaimReread, ClaimSession, ExecuteSession, EndLoop, tables
  <1>2. ASSUME NEW b \in Reporter, ReportStep(b), worker'[w] # worker[w]
        PROVE  Advances(w) \/ PutBack(w)
    <2>r. at[b].w \in Worker
      BY <1>0, Remembered DEF Process
    <2>1. CASE Settle(b)
      <3>1. worker[w].status = "running" /\ worker'[w] = Settled(b, worker[w])
        BY <1>0, <1>2, <2>r, <2>1 DEF Settle, MaySettle
      <3>2. worker'[w].status \in {"submitted_for_review", "retry_scheduled", "failed"}
        BY <1>0, <3>1 DEF Settled, Unleased, WorkerRow
      <3> QED BY <3>1, <3>2 DEF Advances, OpenStatus, Present
    <2>2. CASE UndoWorker(b)
      <3>1. at[b].pc \in Undoing /\ RestoreWorker(at[b].w, at[b].raw)
        BY <2>2 DEF UndoWorker, At, Undoing
      <3>2. at[b].w = w /\ Present(w) /\ Present(w)'
        BY <1>0, <1>2, <2>r, <3>1, RestoredRow
      <3> QED BY <3>1, <3>2 DEF PutBack
    <2>3. worker' # worker
      BY <1>2
    <2> QED BY <1>2, <2>1, <2>2, <2>3
            DEF ReportStep, StartReport, ResultStep, ReadRaw, SettleSession,
                SettleJob, UndoSession, EndLoop, tables
  <1>3. ASSUME NEW m \in Manager, ReviewStep(m), worker'[w] # worker[w]
        PROVE  Judged(w) \/ PutBack(w)
    <2>r. at[m].w \in Worker /\ Sound(at[m], clock)
      BY <1>0, Remembered DEF Process, KernelInv
    <2>1. CASE ReviewWorker(m)
      <3>1. /\ worker[w].status = "submitted_for_review"
            /\ worker'[w] = Unleased(worker[w], at[m].decision, 0)
            /\ at[m].decision \in Decision
        BY <1>0, <1>3, <2>r, <2>1 DEF ReviewWorker, At, Sound
      <3>2. worker'[w].status = at[m].decision
        BY <1>0, <3>1 DEF Unleased, WorkerRow
      <3> QED BY <3>1, <3>2 DEF Judged, Present
    <2>2. CASE ReviewUndo(m)
      <3>1. At(m, "review undo") /\ RestoreWorker(at[m].w, at[m].raw)
        BY <2>2 DEF ReviewUndo
      <3>2. at[m].w = w /\ Present(w) /\ Present(w)' /\ worker'[w] = at[m].raw
        BY <1>0, <1>3, <2>r, <3>1, RestoredRow
      <3> QED BY <3>1, <3>2 DEF PutBack
    <2>3. worker' # worker
      BY <1>3
    <2> QED BY <1>3, <2>1, <2>2, <2>3
            DEF ReviewStep, StartReview, InsertReview, ReviewSession, ReviewDelete, tables
  <1>4. CASE Intervene \/ \E t \in Ticker : Crash(t)
    BY <1>4 DEF Intervene, Crash, tables
  <1> QED BY <1>1, <1>2, <1>3, <1>4 DEF KernelStep

(* None of them makes a worker or deletes one.                             *)
LEMMA KernelPresence ==
  ASSUME ChainInv, KernelStep, NEW w \in Worker
  PROVE  Present(w)' <=> Present(w)
  <1>1. CASE worker'[w] = worker[w]
    BY <1>1 DEF Present
  <1>2. CASE Advances(w)
    BY <1>2 DEF Advances, Present, OpenStatus
  <1>3. CASE Judged(w)
    <2>1. "absent" \notin Decision
      BY WorkerAssumption
    <2> QED BY <1>3, <2>1 DEF Judged, Present
  <1>4. CASE PutBack(w)
    BY <1>4 DEF PutBack
  <1> QED BY <1>1, <1>2, <1>3, <1>4, KernelMoves

-----------------------------------------------------------------------------
(* The cap of an autonomous loop.  A manager that has passed the gate and  *)
(* has not made its worker yet holds a place the gate of the others does   *)
(* not see: the places held and the iterations made stay together below    *)
(* the cap plus the number of managers, because a manager passes the gate  *)
(* only while fewer iterations than the cap are there.                     *)

OneManager == \A m, n \in Manager : m = n

Deciders == {m \in Manager : Deciding(m)}

CapInv ==
    /\ ChainInv
    /\ MaxIterations > 0 =>
          Cardinality(Iteration) + Cardinality(Deciders) < MaxIterations + Cardinality(Manager)

LEMMA IterationsFinite ==
  IsFiniteSet(Iteration) /\ Cardinality(Iteration) \in Nat
  <1>1. Iteration \in SUBSET Worker /\ IsFiniteSet(Worker)
    BY WorkerAssumption DEF Iteration
  <1>2. IsFiniteSet(Iteration)
    BY <1>1, FS_Subset
  <1> QED BY <1>2, FS_CardinalityType

LEMMA DecidersFinite ==
  ASSUME IsFiniteSet(Manager)
  PROVE  /\ IsFiniteSet(Deciders) /\ Cardinality(Deciders) \in Nat
         /\ Cardinality(Manager) \in Nat /\ Cardinality(Deciders) <= Cardinality(Manager)
  <1>1. Deciders \subseteq Manager
    BY DEF Deciders
  <1>2. IsFiniteSet(Deciders) /\ Cardinality(Deciders) <= Cardinality(Manager)
    BY <1>1, FS_Subset
  <1> QED BY <1>2, FS_CardinalityType

LEMMA FewerIterations ==
  ASSUME \A w \in Worker : Present(w)' => Present(w)
  PROVE  Cardinality(Iteration)' \in Nat /\ Cardinality(Iteration)' <= Cardinality(Iteration)
  <1>1. Iteration' \subseteq Iteration
    BY DEF Iteration
  <1>2. IsFiniteSet(Iteration') /\ Cardinality(Iteration') <= Cardinality(Iteration)
    BY <1>1, IterationsFinite, FS_Subset
  <1> QED BY <1>2, FS_CardinalityType

(* A step that makes no worker and after which the managers past the gate  *)
(* are some of those before it, or one has just passed it.                 *)
LEMMA CapAtRest ==
  ASSUME IsFiniteSet(Manager), CapInv, ChainInv',
         \A w \in Worker : Present(w)' => Present(w),
         (\A m \in Manager : Deciding(m)' => Deciding(m)) \/ SpawnAllowed
  PROVE  CapInv'
  <1> DEFINE made == Cardinality(Iteration)
             held == Cardinality(Deciders)
             after == Cardinality(Iteration)'
             heldAfter == Cardinality(Deciders)'
             all == Cardinality(Manager)
  <1>1. /\ made \in Nat /\ after \in Nat /\ after <= made /\ held \in Nat
        /\ all \in Nat /\ MaxIterations \in Nat
    <2>1. after \in Nat /\ after <= made
      BY FewerIterations
    <2> QED BY <2>1, IterationsFinite, DecidersFinite, WorkerAssumption
  <1>2. heldAfter \in Nat /\ heldAfter <= all
    <2>1. Deciders' \subseteq Manager
      BY DEF Deciders
    <2>2. IsFiniteSet(Deciders') /\ Cardinality(Deciders') <= Cardinality(Manager)
      BY <2>1, FS_Subset
    <2> QED BY <2>2, FS_CardinalityType
  <1>3. ASSUME MaxIterations > 0 PROVE after + heldAfter < MaxIterations + all
    <2>1. CASE \A m \in Manager : Deciding(m)' => Deciding(m)
      <3>1. Deciders' \subseteq Deciders
        BY <2>1 DEF Deciders
      <3>2. heldAfter <= held
        BY <3>1, DecidersFinite, FS_Subset
      <3>3. made + held < MaxIterations + all
        BY <1>3 DEF CapInv
      <3> HIDE DEF made, held, after, heldAfter, all
      <3> QED BY <1>1, <1>2, <3>2, <3>3
    <2>2. CASE SpawnAllowed
      <3>1. made < MaxIterations
        BY <1>3, <2>2 DEF SpawnAllowed, LoopAdmits
      <3> HIDE DEF made, held, after, heldAfter, all
      <3> QED BY <1>1, <1>2, <3>1
    <2> QED BY <2>1, <2>2
  <1> QED BY <1>3 DEF CapInv

LEMMA OthersStand ==
  ASSUME ChainInv, NEW m \in Manager, LifeStep(m), NEW n \in Manager, n # m
  PROVE  life'[n] = life[n]
  <1>0. life \in [Manager -> Frame]
    BY DEF ChainInv, LifecycleType
  <1>1. \A f : Call(m, f) => life'[n] = life[n]
    BY <1>0 DEF Call
  <1>2. /\ Return(m) => life'[n] = life[n]
        /\ \A pc : Step(m, pc) => life'[n] = life[n]
        /\ \A f : Begin(m, f) => life'[n] = life[n]
    BY <1>1 DEF Return, Step, Begin
  <1>3. SpawnFails(m) => life'[n] = life[n]
    BY <1>2 DEF SpawnFails
  <1>4. CASE \E w \in Worker : StartSpawn(m, w) \/ StartHandoff(m, w)
    BY <1>2, <1>4 DEF StartSpawn, StartHandoff
  <1>5. CASE \E w \in Worker :
                \/ \E unattended \in BOOLEAN : StartRetire(m, w, unattended)
                \/ \E s \in Worker : StartSuccessor(m, w, s)
    BY <1>2, <1>5 DEF StartRetire, StartSuccessor
  <1>6. CASE ReadSession(m) \/ CreateWorker(m)
    BY <1>1, <1>2, <1>3, <1>6 DEF ReadSession, CreateWorker
  <1>7. CASE ReadWorker(m) \/ ReadHandoff(m)
    BY <1>1, <1>7 DEF ReadWorker, ReadHandoff
  <1>8. CASE UpdateWorker(m) \/ PatchSession(m) \/ UndoLife(m) \/ UndoHandoff(m)
    BY <1>2, <1>8 DEF UpdateWorker, PatchSession, UndoLife, UndoHandoff
  <1>9. CASE \/ WriteHandoff(m) \/ GateSuccessor(m) \/ SupersedeHandoff(m)
             \/ CleanupWorker(m) \/ CleanupSession(m)
    BY <1>2, <1>9 DEF WriteHandoff, GateSuccessor, SupersedeHandoff,
                      CleanupWorker, CleanupSession
  <1> QED BY <1>4, <1>5, <1>6, <1>7, <1>8, <1>9 DEF LifeStep

LEMMA CapCreated ==
  ASSUME IsFiniteSet(Manager), CapInv, ChainInv', NEW m \in Manager, LifeStep(m),
         CreateWorker(m)
  PROVE  CapInv'
  <1>0. ChainInv /\ LifecycleType
    BY DEF CapInv, ChainInv
  <1>f. worker \in [Worker -> WorkerRow] /\ life[m].s \in Worker
    BY <1>0, ChainFacts
  <1>1. ~Deciding(m)'
    <2> SUFFICES ASSUME Deciding(m)' PROVE FALSE
      OBVIOUS
    <2>1. worker' = worker
      BY <1>0, Decides
    <2> DEFINE f == [life[m] EXCEPT !.pc = "supersede", !.spawned = TRUE]
    <2>2. SpawnFails(m) \/ Return(m) \/ Call(m, f)
      BY DEF CreateWorker
    <2>3. f.pc = "supersede"
      BY <1>0 DEF LifecycleType, Frame
    <2> HIDE DEF f
    <2> QED BY <1>0, <2>2, <2>3, SpawnFailsIs, ReturnIs, CallIs DEF Deciding
  <1>2. m \in Deciders
    BY DEF Deciders, Deciding, CreateWorker, In
  <1>3. Deciders' \subseteq Deciders \ {m}
    <2>1. ASSUME NEW n \in Manager, n # m PROVE Deciding(n)' <=> Deciding(n)
      BY <1>0, <2>1, OthersStand DEF Deciding
    <2> QED BY <1>1, <2>1 DEF Deciders
  <1> DEFINE made == Cardinality(Iteration)
             more == Cardinality(Iteration \cup {life[m].s})
             after == Cardinality(Iteration')
             held == Cardinality(Deciders)
             fewer == Cardinality(Deciders \ {m})
             heldAfter == Cardinality(Deciders')
             all == Cardinality(Manager)
  <1>4. made \in Nat /\ more \in Nat /\ after \in Nat /\ after <= more /\ more <= made + 1
    <2>1. ASSUME NEW w \in Worker, w # life[m].s PROVE worker'[w] = worker[w]
      BY <1>f, <2>1 DEF CreateWorker
    <2>2. Iteration' \subseteq Iteration \cup {life[m].s}
      BY <2>1 DEF Iteration, Present
    <2>3. /\ IsFiniteSet(Iteration \cup {life[m].s})
          /\ more = IF life[m].s \in Iteration THEN made ELSE made + 1
      BY IterationsFinite, FS_AddElement
    <2>4. IsFiniteSet(Iteration') /\ after <= more
      BY <2>2, <2>3, FS_Subset
    <2>5. more \in Nat /\ after \in Nat /\ made \in Nat
      BY <2>3, <2>4, FS_CardinalityType, IterationsFinite
    <2> HIDE DEF made, more, after
    <2> QED BY <2>3, <2>4, <2>5
  <1>5. /\ held \in Nat /\ heldAfter \in Nat /\ heldAfter <= held - 1 /\ all \in Nat
    <2>1. IsFiniteSet(Deciders \ {m}) /\ fewer = held - 1
      BY <1>2, DecidersFinite, FS_RemoveElement
    <2>2. IsFiniteSet(Deciders') /\ heldAfter <= fewer
      BY <1>3, <2>1, FS_Subset
    <2>3. heldAfter \in Nat /\ held \in Nat /\ all \in Nat
      BY <2>2, FS_CardinalityType, DecidersFinite
    <2> HIDE DEF held, fewer, heldAfter, all
    <2> QED BY <2>1, <2>2, <2>3
  <1>6. ASSUME MaxIterations > 0 PROVE after + heldAfter < MaxIterations + all
    <2>1. made + held < MaxIterations + all /\ MaxIterations \in Nat
      BY <1>6, WorkerAssumption DEF CapInv
    <2> HIDE DEF made, more, after, held, heldAfter, all
    <2> QED BY <1>4, <1>5, <2>1
  <1> QED BY <1>6 DEF CapInv

LEMMA CapStep ==
  ASSUME IsFiniteSet(Manager), CapInv, [ChainNext]_chainVars
  PROVE  CapInv'
  <1>0. ChainInv /\ LifecycleType /\ ChainInv'
    BY ChainStepInv DEF CapInv, ChainInv
  <1>1. CASE KernelStep
    <2>1. \A m \in Manager : Deciding(m)' => Deciding(m)
      BY <1>1 DEF KernelStep, lifeVars, Deciding
    <2> QED BY <1>0, <1>1, <2>1, KernelPresence, CapAtRest
  <1>2. ASSUME NEW m \in Manager, LifeStep(m), ~CreateWorker(m) PROVE CapInv'
    <2>1. (\A n \in Manager : Deciding(n)' => Deciding(n)) \/ SpawnAllowed
      <3>1. Deciding(m)' => Deciding(m) \/ SpawnAllowed
        BY <1>0, <1>2, Decides
      <3>2. ASSUME NEW n \in Manager, n # m PROVE Deciding(n)' <=> Deciding(n)
        BY <1>0, <1>2, <3>2, OthersStand DEF Deciding
      <3> QED BY <3>1, <3>2
    <2>2. \A w \in Worker : Present(w)' => Present(w)
      BY <1>0, <1>2, LifeAppears
    <2> QED BY <1>0, <2>1, <2>2, CapAtRest
  <1>3. ASSUME NEW m \in Manager, LifeStep(m), CreateWorker(m) PROVE CapInv'
    BY <1>0, <1>3, CapCreated
  <1>4. CASE LifecycleStep
    BY <1>2, <1>3, <1>4 DEF LifecycleStep
  <1>5. CASE Feedback \/ ChainWaits \/ UNCHANGED chainVars
    <2>1. worker' = worker /\ life' = life
      BY <1>5 DEF Feedback, RecordFeedback, ChainWaits, TimePasses, chainVars,
                  vars, tables, lifeVars
    <2>2. \A w \in Worker : Present(w)' => Present(w)
      BY <2>1 DEF Present
    <2>3. \A m \in Manager : Deciding(m)' => Deciding(m)
      BY <2>1 DEF Deciding
    <2> QED BY <1>0, <2>2, <2>3, CapAtRest
  <1> QED BY <1>1, <1>4, <1>5 DEF ChainNext

LEMMA CapInit ==
  ASSUME IsFiniteSet(Manager) PROVE ChainInit => CapInv
  <1> SUFFICES ASSUME ChainInit PROVE CapInv
    OBVIOUS
  <1>1. Iteration = {} /\ Cardinality(Iteration) = 0
    <2>1. Iteration = {}
      BY DEF ChainInit, Init, NoWorker, Iteration, Present
    <2> QED BY <2>1, FS_EmptySet
  <1>2. Cardinality(Deciders) = 0
    <2>1. \A m \in Manager : ~Deciding(m)
      BY RestTyped DEF ChainInit, LifecycleInit, Deciding
    <2>2. Deciders = {}
      BY <2>1 DEF Deciders
    <2> QED BY <2>2, FS_EmptySet
  <1>3. Cardinality(Manager) \in Nat /\ MaxIterations \in Nat
    BY FS_CardinalityType, WorkerAssumption
  <1>4. ChainInv
    BY ChainInitInv
  <1> QED BY <1>1, <1>2, <1>3, <1>4 DEF CapInv

(* An autonomous loop has at most as many iterations as its cap and the    *)
(* managers beside the one that made the last of them, successors          *)
(* included, for any number of managers that stand at once between the     *)
(* gate, which counts the rows, and the transaction, which does not, and   *)
(* any number of ticks, backends and calls                                 *)
(* (workflowV2AutonomousLoopSpawnGate, workflowV2WorkerSpawnCreate).       *)
THEOREM IterationsCappedHolds ==
  ASSUME IsFiniteSet(Manager) PROVE ChainSpec => []IterationsCapped
  <1>1. CapInv /\ [ChainNext]_chainVars => CapInv'
    BY CapStep
  <1>2. CapInv => IterationsCapped
    <2> SUFFICES ASSUME CapInv, MaxIterations > 0
                 PROVE  Cardinality(Iteration) < MaxIterations + Cardinality(Manager)
      BY DEF IterationsCapped
    <2>1. Cardinality(Iteration) + Cardinality(Deciders) < MaxIterations + Cardinality(Manager)
      BY DEF CapInv
    <2> QED BY <2>1, IterationsFinite, DecidersFinite, WorkerAssumption
  <1> QED BY <1>1, <1>2, CapInit, PTL DEF ChainSpec

-----------------------------------------------------------------------------
(* The turns of an autonomous loop.  Between the gate and the transaction  *)
(* ticks go on; none of them opens the iteration before again, as long as  *)
(* a row is put back only when its worker was deleted meanwhile.           *)

(* Which fields of a frame go with which step of an action.                *)
Shape(f) ==
    /\ f.pc = "rest" => f.act = "none"
    /\ f.pc = "raw" => f.act \in {"handoff", "retire", "successor"}
    /\ f.pc = "paper" => f.act \in {"handoff", "successor"}
    /\ f.pc = "gate" => f.act = "successor"
    /\ f.pc \in {"session", "create"} => f.act \in {"spawn", "successor"}
    /\ f.pc \in {"raw", "paper", "gate", "session", "create"} => ~f.spawned
    /\ f.pc \in {"undo spawn", "undo session"} => f.spawned

(* An id that was chosen and is not in use is one no process works on.     *)
Chosen(m) ==
    life[m].act \in {"spawn", "successor"} =>
        /\ life[m].s <= last
        /\ ~life[m].spawned /\ ~Present(life[m].s) =>
              \A p \in Process : at[p].pc \notin Adrift => at[p].w # life[m].s

(* What an action knows of its session run and its worker.                 *)
Met(m) ==
    /\ life[m].pc = "create" /\ ~life[m].fresh => session[life[m].s] # "absent"
    /\ life[m].pc = "undo session" => ~Present(life[m].s)
    /\ at[m].pc \in Reviewing => at[m].raw.status = "submitted_for_review"

(* The iteration before is over and was judged, since the gate was passed. *)
Admitted(m) ==
    Deciding(m) /\ MaxIterations > 0 =>
        \A w \in Worker :
            Latest(w) => worker[w].status \notin OpenStatus /\ w \in feedback

(* A process undoes what it did only for a worker that was deleted.        *)
Trails(p) ==
    /\ at[p].pc \notin Adrift => at[p].w <= last
    /\ at[p].pc \in Undoing => ~Present(at[p].w)

Known(w) == Attended(w) /\ (Present(w) => w <= last)

TurnInv ==
    /\ ChainInv
    /\ \A w \in Worker : Known(w)
    /\ \A p \in Process : Trails(p)
    /\ \A m \in Manager : Shape(life[m]) /\ Chosen(m) /\ Met(m) /\ Admitted(m)

(* What a process takes up, keeps or leaves.                               *)
Comes(p) ==
    \/ at'[p].pc \in Adrift
    \/ /\ at[p].pc \notin Adrift /\ at'[p].w = at[p].w
       /\ at'[p].pc \in Undoing => ~Present(at[p].w)
    \/ Present(at'[p].w) /\ at'[p].pc \notin Undoing

LEMMA Throws ==
  ASSUME TurnInv, RunnersReport, NEW w \in Worker, NEW status, PatchThrows(w, status)
  PROVE  ~Present(w)
  <1>1. faults \in Nat /\ Attended(w)
    BY DEF TurnInv, ChainInv, KernelInv, TypeOK, Known
  <1>2. session[w] = "absent"
    BY <1>1 DEF PatchThrows, RunnersReport
  <1> QED BY <1>1, <1>2 DEF Attended, Present

LEMMA TickComes ==
  ASSUME TurnInv, RunnersReport, NEW t \in Ticker, TickStep(t)
  PROVE  Comes(t) /\ at'[t].pc \notin Reviewing
  <1>0. /\ KernelInv /\ t \in Process /\ at[t] \in Locals /\ at[t].w \in Worker
    BY Remembered DEF TurnInv, ChainInv, Process
  <1>1. CASE StartTick(t)
    <2>1. at'[t] = [Idle EXCEPT !.pc = "expire", !.now = clock]
      BY <1>0, <1>1, BecomeIs DEF StartTick
    <2>2. at'[t].pc = "expire"
      BY <2>1 DEF Idle
    <2> QED BY <2>2 DEF Comes, Adrift, Reviewing
  <1>2. ASSUME NEW w \in Worker, ExpireWorker(t, w)
        PROVE  Comes(t) /\ at'[t].pc \notin Reviewing
    <2>1. at'[t] = [at[t] EXCEPT !.pc = "expire session", !.w = w, !.raw = worker[w]]
      BY <1>0, <1>2, BecomeIs DEF ExpireWorker
    <2>2. at'[t].pc = "expire session" /\ at'[t].w = w
      BY <1>0, <2>1 DEF Locals
    <2>3. Present(w)
      BY <1>2 DEF ExpireWorker, Lapsed, Present
    <2> QED BY <2>2, <2>3 DEF Comes, Undoing, Reviewing
  <1>3. ASSUME NEW pc, Goto(t, pc), at[t].pc \notin Adrift,
               pc \notin Reviewing,
               pc \in Undoing => ~Present(at[t].w)
        PROVE  Comes(t) /\ at'[t].pc \notin Reviewing
    BY <1>0, <1>3, GotoIs DEF Comes
  <1>4. ASSUME Stop(t) \/ Goto(t, "expire") \/ Goto(t, "claim")
        PROVE  Comes(t) /\ at'[t].pc \notin Reviewing
    <2>1. at'[t].pc \in Adrift
      BY <1>0, <1>4, GotoIs, StopIs DEF Adrift
    <2> QED BY <2>1 DEF Comes, Adrift, Reviewing
  <1>5. CASE ExpireSession(t) \/ ClaimSession(t) \/ ExecuteSession(t)
    <2>1. at[t].pc \in {"expire session", "claim session", "execute session"}
      BY <1>5 DEF ExpireSession, ClaimSession, ExecuteSession, At
    <2>2. \/ Stop(t)
          \/ Goto(t, "expire jobs") \/ Goto(t, "execute") \/ Goto(t, "end loop")
          \/ /\ \E status : PatchThrows(at[t].w, status)
             /\ \E pc \in {"expire undo", "claim undo", "execute undo"} : Goto(t, pc)
      BY <1>5 DEF ExpireSession, ClaimSession, ExecuteSession, AfterResult
    <2>3. CASE Goto(t, "expire jobs") \/ Goto(t, "execute") \/ Goto(t, "end loop")
      BY <2>1, <2>3, <1>3 DEF Adrift, Undoing, Reviewing
    <2>4. CASE /\ \E status : PatchThrows(at[t].w, status)
               /\ \E pc \in {"expire undo", "claim undo", "execute undo"} : Goto(t, pc)
      <3>1. ~Present(at[t].w)
        BY <1>0, <2>4, Throws
      <3> QED BY <2>1, <2>4, <3>1, <1>3 DEF Adrift, Undoing, Reviewing
    <2> QED BY <2>2, <2>3, <2>4, <1>4
  <1>6. CASE ExpireJobs(t) \/ ExpireUndo(t) \/ ExpireDone(t) \/ ClaimUndo(t)
             \/ ExecuteUndo(t) \/ EndLoop(t)
    BY <1>6, <1>4 DEF ExpireJobs, ExpireUndo, ExpireDone, ClaimUndo, ExecuteUndo, EndLoop
  <1>7. CASE ClaimSelect(t)
    <2>1. ASSUME NEW w \in Worker, MayClaimWorker(w, at[t].now),
                 Become(t, [at[t] EXCEPT !.pc = "claim cas", !.w = w, !.raw = worker[w]])
          PROVE  Comes(t) /\ at'[t].pc \notin Reviewing
      <3>1. at'[t] = [at[t] EXCEPT !.pc = "claim cas", !.w = w, !.raw = worker[w]]
        BY <1>0, <2>1, BecomeIs
      <3>2. at'[t].pc = "claim cas" /\ at'[t].w = w
        BY <1>0, <3>1 DEF Locals
      <3>3. Present(w)
        BY <2>1 DEF MayClaimWorker, Present
      <3> QED BY <3>2, <3>3 DEF Comes, Undoing, Reviewing
    <2> QED BY <1>7, <2>1, <1>4 DEF ClaimSelect
  <1>8. CASE ClaimCas(t) \/ Execute(t)
    <2>1. /\ at[t].pc \in {"claim cas", "execute"}
          /\ Stop(t) \/ Goto(t, "claim reread") \/ Goto(t, "execute session")
      BY <1>8 DEF ClaimCas, Execute, At
    <2> QED BY <2>1, <1>3, <1>4 DEF Adrift, Undoing, Reviewing
  <1>9. CASE ClaimReread(t)
    <2>1. ASSUME NEW r, Become(t, [at[t] EXCEPT !.pc = "claim session", !.held = r])
          PROVE  Comes(t) /\ at'[t].pc \notin Reviewing
      <3>1. at'[t] = [at[t] EXCEPT !.pc = "claim session", !.held = r]
        BY <1>0, <2>1, BecomeIs
      <3>2. at'[t].pc = "claim session" /\ at'[t].w = at[t].w
        BY <1>0, <3>1 DEF Locals
      <3>3. at[t].pc = "claim reread"
        BY <1>9 DEF ClaimReread, At
      <3> QED BY <3>2, <3>3 DEF Comes, Adrift, Undoing, Reviewing
    <2> QED BY <1>9, <2>1, <1>4 DEF ClaimReread
  <1> QED BY <1>1, <1>2, <1>5, <1>6, <1>7, <1>8, <1>9 DEF TickStep

LEMMA ReviewComes ==
  ASSUME TurnInv, NEW m \in Manager, ReviewStep(m)
  PROVE  /\ Comes(m)
         /\ at'[m].pc \in Reviewing => at'[m].raw.status = "submitted_for_review"
  <1>0. /\ KernelInv /\ m \in Process /\ at[m] \in Locals /\ at[m].w \in Worker
    BY Remembered DEF TurnInv, ChainInv, Process
  <1>1. ASSUME NEW w \in Worker, StartReview(m, w)
        PROVE  /\ Comes(m)
               /\ at'[m].raw.status = "submitted_for_review"
    <2>1. PICK d : at'[m] = [Idle EXCEPT !.pc = "review insert", !.w = w,
                                         !.raw = worker[w], !.decision = d]
      BY <1>0, <1>1, BecomeIs DEF StartReview
    <2>2. /\ at'[m].pc = "review insert" /\ at'[m].w = w /\ at'[m].raw = worker[w]
      BY <2>1 DEF Idle
    <2>3. worker[w].status = "submitted_for_review"
      BY <1>1 DEF StartReview
    <2> QED BY <2>2, <2>3 DEF Comes, Undoing, Present
  <1>2. CASE Stop(m)
    BY <1>0, <1>2, StopIs DEF Comes, Adrift, Reviewing
  <1>3. ASSUME NEW pc \in {"review worker", "review session", "review undo",
                           "review delete"},
               Goto(m, pc), at[m].pc \in Reviewing
        PROVE  /\ Comes(m)
               /\ at'[m].raw.status = "submitted_for_review"
    <2>1. at'[m].pc = pc /\ at'[m].w = at[m].w /\ at'[m].raw = at[m].raw
      BY <1>0, <1>3, GotoIs
    <2>2. at[m].raw.status = "submitted_for_review"
      BY <1>3 DEF TurnInv, Met
    <2> QED BY <1>3, <2>1, <2>2 DEF Comes, Adrift, Undoing, Reviewing
  <1>4. \/ \E w \in Worker : StartReview(m, w)
        \/ Stop(m)
        \/ /\ at[m].pc \in Reviewing
           /\ \E pc \in {"review worker", "review session", "review undo",
                         "review delete"} : Goto(m, pc)
    BY DEF ReviewStep, InsertReview, ReviewWorker, ReviewSession, ReviewUndo,
       ReviewDelete, At, Reviewing
  <1> QED BY <1>1, <1>2, <1>3, <1>4

LEMMA KernelComes ==
  ASSUME TurnInv, RunnersReport, KernelStep, NEW p \in Process
  PROVE  /\ at'[p] = at[p] \/ Comes(p)
         /\ at'[p].pc \in Reviewing => \/ at'[p] = at[p]
                                       \/ at'[p].raw.status = "submitted_for_review"
  <1>0. KernelInv
    BY DEF TurnInv, ChainInv
  <1>1. ASSUME NEW t \in Ticker, TickStep(t)
        PROVE  at'[p] = at[p] \/ (Comes(p) /\ at'[p].pc \notin Reviewing)
    <2>1. CASE p = t
      BY <1>1, <2>1, TickComes
    <2>2. CASE p # t
      BY <1>0, <1>1, <2>2, TickAlone
    <2> QED BY <2>1, <2>2
  <1>2. ASSUME NEW m \in Manager, ReviewStep(m)
        PROVE  \/ at'[p] = at[p]
               \/ /\ Comes(p)
                  /\ at'[p].pc \in Reviewing => at'[p].raw.status = "submitted_for_review"
    <2>1. CASE p = m
      BY <1>2, <2>1, ReviewComes
    <2>2. CASE p # m
      BY <1>0, <1>2, <2>2, OthersAlone DEF Process
    <2> QED BY <2>1, <2>2
  <1>3. ASSUME NEW t \in Ticker, Crash(t)
        PROVE  at'[p] = at[p] \/ (Comes(p) /\ at'[p].pc \notin Reviewing)
    <2>1. CASE p = t
      <3>1. at'[p].pc = "idle"
        BY <1>0, <1>3, <2>1, StopIs DEF Crash
      <3> QED BY <3>1 DEF Comes, Adrift, Reviewing
    <2>2. CASE p # t
      BY <1>0, <1>3, <2>2, OthersAlone DEF Process
    <2> QED BY <2>1, <2>2
  <1>4. CASE Intervene
    BY <1>4 DEF Intervene
  <1> QED BY <1>1, <1>2, <1>3, <1>4 DEF KernelStep, RunnersReport

LEMMA KernelTurn ==
  ASSUME TurnInv, RunnersReport, KernelStep
  PROVE  TurnInv'
  <1>0. /\ ChainInv /\ KernelInv /\ ChainInv'
        /\ UNCHANGED <<life, feedback, last>>
    BY ChainStepInv DEF TurnInv, ChainInv, ChainNext, KernelStep, lifeVars
  <1>1. ASSUME NEW w \in Worker PROVE Present(w)' <=> Present(w)
    BY <1>0, KernelPresence
  <1>2. ASSUME NEW w \in Worker, session[w] # "absent" PROVE session'[w] # "absent"
    <2>1. ASSUME NEW t \in Ticker, TickStep(t) PROVE session'[w] # "absent"
      BY <1>0, <1>2, <2>1, TickKeeps
    <2>2. ASSUME NEW m \in Manager, ReviewStep(m) PROVE session'[w] # "absent"
      BY <1>0, <1>2, <2>2, ReviewKeeps
    <2>3. CASE Intervene \/ \E t \in Ticker : Crash(t)
      BY <1>2, <2>3 DEF Intervene, Crash, tables
    <2> QED BY <2>1, <2>2, <2>3 DEF KernelStep, RunnersReport
  <1>3. ASSUME NEW w \in Worker PROVE Known(w)'
    <2>1. Known(w)
      BY DEF TurnInv
    <2> QED BY <1>0, <1>1, <1>2, <2>1 DEF Known, Attended, Present
  <1>4. ASSUME NEW p \in Process PROVE Trails(p)'
    <2>0. Trails(p) /\ at[p].w \in Worker
      BY <1>0, Remembered DEF TurnInv
    <2>1. CASE at'[p] = at[p]
      BY <1>0, <1>1, <2>0, <2>1 DEF Trails
    <2>2. CASE Comes(p)
      <3>1. at'[p].w \in Worker
        BY <1>0 DEF ChainInv, KernelInv, TypeOK, Locals
      <3>2. Present(at'[p].w) => at'[p].w <= last
        BY <3>1 DEF TurnInv, Known
      <3> QED BY <1>0, <1>1, <2>0, <2>2, <3>1, <3>2 DEF Comes, Trails, Adrift, Undoing
    <2> QED BY <2>1, <2>2, KernelComes
  <1>5. ASSUME NEW m \in Manager PROVE Chosen(m)'
    <2>0. Chosen(m) /\ life[m].s \in Worker
      BY <1>0, ChainFacts DEF TurnInv
    <2>1. ASSUME life[m].act \in {"spawn", "successor"}, ~life[m].spawned,
                 ~Present(life[m].s), NEW p \in Process, at'[p].pc \notin Adrift
          PROVE  at'[p].w # life[m].s
      <3>1. at[p].pc \notin Adrift => at[p].w # life[m].s
        BY <2>0, <2>1 DEF Chosen
      <3>2. at'[p] = at[p] \/ Comes(p)
        BY KernelComes
      <3> QED BY <2>1, <3>1, <3>2 DEF Comes
    <2> QED BY <1>0, <1>1, <2>0, <2>1 DEF Chosen
  <1>6. ASSUME NEW m \in Manager PROVE Met(m)'
    <2>0. Met(m) /\ life[m].s \in Worker /\ m \in Process
      BY <1>0, ChainFacts DEF TurnInv, Process
    <2>1. at'[m].pc \in Reviewing => at'[m].raw.status = "submitted_for_review"
      BY <2>0, KernelComes DEF Met
    <2> QED BY <1>0, <1>1, <1>2, <2>0, <2>1 DEF Met
  <1>7. ASSUME NEW m \in Manager PROVE Admitted(m)'
    <2> SUFFICES ASSUME Deciding(m)', MaxIterations > 0, NEW w \in Worker, Latest(w)'
                 PROVE  worker'[w].status \notin OpenStatus /\ w \in feedback'
      BY DEF Admitted
    <2>1. Deciding(m) /\ Latest(w)
      BY <1>0, <1>1 DEF Deciding, Latest, Iteration
    <2>2. worker[w].status \notin OpenStatus /\ w \in feedback
      BY <2>1 DEF TurnInv, Admitted
    <2>3. CASE Judged(w)
      <3>1. Decision \cap OpenStatus = {}
        BY WorkerAssumption DEF OpenStatus
      <3> QED BY <1>0, <2>2, <2>3, <3>1 DEF Judged
    <2>4. CASE PutBack(w)
      <3>1. ASSUME NEW p \in Ticker \cup Reporter, at[p].w = w, at[p].pc \in Undoing
            PROVE  FALSE
        BY <2>4, <3>1 DEF PutBack, TurnInv, Trails, Process
      <3>2. PICK n \in Manager : At(n, "review undo") /\ worker'[w] = at[n].raw
        BY <2>4, <3>1 DEF PutBack
      <3>3. at[n].raw.status = "submitted_for_review"
        BY <3>2 DEF At, Reviewing, TurnInv, Met
      <3> QED BY <1>0, <2>2, <3>2, <3>3 DEF OpenStatus
    <2>5. worker'[w] = worker[w] \/ Advances(w) \/ Judged(w) \/ PutBack(w)
      BY <1>0, KernelMoves
    <2> QED BY <1>0, <2>2, <2>3, <2>4, <2>5 DEF Advances
  <1>8. ASSUME NEW m \in Manager PROVE Shape(life'[m])
    BY <1>0 DEF TurnInv
  <1> QED BY <1>0, <1>3, <1>4, <1>5, <1>6, <1>7, <1>8 DEF TurnInv

-----------------------------------------------------------------------------
(* A step of a record action.                                              *)

(* The frame after a step that does not begin an action.                   *)
LEMMA FrameMoves ==
  ASSUME TurnInv, NEW m \in Manager, LifeStep(m), ~Starts(m)
  PROVE  /\ last' = last
         /\ Shape(life'[m])
         /\ \/ life'[m].act = "none"
            \/ /\ life'[m].act = life[m].act /\ life'[m].s = life[m].s
               /\ life'[m].spawned \/ ~life[m].spawned
         /\ life'[m].pc = "create" =>
               life'[m].fresh \/ session'[life'[m].s] # "absent"
         /\ life'[m].pc = "undo session" => ~Present(life[m].s)'
  <1>0. /\ LifecycleType /\ life[m] \in Frame /\ Shape(life[m])
        /\ worker \in [Worker -> WorkerRow] /\ life[m].s \in Worker
    BY ChainFacts DEF TurnInv, ChainInv
  <1>1. last' = last
    BY DEF LifeStep, Starts, ReadSession, CreateWorker, ReadWorker, ReadHandoff,
       UpdateWorker, PatchSession, UndoLife, UndoHandoff, WriteHandoff,
       GateSuccessor, SupersedeHandoff, CleanupWorker, CleanupSession
  <1> DEFINE Fits == /\ Shape(life'[m])
                     /\ \/ life'[m].act = "none"
                        \/ /\ life'[m].act = life[m].act /\ life'[m].s = life[m].s
                           /\ life'[m].spawned \/ ~life[m].spawned
              Tells == /\ life'[m].pc = "create" =>
                             life'[m].fresh \/ session'[life'[m].s] # "absent"
                       /\ life'[m].pc = "undo session" => ~Present(life[m].s)'
  <1>2. ASSUME Return(m) PROVE Fits /\ Tells
    BY <1>0, <1>2, ReturnIs DEF Shape
  <1>3. ASSUME NEW pc \in {"undo worker", "undo handoff", "patch", "worker"}, Step(m, pc)
        PROVE  Fits /\ Tells
    BY <1>0, <1>3, StepIs DEF Shape
  <1>4. ASSUME SpawnFails(m) PROVE Fits /\ Tells
    BY <1>2, <1>3, <1>4 DEF SpawnFails
  <1>5. CASE ReadSession(m)
    <2>1. ASSUME Call(m, [life[m] EXCEPT !.pc = "create",
                                         !.fresh = (session[life[m].s] = "absent")])
          PROVE  Fits /\ Tells
      <3>1. life'[m] = [life[m] EXCEPT !.pc = "create",
                                       !.fresh = (session[life[m].s] = "absent")]
        BY <1>0, <2>1, CallIs
      <3>2. /\ life'[m].pc = "create" /\ life'[m].act = life[m].act
            /\ life'[m].s = life[m].s /\ life'[m].spawned = life[m].spawned
            /\ life'[m].fresh = (session[life[m].s] = "absent")
        BY <1>0, <3>1 DEF Frame
      <3>3. life[m].pc = "session" /\ session' = session
        BY <1>5 DEF ReadSession, In, vars, tables
      <3> QED BY <1>0, <3>2, <3>3 DEF Shape
    <2> QED BY <1>4, <1>5, <2>1 DEF ReadSession
  <1>6. CASE CreateWorker(m)
    <2>1. ASSUME Call(m, [life[m] EXCEPT !.pc = "supersede", !.spawned = TRUE])
          PROVE  Fits /\ Tells
      <3>1. life'[m] = [life[m] EXCEPT !.pc = "supersede", !.spawned = TRUE]
        BY <1>0, <2>1, CallIs
      <3>2. /\ life'[m].pc = "supersede" /\ life'[m].act = life[m].act
            /\ life'[m].s = life[m].s /\ life'[m].spawned
        BY <1>0, <3>1 DEF Frame
      <3> QED BY <3>2 DEF Shape
    <2> QED BY <1>2, <1>4, <1>6, <2>1 DEF CreateWorker
  <1>7. CASE ReadWorker(m)
    <2>1. life'[m] = [life[m] EXCEPT !.raw = worker[life[m].w],
                        !.pc = IF life[m].act = "retire" THEN "worker" ELSE "paper"]
      BY <1>0, <1>7, CallIs DEF ReadWorker
    <2>2. /\ life'[m].pc = IF life[m].act = "retire" THEN "worker" ELSE "paper"
          /\ life'[m].act = life[m].act
          /\ life'[m].s = life[m].s /\ life'[m].spawned = life[m].spawned
      BY <1>0, <2>1 DEF Frame
    <2>3. life[m].act \in {"handoff", "retire", "successor"} /\ ~life[m].spawned
      BY <1>0, <1>7 DEF ReadWorker, In, Shape
    <2>4. \/ life'[m].pc = "worker"
          \/ life'[m].pc = "paper" /\ life'[m].act \in {"handoff", "successor"}
      BY <2>2, <2>3
    <2>5. Shape(life'[m])
      BY <2>2, <2>3, <2>4 DEF Shape
    <2>6. life'[m].pc \notin {"create", "undo session"}
      BY <2>4
    <2> QED BY <1>1, <2>2, <2>3, <2>5, <2>6
  <1>8. CASE ReadHandoff(m)
    <2>1. life'[m] = [life[m] EXCEPT !.paper = handoff[life[m].w],
                        !.pc = IF life[m].act = "handoff" THEN "write" ELSE "gate"]
      BY <1>0, <1>8, CallIs DEF ReadHandoff
    <2>2. /\ life'[m].pc = IF life[m].act = "handoff" THEN "write" ELSE "gate"
          /\ life'[m].act = life[m].act
          /\ life'[m].s = life[m].s /\ life'[m].spawned = life[m].spawned
      BY <1>0, <2>1 DEF Frame
    <2>3. life[m].act \in {"handoff", "successor"} /\ ~life[m].spawned
      BY <1>0, <1>8 DEF ReadHandoff, In, Shape
    <2>4. \/ life'[m].pc = "write"
          \/ life'[m].pc = "gate" /\ life'[m].act = "successor"
      BY <2>2, <2>3
    <2>5. Shape(life'[m])
      BY <2>2, <2>3, <2>4 DEF Shape
    <2>6. life'[m].pc \notin {"create", "undo session"}
      BY <2>4
    <2> QED BY <1>1, <2>2, <2>3, <2>5, <2>6
  <1>9. CASE UpdateWorker(m) \/ PatchSession(m) \/ UndoLife(m) \/ WriteHandoff(m)
             \/ SupersedeHandoff(m) \/ CleanupSession(m)
    BY <1>9, <1>2, <1>3 DEF UpdateWorker, PatchSession, UndoLife, WriteHandoff,
       SupersedeHandoff, CleanupSession
  <1>10. CASE UndoHandoff(m)
    <2>1. ASSUME life[m].spawned, Step(m, "undo spawn") PROVE Fits /\ Tells
      <3>1. /\ life'[m].pc = "undo spawn" /\ life'[m].act = life[m].act
            /\ life'[m].s = life[m].s /\ life'[m].spawned = life[m].spawned
        BY <1>0, <2>1, StepIs
      <3> QED BY <2>1, <3>1 DEF Shape
    <2> QED BY <1>2, <1>10, <2>1 DEF UndoHandoff
  <1>11. CASE GateSuccessor(m)
    <2>1. ASSUME Step(m, "session") PROVE Fits /\ Tells
      <3>1. /\ life'[m].pc = "session" /\ life'[m].act = life[m].act
            /\ life'[m].s = life[m].s /\ life'[m].spawned = life[m].spawned
        BY <1>0, <2>1, StepIs
      <3>2. life[m].pc = "gate"
        BY <1>11 DEF GateSuccessor, In
      <3> QED BY <1>0, <3>1, <3>2 DEF Shape
    <2> QED BY <1>3, <1>11, <2>1 DEF GateSuccessor
  <1>12. CASE CleanupWorker(m)
    <2>1. /\ life'[m].pc = "undo session" /\ life'[m].act = life[m].act
          /\ life'[m].s = life[m].s /\ life'[m].spawned = life[m].spawned
      BY <1>0, <1>12, StepIs DEF CleanupWorker
    <2>2. life[m].pc = "undo spawn"
      BY <1>12 DEF CleanupWorker, In
    <2>3. ~Present(life[m].s)'
      BY <1>0, <1>12, <2>1 DEF CleanupWorker, Without, NoWorker, Present
    <2>4. life[m].spawned
      BY <1>0, <2>2 DEF Shape
    <2>5. Shape(life'[m])
      BY <2>1, <2>4 DEF Shape
    <2>6. life'[m].pc # "create"
      BY <2>1
    <2>7. Fits
      BY <2>1, <2>4, <2>5
    <2>8. Tells
      BY <2>3, <2>6
    <2> QED BY <1>1, <2>7, <2>8
  <1>13. Fits /\ Tells
    BY <1>5, <1>6, <1>7, <1>8, <1>9, <1>10, <1>11, <1>12 DEF LifeStep, Starts
  <1> QED BY <1>1, <1>13

(* The session run of a worker goes with it, after it.                     *)
LEMMA LifeSessions ==
  ASSUME TurnInv, NEW m \in Manager, LifeStep(m), NEW w \in Worker, Present(w)'
  PROVE  session'[w] # "absent"
  <1>0. /\ ChainInv /\ session \in [Worker -> SessionStatus]
        /\ worker \in [Worker -> WorkerRow] /\ life[m].s \in Worker
        /\ Met(m) /\ Known(w)
    BY ChainFacts DEF TurnInv
  <1>1. CASE CreateWorker(m)
    <2>1. CASE w = life[m].s
      BY <1>0, <1>1, <2>1 DEF CreateWorker, Patched, Met, In, Known, Attended, Present
    <2>2. CASE w # life[m].s
      BY <1>0, <1>1, <2>2 DEF CreateWorker, Patched, Known, Attended, Present
    <2> QED BY <2>1, <2>2
  <1>2. CASE ~CreateWorker(m)
    <2>1. Present(w) /\ session[w] # "absent"
      BY <1>0, <1>2, LifeAppears DEF Known, Attended, Present
    <2>2. session' = session \/ PatchSession(m) \/ CleanupSession(m)
      BY <1>2 DEF LifeStep, StartSpawn, StartHandoff, StartRetire, StartSuccessor,
         ReadSession, ReadWorker, ReadHandoff, UpdateWorker, UndoLife, UndoHandoff,
         WriteHandoff, GateSuccessor, SupersedeHandoff, CleanupWorker, vars, tables
    <2>3. CASE PatchSession(m)
      <3>1. session'[w] \in {session[w], LastStatus(life[m])}
        BY <1>0, <2>3 DEF PatchSession, Patched
      <3>2. LastStatus(life[m]) # "absent"
        BY DEF LastStatus
      <3> QED BY <2>1, <3>1, <3>2
    <2>4. CASE CleanupSession(m)
      <3>1. w # life[m].s
        BY <1>0, <2>1, <2>4 DEF CleanupSession, In, Met
      <3> QED BY <1>0, <2>1, <2>4, <3>1 DEF CleanupSession, Patched
    <2> QED BY <2>1, <2>2, <2>3, <2>4
  <1> QED BY <1>1, <1>2

LEMMA LifeTurn ==
  ASSUME TurnInv, OneManager, NEW m \in Manager, LifeStep(m), ChainInv'
  PROVE  TurnInv'
  <1>0. /\ ChainInv /\ LifecycleType /\ Worker \subseteq Nat /\ last \in Nat /\ last' \in Nat
        /\ life[m].s \in Worker /\ life'[m].s \in Worker
        /\ Shape(life[m]) /\ Chosen(m) /\ Met(m)
    <2>1. ChainInv /\ LifecycleType /\ life[m].s \in Worker /\ last \in Nat
      BY ChainFacts DEF TurnInv, ChainInv
    <2>2. last' \in Nat /\ life'[m].s \in Worker
      BY DEF ChainInv, LifecycleType, Frame
    <2> QED BY <2>1, <2>2, LifecycleAssumption DEF TurnInv
  <1>1. at' = at
    BY DEF LifeStep, StartSpawn, StartHandoff, StartRetire, StartSuccessor,
       ReadSession, CreateWorker, ReadWorker, ReadHandoff, UpdateWorker,
       PatchSession, UndoLife, UndoHandoff, WriteHandoff, GateSuccessor,
       SupersedeHandoff, CleanupWorker, CleanupSession, vars
  <1>2. last <= last'
    <2>1. last' = last \/ \E s \in Worker : Choose(s)
      BY FrameMoves, <1>0, StartIs DEF Starts
    <2> QED BY <1>0, <2>1 DEF Choose
  (* a worker that appears is the one chosen *)
  <1>3. ASSUME NEW w \in Worker, ~Present(w), Present(w)'
        PROVE  /\ w = life[m].s /\ ~life[m].spawned
               /\ life[m].act \in {"spawn", "successor"} /\ Deciding(m)
    <2>1. CreateWorker(m)
      BY <1>0, <1>3, LifeAppears
    <2>2. worker \in [Worker -> WorkerRow]
      BY <1>0, ChainFacts
    <2>3. w = life[m].s
      BY <1>3, <2>1, <2>2 DEF CreateWorker, Present
    <2> QED BY <1>0, <2>1, <2>3 DEF CreateWorker, In, Shape, Deciding
  <1>4. ASSUME NEW w \in Worker PROVE Known(w)'
    <2>1. Present(w)' => w <= last
      BY <1>0, <1>3 DEF TurnInv, Known, Chosen
    <2>2. Present(w)' => w <= last'
      <3>1. w \in Nat /\ last \in Nat /\ last' \in Nat
        BY <1>0
      <3> QED BY ONLY <1>2, <2>1, <3>1, AtMost
    <2> QED BY <2>2, LifeSessions DEF Known, Attended, Present
  <1>5. ASSUME NEW p \in Process PROVE Trails(p)'
    <2>1. Trails(p) /\ at[p].w \in Worker
      BY <1>0, Remembered DEF TurnInv, ChainInv
    <2>2. at[p].pc \in Undoing => ~Present(at[p].w)'
      <3>1. ASSUME at[p].pc \in Undoing, Present(at[p].w)' PROVE FALSE
        <4>1. ~Present(at[p].w) /\ at[p].pc \notin Adrift
          BY <2>1, <3>1 DEF Trails, Undoing, Adrift
        <4>2. worker'[at[p].w].status # "absent"
          BY <1>1, <3>1 DEF Present
        <4>3. /\ at[p].w = life[m].s /\ ~life[m].spawned
              /\ life[m].act \in {"spawn", "successor"}
          BY <1>3, <2>1, <4>1, <4>2 DEF Present
        <4> QED BY <1>0, <4>1, <4>3 DEF Chosen
      <3> QED BY <3>1
    <2>3. at[p].pc \notin Adrift => at[p].w <= last'
      <3>1. at[p].w \in Nat /\ last \in Nat /\ last' \in Nat
        BY <1>0, <2>1
      <3>2. at[p].pc \notin Adrift => at[p].w <= last
        BY <2>1 DEF Trails
      <3> QED BY ONLY <1>2, <3>1, <3>2, AtMost
    <2> QED BY <1>1, <2>2, <2>3 DEF Trails
  <1>6. Shape(life'[m])
    <2>1. CASE Starts(m)
      BY <1>0, <2>1, StartIs DEF Starts, Shape
    <2> QED BY <2>1, FrameMoves
  <1>7. Chosen(m)'
    <2> SUFFICES ASSUME life'[m].act \in {"spawn", "successor"}
                 PROVE  /\ life'[m].s <= last'
                        /\ ~life'[m].spawned /\ ~Present(life[m].s)' =>
                              \A p \in Process :
                                 at[p].pc \notin Adrift => at[p].w # life'[m].s
      BY <1>1 DEF Chosen
    <2>1. CASE Starts(m)
      <3>1. Candidate(life'[m].s) /\ Choose(life'[m].s) /\ life[m].pc = "rest"
            /\ UNCHANGED vars
        BY <1>0, <2>1, StartIs DEF Starts
      <3>2. Present(life'[m].s) \/ life'[m].s = last + 1
        <4>1. life[m].act = "none"
          BY <1>0, <3>1 DEF Shape
        <4> QED BY <3>1, <4>1 DEF Candidate, OneManager
      <3>3. life'[m].s <= last'
        <4>1. /\ life'[m].s \in Nat /\ last \in Nat
              /\ last' = IF life'[m].s > last THEN life'[m].s ELSE last
          BY <1>0, <3>1 DEF Choose
        <4> QED BY ONLY <4>1, AtMost
      <3>4. ASSUME ~Present(life[m].s)', NEW p \in Process, at[p].pc \notin Adrift
            PROVE  at[p].w # life'[m].s
        <4>1. life'[m].s = last + 1
          BY <3>1, <3>2, <3>4 DEF Present, vars, tables
        <4>2. at[p].w <= last /\ at[p].w \in Worker
          BY <1>0, <3>4, Remembered DEF TurnInv, Trails, ChainInv
        <4> QED BY <1>0, <4>1, <4>2
      <3> QED BY <3>3, <3>4
    <2>2. CASE ~Starts(m)
      <3>1. /\ last' = last /\ life'[m].act = life[m].act /\ life'[m].s = life[m].s
            /\ life'[m].spawned \/ ~life[m].spawned
        BY <2>2, FrameMoves
      <3>2. life[m].s <= last
        BY <1>0, <3>1 DEF Chosen
      <3>3. ASSUME ~life'[m].spawned, ~Present(life[m].s)',
                   NEW p \in Process, at[p].pc \notin Adrift
            PROVE  at[p].w # life'[m].s
        <4>1. ~Present(life[m].s)
          <5>1. ASSUME Present(life[m].s) PROVE FALSE
            <6>1. worker'[life[m].s].status = "absent"
              BY <3>1, <3>3 DEF Present
            <6>2. CleanupWorker(m)
              BY <1>0, <5>1, <6>1, LifeVanishes DEF Present
            <6>3. life[m].spawned
              BY <1>0, <6>2 DEF CleanupWorker, In, Shape
            <6> QED BY <3>1, <3>3, <6>3
          <5> QED BY <5>1
        <4> QED BY <1>0, <3>1, <3>3, <4>1 DEF Chosen
      <3> QED BY <3>1, <3>2, <3>3
    <2> QED BY <2>1, <2>2
  <1>8. Met(m)'
    <2>1. CASE Starts(m)
      <3>1. life'[m].pc \in {"session", "raw"}
        BY <1>0, <2>1, StartIs DEF Starts
      <3> QED BY <1>0, <1>1, <3>1 DEF Met
    <2>2. CASE ~Starts(m)
      <3>1. /\ life'[m].pc = "create" =>
                  life'[m].fresh \/ session'[life'[m].s] # "absent"
            /\ life'[m].pc = "undo session" => ~Present(life[m].s)'
        BY <2>2, FrameMoves
      <3> QED BY <1>0, <1>1, <3>1 DEF Met
    <2> QED BY <2>1, <2>2
  <1>9. Admitted(m)'
    <2> SUFFICES ASSUME Deciding(m)', MaxIterations > 0, NEW w \in Worker, Latest(w)'
                 PROVE  worker'[w].status \notin OpenStatus /\ w \in feedback'
      BY DEF Admitted
    <2>1. /\ worker' = worker /\ feedback' = feedback
          /\ Deciding(m) \/ SpawnAllowed
      BY <1>0, Decides
    <2>2. Latest(w)
      BY <2>1 DEF Latest, Iteration, Present
    <2>3. CASE Deciding(m)
      BY <2>1, <2>2, <2>3 DEF TurnInv, Admitted
    <2>4. CASE SpawnAllowed
      BY <2>1, <2>2, <2>4 DEF SpawnAllowed, LoopAdmits
    <2> QED BY <2>1, <2>3, <2>4
  <1>10. ASSUME NEW n \in Manager
         PROVE  Shape(life'[n]) /\ Chosen(n)' /\ Met(n)' /\ Admitted(n)'
    <2>1. n = m
      BY DEF OneManager
    <2> QED BY <1>6, <1>7, <1>8, <1>9, <2>1
  <1> QED BY <1>4, <1>5, <1>10 DEF TurnInv

LEMMA TurnStep ==
  ASSUME TurnInv, OneManager, RunnersReport, [ChainNext]_chainVars
  PROVE  TurnInv'
  <1>0. ChainInv /\ ChainInv'
    BY ChainStepInv DEF TurnInv
  <1>1. CASE Feedback \/ ChainWaits \/ UNCHANGED chainVars
    <2>1. /\ UNCHANGED <<worker, session, at, life, last>>
          /\ feedback \subseteq feedback'
      BY <1>1 DEF Feedback, RecordFeedback, ChainWaits, TimePasses, chainVars,
                  vars, tables, lifeVars
    <2>2. ASSUME NEW w \in Worker PROVE Known(w)'
      <3>1. Known(w)
        BY DEF TurnInv
      <3> QED BY <2>1, <3>1 DEF Known, Attended, Present
    <2>3. ASSUME NEW p \in Process PROVE Trails(p)'
      <3>1. Trails(p)
        BY DEF TurnInv
      <3> QED BY <2>1, <3>1 DEF Trails, Present
    <2>4. ASSUME NEW m \in Manager
          PROVE  Shape(life'[m]) /\ Chosen(m)' /\ Met(m)' /\ Admitted(m)'
      <3>1. Shape(life[m]) /\ Chosen(m) /\ Met(m) /\ Admitted(m)
        BY DEF TurnInv
      <3>2. Shape(life'[m])
        BY <2>1, <3>1
      <3>3. Chosen(m)' /\ Met(m)'
        BY <2>1, <3>1 DEF Chosen, Met, Present
      <3>4. Admitted(m)'
        BY <2>1, <3>1 DEF Admitted, Deciding, Latest, Iteration, Present
      <3> QED BY <3>2, <3>3, <3>4
    <2> QED BY <1>0, <2>2, <2>3, <2>4 DEF TurnInv
  <1>2. CASE LifecycleStep
    BY <1>0, <1>2, LifeTurn DEF LifecycleStep
  <1>3. CASE KernelStep
    BY <1>3, KernelTurn
  <1> QED BY <1>1, <1>2, <1>3 DEF ChainNext

LEMMA TurnInit == ChainInit => TurnInv
  <1> SUFFICES ASSUME ChainInit PROVE TurnInv
    OBVIOUS
  <1>0. ChainInv
    BY ChainInitInv
  <1>1. \A w \in Worker : Known(w) /\ ~Present(w)
    BY DEF ChainInit, Init, NoWorker, Known, Attended, Present
  <1>2. \A p \in Process : at[p] = Idle /\ at[p].pc = "idle"
    BY DEF ChainInit, Init, Idle
  <1>3. \A p \in Process : Trails(p)
    BY <1>2 DEF Trails, Adrift, Undoing
  <1>4. ASSUME NEW m \in Manager
        PROVE  Shape(life[m]) /\ Chosen(m) /\ Met(m) /\ Admitted(m)
    <2>1. life[m].pc = "rest" /\ life[m].act = "none" /\ m \in Process
      BY RestTyped DEF ChainInit, LifecycleInit, Process
    <2> QED BY <1>2, <2>1 DEF Shape, Chosen, Met, Admitted, Deciding, Reviewing
  <1> QED BY <1>0, <1>1, <1>3, <1>4 DEF TurnInv

LEMMA InTurn ==
  ASSUME TurnInv, OneManager, [ChainNext]_chainVars,
         NEW w \in Worker, NEW s \in Worker, MaxIterations > 0,
         ~Present(s), Present(s)', Latest(w)
  PROVE  worker[w].status \notin OpenStatus /\ w \in feedback
  <1>0. ChainInv
    BY DEF TurnInv
  <1>1. ~KernelStep
    BY <1>0, KernelPresence
  <1>2. ~(Feedback \/ ChainWaits \/ UNCHANGED chainVars)
    <2>1. ASSUME Feedback \/ ChainWaits \/ UNCHANGED chainVars PROVE worker' = worker
      BY <2>1 DEF Feedback, RecordFeedback, ChainWaits, TimePasses, chainVars,
                  vars, tables
    <2> QED BY <2>1 DEF Present
  <1>3. PICK m \in Manager : LifeStep(m)
    BY <1>1, <1>2 DEF ChainNext, LifecycleStep
  <1>4. CreateWorker(m)
    BY <1>0, <1>3, LifeAppears
  <1>5. Deciding(m)
    BY <1>4 DEF CreateWorker, In, Deciding
  <1> QED BY <1>5 DEF TurnInv, Admitted

(* Another iteration begins only when the one before is over and feedback  *)
(* on it was recorded, for any number of ticks that may die anywhere, any  *)
(* attempts and any record actions that fail and are undone, although the  *)
(* gate reads both some steps before the transaction                       *)
(* (workflowV2AutonomousLoopSpawnGate, workflowV2WorkerSpawnCreate).  One  *)
(* manager at a time, no backend reports directly, and the kernel's own    *)
(* session patches throw only for a session run that is gone: a result     *)
(* that is undone would open the iteration again behind the gate.          *)
THEOREM IterationsInTurnHolds ==
  ASSUME OneManager, RunnersReport PROVE ChainSpec => IterationsInTurn
  <1>1. TurnInv /\ [ChainNext]_chainVars => TurnInv'
    BY TurnStep
  <1>2. TurnInv /\ [ChainNext]_chainVars =>
          [\A w, s \in Worker :
             /\ MaxIterations > 0
             /\ ~Present(s) /\ Present(s)'
             /\ Latest(w)
             => worker[w].status \notin OpenStatus /\ w \in feedback]_chainVars
    BY InTurn
  <1> QED BY <1>1, <1>2, TurnInit, PTL DEF ChainSpec, IterationsInTurn

-----------------------------------------------------------------------------
(* The lineage of workers.  While a manager replaces a worker, three rows  *)
(* disagree; what the manager remembers says how, and that what it puts    *)
(* back does not point at a successor.  With two attempts the lineage can  *)
(* be lost: the session run of a replaced worker may look queued again,    *)
(* and a second spawn of that worker forgets its successor.                *)

OneAttempt == MaxAttempts = 1

Follows(s, w) == Present(s) /\ worker[s].supersedes = w

Agreed(w) ==
    \A s \in Worker :
        /\ worker[w].successor = s <=> Follows(s, w)
        /\ handoff[w].successor = s <=> worker[w].successor = s
        /\ worker[w].successor = s => worker[w].status = "successor_spawned"

(* A manager is between the rows of w, its handoff and its successor.      *)
Mending(m) ==
    /\ life[m].act = "successor"
    /\ life[m].pc \in {"supersede", "worker", "undo worker", "undo handoff",
                       "undo spawn"}

Lineage ==
    \A w \in Worker : Agreed(w) \/ \E m \in Manager : Mending(m) /\ life[m].w = w

Renews(f) == f.act \in {"handoff", "retire", "successor"}

Form(f) ==
    /\ f.pc = "write" => f.act = "handoff"
    /\ f.pc \in {"supersede", "undo spawn", "undo session"} => f.act = "successor"
    /\ f.pc \in {"worker", "patch", "undo worker"} => Renews(f)
    /\ f.pc = "undo handoff" => f.act \in {"handoff", "successor"}
    /\ f.spawned => f.act = "successor"

(* The rows it would put back have no successor, and the worker at hand    *)
(* has none but the one being made.                                        *)
Copied(m) ==
    LET f == life[m] IN
    Renews(f) =>
        /\ Present(f.w)
        /\ f.pc # "raw" =>
              /\ f.raw.status # "absent"
              /\ f.raw.successor = Nobody
              /\ f.raw.supersedes = worker[f.w].supersedes
              /\ f.raw.status = "running" => f.raw.attempt >= 1
        /\ f.act # "retire" /\ f.pc \notin {"raw", "paper"} =>
              f.paper.successor = Nobody
        /\ f.act # "successor" \/ f.pc \notin {"patch", "undo worker"} =>
              worker[f.w].successor = Nobody

Linking(m) ==
    LET f == life[m] IN
    f.act = "successor" =>
        /\ f.s # f.w
        /\ f.pc \in {"raw", "paper", "gate", "session", "create"} => ~Present(f.s)
        /\ f.pc \in {"supersede", "worker"} => f.spawned
        /\ f.pc = "patch" => worker[f.w].successor = f.s /\ f.spawned
        /\ f.pc = "patch" \/ Mending(m) =>
              /\ \A s \in Worker : Follows(s, f.w) <=> s = f.s /\ f.spawned
              /\ worker[f.s].successor = Nobody
        /\ f.pc \in {"supersede", "undo spawn"} => handoff[f.w].successor = Nobody
        /\ f.pc = "worker" => handoff[f.w].successor = f.s

(* A worker that is spawned once more has no lineage to lose.              *)
Renewed(m) ==
    life[m].act = "spawn" /\ life[m].pc = "create" =>
        /\ worker[life[m].s].successor = Nobody
        /\ worker[life[m].s].supersedes = Nobody

LinkAt(m) == Form(life[m]) /\ Copied(m) /\ Linking(m) /\ Renewed(m)

Blank(w) ==
    ~Present(w) => worker[w].successor = Nobody /\ worker[w].supersedes = Nobody

(* A replaced worker is not spawned again: its session run is over.        *)
Replaced(w) ==
    worker[w].successor # Nobody =>
        \/ session[w] # "queued"
        \/ \E m \in Manager : /\ life[m].act = "successor" /\ life[m].w = w
                             /\ life[m].pc \in {"patch", "undo worker"}

Begun(w) == worker[w].status = "running" => worker[w].attempt >= 1

Rows == \A w \in Worker : Blank(w) /\ Replaced(w) /\ Begun(w)

(* A review of one manager is never undone: nobody else takes the worker.  *)
Judging(m) ==
    /\ at[m].pc \notin {"review undo", "review delete"}
    /\ at[m].pc \in {"review insert", "review worker", "review session"} =>
          Present(at[m].w)
    /\ at[m].pc \in {"review insert", "review worker"} =>
          worker[at[m].w].status = "submitted_for_review"

Lapsing(t) == at[t].pc = "expire session" => at[t].raw.attempt >= 1

LinkInv ==
    /\ TurnInv
    /\ Lineage
    /\ Rows
    /\ \A m \in Manager : LinkAt(m) /\ Judging(m)
    /\ \A t \in Ticker : Lapsing(t)

(* What a step of the kernel leaves of a row.                              *)
LeavesLinks(w) ==
    /\ worker'[w].successor = worker[w].successor
    /\ worker'[w].supersedes = worker[w].supersedes
    /\ worker[w].status = "successor_spawned" =>
          worker'[w].status = "successor_spawned"
    /\ Begun(w)'

LEMMA UnleasedKeeps ==
  ASSUME NEW r \in WorkerRow, NEW status, NEW next
  PROVE  /\ Unleased(r, status, next).successor = r.successor
         /\ Unleased(r, status, next).supersedes = r.supersedes
         /\ Unleased(r, status, next).attempt = r.attempt
         /\ Unleased(r, status, next).status = status
  BY DEF Unleased, WorkerRow

LEMMA TickLinks ==
  ASSUME LinkInv, NEW t \in Ticker, TickStep(t), NEW w \in Worker
  PROVE  /\ LeavesLinks(w)
         /\ worker[w].status \notin OpenStatus => worker'[w] = worker[w]
  <1>0. /\ KernelInv /\ worker \in [Worker -> WorkerRow] /\ worker[w] \in WorkerRow
        /\ t \in Process /\ at[t].w \in Worker /\ Trails(t) /\ Begun(w)
    BY Remembered DEF LinkInv, TurnInv, ChainInv, KernelInv, TypeOK, Rows, Process
  <1>1. CASE worker'[w] = worker[w]
    BY <1>0, <1>1 DEF LeavesLinks, Begun
  <1>2. ASSUME NEW x \in Worker, ExpireWorker(t, x), worker'[w] # worker[w]
        PROVE  LeavesLinks(w) /\ worker[w].status \in OpenStatus
    <2>1. worker[w].status = "running" /\ worker'[w] = Expired(worker[w], at[t].now)
      BY <1>0, <1>2 DEF ExpireWorker, Lapsed
    <2>2. \/ worker'[w] = Unleased(worker[w], "retry_scheduled", at[t].now + WorkerDelay)
          \/ worker'[w] = Unleased(worker[w], "timed_out", 0)
      BY <2>1 DEF Expired
    <2> QED BY <1>0, <2>1, <2>2, UnleasedKeeps DEF LeavesLinks, Begun, OpenStatus
  <1>3. ASSUME ClaimCas(t), worker'[w] # worker[w]
        PROVE  LeavesLinks(w) /\ worker[w].status \in OpenStatus
    <2>1. /\ worker[w].status \in {"queued", "retry_scheduled"}
          /\ worker'[w] = ClaimedWorker(worker[w], t, at[t].now)
      BY <1>0, <1>3 DEF ClaimCas, MayClaimWorker
    <2>2. /\ worker'[w].status = "running" /\ worker'[w].attempt = worker[w].attempt + 1
          /\ worker'[w].successor = worker[w].successor
          /\ worker'[w].supersedes = worker[w].supersedes
      BY <1>0, <2>1 DEF ClaimedWorker, WorkerRow
    <2>3. worker[w].attempt \in Nat
      BY <1>0 DEF WorkerRow
    <2> QED BY <2>1, <2>2, <2>3 DEF LeavesLinks, Begun, OpenStatus
  <1>4. ASSUME Execute(t), worker'[w] # worker[w]
        PROVE  LeavesLinks(w) /\ worker[w].status \in OpenStatus
    <2>1. /\ worker[w].status = "running"
          /\ worker'[w] = Unleased(worker[w], "submitted_for_review", worker[w].next)
      BY <1>0, <1>4 DEF Execute, HoldsWorker, Submitted
    <2> QED BY <1>0, <2>1, UnleasedKeeps DEF LeavesLinks, Begun, OpenStatus
  <1>5. ASSUME ExpireUndo(t) \/ ClaimUndo(t) \/ ExecuteUndo(t) PROVE worker' = worker
    <2>1. at[t].pc \in Undoing
      BY <1>5 DEF ExpireUndo, ClaimUndo, ExecuteUndo, At, Undoing
    <2>2. worker[at[t].w].status = "absent"
      BY <1>0, <2>1 DEF Trails, Present
    <2> QED BY <1>5, <2>2 DEF ExpireUndo, ClaimUndo, ExecuteUndo, RestoreWorker, Restored
  <1>6. \/ worker' = worker \/ ClaimCas(t) \/ Execute(t)
        \/ \E x \in Worker : ExpireWorker(t, x)
    BY <1>5 DEF TickStep, StartTick, ExpireSession, ExpireJobs, ExpireDone,
       ClaimSelect, ClaimReread, ClaimSession, ExecuteSession, EndLoop, tables
  <1> QED BY <1>1, <1>2, <1>3, <1>4, <1>6

LEMMA ReviewLinks ==
  ASSUME LinkInv, NEW m \in Manager, ReviewStep(m), NEW w \in Worker
  PROVE  LeavesLinks(w)
  <1>0. /\ KernelInv /\ worker \in [Worker -> WorkerRow] /\ worker[w] \in WorkerRow
        /\ m \in Process /\ at[m].w \in Worker /\ Begun(w) /\ Judging(m)
        /\ Sound(at[m], clock)
    BY Remembered DEF LinkInv, TurnInv, ChainInv, KernelInv, TypeOK, Rows, Process
  <1>1. CASE worker'[w] = worker[w]
    BY <1>0, <1>1 DEF LeavesLinks, Begun
  <1>2. ASSUME ReviewWorker(m), worker'[w] # worker[w] PROVE LeavesLinks(w)
    <2>1. /\ worker[w].status = "submitted_for_review"
          /\ worker'[w] = Unleased(worker[w], at[m].decision, 0)
          /\ at[m].decision \in Decision
      BY <1>0, <1>2 DEF ReviewWorker, At, Sound
    <2>2. at[m].decision # "running"
      BY <2>1, WorkerAssumption
    <2> QED BY <1>0, <2>1, <2>2, UnleasedKeeps DEF LeavesLinks, Begun
  <1>3. worker' = worker \/ ReviewWorker(m)
    BY <1>0 DEF ReviewStep, StartReview, InsertReview, ReviewSession, ReviewUndo,
       ReviewDelete, Judging, At, tables
  <1> QED BY <1>1, <1>2, <1>3

(* The workers a tick expires had begun; no other process expires any.     *)
LEMMA TickLapsing ==
  ASSUME LinkInv, NEW t \in Ticker, TickStep(t)
  PROVE  Lapsing(t)' /\ at'[t].pc # "review delete"
  <1> DEFINE Ends == Lapsing(t)' /\ at'[t].pc # "review delete"
  <1>0. KernelInv /\ t \in Process /\ at[t] \in Locals
    BY Remembered DEF LinkInv, TurnInv, ChainInv, Process
  <1>1. ASSUME NEW w \in Worker, ExpireWorker(t, w) PROVE Ends
    <2>1. at'[t] = [at[t] EXCEPT !.pc = "expire session", !.w = w, !.raw = worker[w]]
      BY <1>0, <1>1, BecomeIs DEF ExpireWorker
    <2>2. at'[t].raw = worker[w] /\ at'[t].pc = "expire session"
      BY <1>0, <2>1 DEF Locals
    <2>3. worker[w].status = "running" /\ Begun(w)
      BY <1>1 DEF ExpireWorker, Lapsed, LinkInv, Rows
    <2> QED BY <2>2, <2>3 DEF Lapsing, Begun
  <1>2. ASSUME NEW pc, Goto(t, pc), pc \notin {"expire session", "review delete"}
        PROVE  Ends
    BY <1>0, <1>2, GotoIs DEF Lapsing
  <1>3. ASSUME Stop(t) PROVE Ends
    BY <1>0, <1>3, StopIs DEF Lapsing
  <1>4. CASE StartTick(t)
    <2>1. at'[t] = [Idle EXCEPT !.pc = "expire", !.now = clock]
      BY <1>0, <1>4, BecomeIs DEF StartTick
    <2>2. at'[t].pc = "expire"
      BY <2>1 DEF Idle
    <2> QED BY <2>2 DEF Lapsing
  <1>5. CASE ClaimSelect(t)
    <2>1. ASSUME NEW w \in Worker,
                 Become(t, [at[t] EXCEPT !.pc = "claim cas", !.w = w, !.raw = worker[w]])
          PROVE  Ends
      <3>1. at'[t] = [at[t] EXCEPT !.pc = "claim cas", !.w = w, !.raw = worker[w]]
        BY <1>0, <2>1, BecomeIs
      <3>2. at'[t].pc = "claim cas"
        BY <1>0, <3>1 DEF Locals
      <3> QED BY <3>2 DEF Lapsing
    <2> QED BY <1>3, <1>5, <2>1 DEF ClaimSelect
  <1>6. CASE ClaimReread(t)
    <2>1. ASSUME NEW r, Become(t, [at[t] EXCEPT !.pc = "claim session", !.held = r])
          PROVE  Ends
      <3>1. at'[t] = [at[t] EXCEPT !.pc = "claim session", !.held = r]
        BY <1>0, <2>1, BecomeIs
      <3>2. at'[t].pc = "claim session"
        BY <1>0, <3>1 DEF Locals
      <3> QED BY <3>2 DEF Lapsing
    <2> QED BY <1>3, <1>6, <2>1 DEF ClaimReread
  <1>7. CASE ExpireSession(t) \/ ExpireJobs(t) \/ ExpireUndo(t) \/ ExpireDone(t)
             \/ ClaimCas(t) \/ ClaimSession(t) \/ ClaimUndo(t)
             \/ Execute(t) \/ ExecuteSession(t) \/ ExecuteUndo(t) \/ EndLoop(t)
    <2>1. \/ Stop(t)
          \/ \E pc \in {"expire jobs", "expire undo", "expire", "claim",
                        "claim reread", "execute", "claim undo",
                        "execute session", "end loop", "execute undo"} : Goto(t, pc)
      BY <1>7 DEF ExpireSession, ExpireJobs, ExpireUndo, ExpireDone, ClaimCas,
         ClaimSession, ClaimUndo, Execute, ExecuteSession, ExecuteUndo, EndLoop,
         AfterResult
    <2> QED BY <1>2, <1>3, <2>1
  <1> QED BY <1>1, <1>4, <1>5, <1>6, <1>7 DEF TickStep

(* A review takes its worker from the queue of reviews and no other step   *)
(* of the kernel does.                                                     *)
LEMMA ReviewJudges ==
  ASSUME LinkInv, RunnersReport, NEW m \in Manager, In(m, "rest"), ReviewStep(m),
         UNCHANGED life
  PROVE  Judging(m)' /\ at'[m].pc # "expire session"
  <1> DEFINE Goes == Judging(m)' /\ at'[m].pc # "expire session"
  <1>0. /\ KernelInv /\ m \in Process /\ at[m] \in Locals /\ at[m].w \in Worker
        /\ worker \in [Worker -> WorkerRow] /\ Judging(m)
        /\ Sound(at[m], clock)
    BY Remembered DEF LinkInv, TurnInv, ChainInv, KernelInv, TypeOK, Process
  <1>2. ASSUME NEW w \in Worker, StartReview(m, w) PROVE Goes
    <2>1. PICK d : at'[m] = [Idle EXCEPT !.pc = "review insert", !.w = w,
                                         !.raw = worker[w], !.decision = d]
      BY <1>0, <1>2, BecomeIs DEF StartReview
    <2>2. at'[m].pc = "review insert" /\ at'[m].w = w
      BY <2>1 DEF Idle
    <2>3. worker[w].status = "submitted_for_review" /\ worker' = worker
      BY <1>2 DEF StartReview, tables
    <2> QED BY <2>2, <2>3 DEF Judging, Present
  <1>3. ASSUME Stop(m) PROVE Goes
    BY <1>0, <1>3, StopIs DEF Judging, At
  <1>4. CASE InsertReview(m)
    <2>1. at'[m].pc = "review worker" /\ at'[m].w = at[m].w /\ worker' = worker
      BY <1>0, <1>4, GotoIs DEF InsertReview
    <2>2. at[m].pc = "review insert"
      BY <1>4 DEF InsertReview, At
    <2> QED BY <1>0, <2>1, <2>2 DEF Judging, Present
  <1>5. CASE ReviewWorker(m)
    <2>1. /\ at[m].pc = "review worker" /\ at[m].decision \in Decision
          /\ worker[at[m].w].status = "submitted_for_review"
      BY <1>0, <1>5 DEF ReviewWorker, At, Judging, Sound
    <2>2. /\ worker'[at[m].w] = Unleased(worker[at[m].w], at[m].decision, 0)
          /\ Goto(m, "review session")
      BY <1>0, <1>5, <2>1 DEF ReviewWorker
    <2>3. at'[m].pc = "review session" /\ at'[m].w = at[m].w
      BY <1>0, <2>2, GotoIs
    <2>4. worker'[at[m].w].status = at[m].decision /\ at[m].decision # "absent"
      <3>1. "absent" \notin Decision
        BY WorkerAssumption
      <3>2. worker[at[m].w] \in WorkerRow
        BY <1>0
      <3> DEFINE r == worker[at[m].w]
                 d == at[m].decision
      <3>3. Unleased(r, d, 0).status = d
        <4> HIDE DEF r, d
        <4>1. r \in WorkerRow
          BY <3>2 DEF r
        <4> QED BY <4>1, UnleasedKeeps
      <3> QED BY <2>1, <2>2, <3>1, <3>3
    <2> QED BY <2>3, <2>4 DEF Judging, Present
  <1>6. CASE ReviewSession(m)
    <2>1. Present(at[m].w)
      BY <1>0, <1>6 DEF ReviewSession, At, Judging
    <2>2. ~PatchThrows(at[m].w, "completed")
      BY <1>0, <2>1, Throws DEF LinkInv
    <2> QED BY <1>3, <1>6, <2>2 DEF ReviewSession
  <1>7. ~ReviewUndo(m) /\ ~ReviewDelete(m)
    BY <1>0 DEF ReviewUndo, ReviewDelete, At, Judging
  <1> QED BY <1>2, <1>4, <1>5, <1>6, <1>7 DEF ReviewStep

(* With one attempt no step of the kernel puts a session run in the queue. *)
LEMMA KernelQueues ==
  ASSUME LinkInv, RunnersReport, OneAttempt, KernelStep,
         NEW w \in Worker, session'[w] = "queued"
  PROVE  session[w] = "queued"
  <1>0. session \in [Worker -> SessionStatus]
    BY DEF LinkInv, TurnInv, ChainInv, KernelInv, TypeOK
  <1>1. ASSUME NEW x, NEW status \in {"running", "completed", "failed"},
               PatchSucceeds(x, status) \/ PatchThrows(x, status)
        PROVE  session[w] = "queued"
    BY <1>0, <1>1 DEF PatchSucceeds, PatchThrows, Patched
  <1>2. ASSUME NEW t \in Ticker, TickStep(t) PROVE session[w] = "queued"
    <2>1. \/ session' = session
          \/ ExpireSession(t) \/ ClaimSession(t) \/ ExecuteSession(t)
      BY <1>2 DEF TickStep, StartTick, ExpireWorker, ExpireJobs, ExpireUndo,
         ExpireDone, ClaimSelect, ClaimCas, ClaimReread, ClaimUndo, Execute,
         ExecuteUndo, EndLoop, tables
    <2>2. CASE ExpireSession(t)
      <3>1. at[t].pc = "expire session" /\ Lapsing(t)
        BY <2>2 DEF ExpireSession, At, LinkInv
      <3>2. ~MayRetryWorker(at[t].raw)
        <4>1. KernelInv /\ t \in Process
          BY DEF LinkInv, TurnInv, ChainInv, Process
        <4>2. at[t].raw \in WorkerRow
          BY <4>1, Remembered DEF Locals
        <4>3. at[t].raw.attempt \in 0..MaxAttempts
          BY <4>2 DEF WorkerRow
        <4>4. at[t].raw.attempt >= 1
          BY <3>1 DEF Lapsing
        <4> DEFINE n == at[t].raw.attempt
        <4>5. ~(n < MaxAttempts)
          <5> HIDE DEF n
          <5>1. n \in 0..MaxAttempts /\ n >= 1 /\ MaxAttempts = 1
            BY <4>3, <4>4 DEF n, OneAttempt
          <5> QED BY ONLY <5>1
        <4> QED BY <4>5 DEF MayRetryWorker
      <3>3. PatchSucceeds(at[t].w, "failed") \/ PatchThrows(at[t].w, "failed")
        BY <2>2, <3>2 DEF ExpireSession
      <3> QED BY <1>1, <3>3
    <2>3. CASE ClaimSession(t)
      BY <1>1, <2>3 DEF ClaimSession
    <2>4. CASE ExecuteSession(t)
      BY <1>1, <2>4 DEF ExecuteSession
    <2> QED BY <2>1, <2>2, <2>3, <2>4
  <1>3. ASSUME NEW m \in Manager, ReviewStep(m) PROVE session[w] = "queued"
    <2>1. session' = session \/ ReviewSession(m)
      BY <1>3 DEF ReviewStep, StartReview, InsertReview, ReviewWorker,
         ReviewUndo, ReviewDelete, tables
    <2> QED BY <1>1, <2>1 DEF ReviewSession
  <1>4. CASE Intervene \/ \E t \in Ticker : Crash(t)
    BY <1>4 DEF Intervene, Crash, tables
  <1> QED BY <1>2, <1>3, <1>4 DEF KernelStep, RunnersReport

LEMMA AgreedStays ==
  ASSUME NEW v \in Worker, Agreed(v),
         worker'[v].successor = worker[v].successor,
         handoff'[v].successor = handoff[v].successor,
         worker[v].successor \in Worker /\ worker[v].status = "successor_spawned"
            => worker'[v].status = "successor_spawned",
         \A s \in Worker : Follows(s, v)' <=> Follows(s, v)
  PROVE  Agreed(v)'
  BY DEF Agreed

LEMMA KernelLeaves ==
  ASSUME LinkInv, RunnersReport, KernelStep, NEW w \in Worker
  PROVE  LeavesLinks(w)
  <1>1. ASSUME worker' = worker PROVE LeavesLinks(w)
    BY <1>1 DEF LeavesLinks, LinkInv, Rows, Begun
  <1>2. CASE Intervene \/ \E t \in Ticker : Crash(t)
    BY <1>1, <1>2 DEF Intervene, Crash, tables
  <1> QED BY <1>2, TickLinks, ReviewLinks DEF KernelStep, RunnersReport

LEMMA KernelLink ==
  ASSUME LinkInv, OneManager, RunnersReport, OneAttempt, KernelStep
  PROVE  LinkInv'
  <1>0. /\ TurnInv /\ ChainInv /\ KernelInv /\ UNCHANGED <<handoff, life>>
    BY DEF LinkInv, TurnInv, ChainInv, KernelStep, lifeVars
  <1>1. TurnInv'
    BY <1>0, KernelTurn
  <1>2. ASSUME NEW w \in Worker PROVE LeavesLinks(w) /\ (Present(w)' <=> Present(w))
    BY <1>0, KernelLeaves, KernelPresence
  <1>3. ASSUME NEW s \in Worker, NEW w PROVE Follows(s, w)' <=> Follows(s, w)
    BY <1>2 DEF Follows, LeavesLinks, Present
  <1>4. Lineage'
    <2>1. ASSUME NEW w \in Worker, Agreed(w) PROVE Agreed(w)'
      BY <1>0, <1>2, <1>3, <2>1, AgreedStays DEF LeavesLinks
    <2> QED BY <1>0, <2>1 DEF LinkInv, Lineage, Mending
  <1>5. Rows'
    <2> SUFFICES ASSUME NEW w \in Worker PROVE Blank(w)' /\ Replaced(w)' /\ Begun(w)'
      BY DEF Rows
    <2>1. Blank(w) /\ Replaced(w)
      BY DEF LinkInv, Rows
    <2>2. Blank(w)' /\ Begun(w)'
      BY <1>2, <2>1 DEF Blank, LeavesLinks
    <2>3. Replaced(w)'
      <3>1. session'[w] = "queued" => session[w] = "queued"
        BY KernelQueues
      <3> QED BY <1>0, <1>2, <2>1, <3>1 DEF Replaced, LeavesLinks
    <2> QED BY <2>2, <2>3
  <1>6. ASSUME NEW m \in Manager PROVE LinkAt(m)'
    <2>1. LinkAt(m) /\ life'[m] = life[m] /\ life[m].w \in Worker /\ life[m].s \in Worker
      BY <1>0, ChainFacts DEF LinkInv
    <2>2. /\ LeavesLinks(life[m].w) /\ (Present(life[m].w)' <=> Present(life[m].w))
          /\ LeavesLinks(life[m].s) /\ (Present(life[m].s)' <=> Present(life[m].s))
      BY <1>2, <2>1
    <2>3. Form(life'[m])
      BY <2>1 DEF LinkAt
    <2>4. Copied(m)'
      BY <2>1, <2>2 DEF LinkAt, Copied, LeavesLinks, Present
    <2>5. Linking(m)'
      <3>1. Mending(m)' <=> Mending(m)
        BY <2>1 DEF Mending
      <3>2. ASSUME NEW s \in Worker
            PROVE  Follows(s, life[m].w)' <=> Follows(s, life[m].w)
        <4>1. /\ Present(s)' <=> Present(s)
              /\ worker'[s].supersedes = worker[s].supersedes
          BY <1>2 DEF LeavesLinks
        <4> QED BY <1>0, <4>1 DEF Follows
      <3>3. Linking(m)
        BY <2>1 DEF LinkAt
      <3> QED BY <1>0, <2>1, <2>2, <3>1, <3>2, <3>3 DEF Linking, LeavesLinks, Present, Follows
    <2>6. Renewed(m)'
      BY <2>1, <2>2 DEF LinkAt, Renewed, LeavesLinks
    <2> QED BY <2>1, <2>3, <2>4, <2>5, <2>6 DEF LinkAt
  <1>7. ASSUME NEW t \in Ticker, TickStep(t)
        PROVE  /\ \A m \in Manager : Judging(m)'
               /\ \A u \in Ticker : Lapsing(u)'
    <2>1. ASSUME NEW m \in Manager, m = t PROVE Judging(m)'
      <3>1. at'[m].pc \notin Reviewing /\ at'[m].pc # "review delete"
        BY <1>0, <1>7, <2>1, TickComes, TickLapsing
      <3> QED BY <3>1 DEF Judging, Reviewing
    <2>2. ASSUME NEW m \in Manager, m # t PROVE Judging(m)'
      <3>1. at'[m] = at[m] /\ at[m].w \in Worker /\ Judging(m)
        BY <1>0, <1>7, <2>2, TickAlone, Remembered DEF Process, LinkInv
      <3>2. Present(at[m].w)' <=> Present(at[m].w)
        BY <1>2, <3>1
      <3>3. worker[at[m].w].status = "submitted_for_review" =>
               worker'[at[m].w].status = "submitted_for_review"
        BY <1>7, <3>1, TickLinks DEF OpenStatus
      <3> QED BY <3>1, <3>2, <3>3 DEF Judging, Present
    <2>3. ASSUME NEW u \in Ticker PROVE Lapsing(u)'
      <3>1. CASE u = t
        BY <1>7, <3>1, TickLapsing
      <3>2. CASE u # t
        BY <1>0, <1>7, <3>2, TickAlone DEF Process, LinkInv, Lapsing
      <3> QED BY <3>1, <3>2
    <2> QED BY <2>1, <2>2, <2>3
  <1>8. ASSUME NEW n \in Manager, In(n, "rest"), ReviewStep(n)
        PROVE  /\ \A m \in Manager : Judging(m)'
               /\ \A u \in Ticker : Lapsing(u)'
    <2>1. Judging(n)' /\ at'[n].pc # "expire session"
      BY <1>0, <1>8, ReviewJudges
    <2>2. ASSUME NEW u \in Ticker PROVE Lapsing(u)'
      <3>1. CASE u = n
        BY <2>1, <3>1 DEF Lapsing
      <3>2. CASE u # n
        <4>1. at'[u] = at[u]
          BY <1>0, <1>8, <3>2, OthersAlone DEF Process
        <4> QED BY <4>1 DEF LinkInv, Lapsing
      <3> QED BY <3>1, <3>2
    <2> QED BY <2>1, <2>2 DEF OneManager
  <1>9. ASSUME NEW t \in Ticker, Crash(t)
        PROVE  /\ \A m \in Manager : Judging(m)'
               /\ \A u \in Ticker : Lapsing(u)'
    <2>1. ASSUME NEW p \in Process PROVE at'[p] = at[p] \/ at'[p].pc = "idle"
      BY <1>0, <1>9, OthersAlone, StopIs DEF Crash, Process
    <2>2. worker' = worker
      BY <1>9 DEF Crash, tables
    <2> QED BY <2>1, <2>2 DEF Judging, Lapsing, LinkInv, Process, Present
  <1>10. ASSUME Intervene
         PROVE  /\ \A m \in Manager : Judging(m)'
                /\ \A u \in Ticker : Lapsing(u)'
    BY <1>10 DEF Intervene, Judging, Lapsing, LinkInv, Present
  <1>11. /\ \A m \in Manager : Judging(m)'
         /\ \A u \in Ticker : Lapsing(u)'
    BY <1>7, <1>8, <1>9, <1>10 DEF KernelStep, RunnersReport
  <1> QED BY <1>1, <1>4, <1>5, <1>6, <1>11 DEF LinkInv

-----------------------------------------------------------------------------
(* The steps of the record actions keep the lineage.                       *)

Linked(m) == Lineage /\ Rows /\ LinkAt(m)

LEMMA StepFrame ==
  ASSUME LifecycleType, NEW m \in Manager, NEW pc, Step(m, pc)
  PROVE  /\ life'[m].pc = pc /\ life'[m].act = life[m].act
         /\ life'[m].w = life[m].w /\ life'[m].s = life[m].s
         /\ life'[m].raw = life[m].raw /\ life'[m].paper = life[m].paper
         /\ life'[m].spawned = life[m].spawned
  <1>1. life'[m] = [life[m] EXCEPT !.pc = pc] /\ life[m] \in Frame
    BY CallIs DEF Step, LifecycleType
  <1> QED BY <1>1 DEF Frame

(* What is known of the rows when the one manager takes a step.            *)
LEMMA LinkFacts ==
  ASSUME LinkInv, OneManager, NEW m \in Manager
  PROVE  /\ ChainInv /\ LifecycleType
         /\ worker \in [Worker -> WorkerRow] /\ session \in [Worker -> SessionStatus]
         /\ handoff \in [Worker -> HandoffRow]
         /\ life[m] \in Frame /\ life[m].w \in Worker /\ life[m].s \in Worker
         /\ Form(life[m]) /\ Copied(m) /\ Linking(m) /\ Renewed(m) /\ Shape(life[m])
         /\ \A v \in Worker : /\ Blank(v) /\ Begun(v) /\ Replaced(v) /\ Attended(v)
                              /\ worker[v].successor \in Worker \cup {Nobody}
                              /\ handoff[v].successor \in Worker \cup {Nobody}
         /\ \A v \in Worker : Agreed(v) \/ (Mending(m) /\ life[m].w = v)
         /\ \A v \in Worker :
               worker[v].successor # Nobody =>
                  \/ session[v] # "queued"
                  \/ /\ life[m].act = "successor" /\ life[m].w = v
                     /\ life[m].pc \in {"patch", "undo worker"}
         /\ Nobody \notin Worker
  <1>1. /\ TurnInv /\ ChainInv /\ LifecycleType /\ Lineage /\ Rows /\ LinkAt(m)
        /\ Shape(life[m]) /\ \A v \in Worker : Attended(v)
    BY DEF LinkInv, TurnInv, ChainInv, Known
  <1>2. /\ worker \in [Worker -> WorkerRow] /\ session \in [Worker -> SessionStatus]
        /\ handoff \in [Worker -> HandoffRow]
        /\ life[m] \in Frame /\ life[m].w \in Worker /\ life[m].s \in Worker
    BY <1>1, ChainFacts
  <1>3. \A v \in Worker : /\ worker[v].successor \in Worker \cup {Nobody}
                          /\ handoff[v].successor \in Worker \cup {Nobody}
    BY <1>2 DEF WorkerRow, HandoffRow
  <1>4. \A n \in Manager : n = m
    BY DEF OneManager
  <1>5. \A v \in Worker : Agreed(v) \/ (Mending(m) /\ life[m].w = v)
    <2>1. ASSUME NEW v \in Worker, NEW n \in Manager, Mending(n) /\ life[n].w = v
          PROVE  Mending(m) /\ life[m].w = v
      BY <1>4, <2>1 DEF Mending
    <2> QED BY <1>1, <2>1 DEF Lineage
  <1>6. \A v \in Worker : Blank(v) /\ Begun(v) /\ Replaced(v)
    BY <1>1 DEF Rows
  <1>7. \A v \in Worker :
           worker[v].successor # Nobody =>
              \/ session[v] # "queued"
              \/ /\ life[m].act = "successor" /\ life[m].w = v
                 /\ life[m].pc \in {"patch", "undo worker"}
    BY <1>4, <1>6 DEF Replaced
  <1>8. Nobody \notin Worker
    BY WorkerAssumption
  <1> QED BY <1>1, <1>2, <1>3, <1>5, <1>6, <1>7, <1>8 DEF LinkAt

(* An action that has returned, or not yet begun, claims nothing.          *)
LEMMA RestLinks ==
  ASSUME NEW m \in Manager, life'[m].pc = "rest", life'[m].act = "none",
         ~life'[m].spawned
  PROVE  LinkAt(m)'
  BY DEF LinkAt, Form, Copied, Linking, Renewed, Renews

LEMMA ReturnLinks ==
  ASSUME LifecycleType, NEW m \in Manager, Return(m)
  PROVE  LinkAt(m)' /\ life'[m].act = "none" /\ life'[m].pc = "rest"
  <1>1. life'[m] = Rest
    BY CallIs DEF Return
  <1>2. life'[m].pc = "rest" /\ life'[m].act = "none" /\ ~life'[m].spawned
    BY <1>1 DEF Rest
  <1> QED BY <1>2, RestLinks

(* Rows that stay and a manager that is not between them: what one has to  *)
(* know is that no session run of a replaced worker is queued.             *)
LEMMA StillRows ==
  ASSUME LinkInv, OneManager, NEW m \in Manager, UNCHANGED <<worker, handoff>>,
         \A v \in Worker :
            worker[v].successor # Nobody =>
               \/ session'[v] # "queued"
               \/ /\ life'[m].act = "successor" /\ life'[m].w = v
                  /\ life'[m].pc \in {"patch", "undo worker"}
  PROVE  /\ Rows'
         /\ \A v \in Worker : Agreed(v)' <=> Agreed(v)
         /\ (\A v \in Worker : Agreed(v)) => Lineage'
  <1>1. \A v \in Worker : Agreed(v)' <=> Agreed(v)
    BY DEF Agreed, Follows, Present
  <1>2. Rows'
    BY LinkFacts DEF Rows, Blank, Begun, Replaced, Present
  <1> QED BY <1>1, <1>2 DEF Lineage

(* Before a worker is replaced it has no successor, nor has its handoff.   *)
LEMMA NotYet ==
  ASSUME LinkInv, OneManager, NEW w \in Worker, Agreed(w), worker[w].successor = Nobody,
         NEW m \in Manager
  PROVE  /\ handoff[w].successor = Nobody
         /\ \A s \in Worker : ~Follows(s, w)
  BY LinkFacts DEF Agreed

LEMMA StatusTells ==
  ASSUME LinkInv, OneManager, NEW w \in Worker, Agreed(w),
         worker[w].status # "successor_spawned", NEW m \in Manager
  PROVE  worker[w].successor = Nobody
  BY LinkFacts DEF Agreed

(* A replacement that fails before its worker is made.                     *)
LEMMA FailsEarly ==
  ASSUME LinkInv, OneManager, NEW m \in Manager, life[m].act = "successor",
         life[m].pc \in {"gate", "session", "create"}, Step(m, "undo worker"),
         UNCHANGED <<worker, handoff, session>>
  PROVE  Linked(m)'
  <1>0. /\ LifecycleType /\ life[m].w \in Worker /\ life[m].s \in Worker
        /\ Copied(m) /\ Linking(m) /\ Shape(life[m]) /\ Form(life[m]) /\ Blank(life[m].s)
        /\ \A v \in Worker : Agreed(v)
    BY LinkFacts DEF Mending
  <1>1. /\ life'[m].pc = "undo worker" /\ life'[m].act = "successor"
        /\ life'[m].w = life[m].w /\ life'[m].s = life[m].s
        /\ life'[m].raw = life[m].raw /\ life'[m].paper = life[m].paper
        /\ life'[m].spawned = life[m].spawned
    BY <1>0, StepFrame
  <1>2. ~life[m].spawned
    BY <1>0 DEF Shape
  <1>3. Rows' /\ Lineage'
    BY <1>0, LinkFacts, StillRows
  <1>4. worker[life[m].w].successor = Nobody /\ worker[life[m].s].successor = Nobody
    BY <1>0 DEF Copied, Renews, Linking, Blank
  <1>5. \A s \in Worker : ~Follows(s, life[m].w)
    BY <1>0, <1>4, NotYet
  <1>6. Form(life'[m]) /\ Copied(m)' /\ Renewed(m)'
    BY <1>0, <1>1 DEF Form, Copied, Renewed, Renews, Present
  <1>7. Linking(m)'
    BY <1>0, <1>1, <1>2, <1>4, <1>5 DEF Linking, Follows, Present
  <1> QED BY <1>3, <1>6, <1>7 DEF Linked, LinkAt

LEMMA StartsLink ==
  ASSUME LinkInv, OneManager, NEW m \in Manager, Starts(m)
  PROVE  Linked(m)'
  <1>0. /\ LifecycleType /\ life[m].pc = "rest"
        /\ UNCHANGED <<worker, handoff, session>>
    BY LinkFacts, StartIs DEF Starts, StartSpawn, StartHandoff, StartRetire,
       StartSuccessor, vars, tables
  <1>1. \A v \in Worker : Agreed(v)
    BY <1>0, LinkFacts DEF Mending
  <1>2. Rows' /\ Lineage'
    BY <1>0, <1>1, LinkFacts, StillRows
  <1>3. ASSUME NEW w \in Worker, StartSpawn(m, w) PROVE LinkAt(m)'
    <2>1. life'[m] = [Rest EXCEPT !.act = "spawn", !.pc = "session", !.w = w, !.s = w]
      BY <1>0, <1>3, CallIs DEF StartSpawn, Begin
    <2>2. life'[m].act = "spawn" /\ life'[m].pc = "session" /\ ~life'[m].spawned
      BY <2>1 DEF Rest
    <2> QED BY <2>2 DEF LinkAt, Form, Copied, Linking, Renewed, Renews
  <1>4. ASSUME NEW f, Call(m, f), f.pc = "raw", ~f.spawned, f.w \in Worker,
               f.act \in {"handoff", "retire"}, Present(f.w),
               worker[f.w].status # "successor_spawned"
        PROVE  LinkAt(m)'
    <2>1. life'[m] = f
      BY <1>0, <1>4, CallIs
    <2>2. worker[f.w].successor = Nobody
      BY <1>1, <1>4, StatusTells
    <2> QED BY <1>0, <1>4, <2>1, <2>2 DEF LinkAt, Form, Copied, Linking, Renewed, Renews, Present
  <1>5. ASSUME NEW w \in Worker, StartHandoff(m, w) PROVE LinkAt(m)'
    <2>1. PICK accepted \in BOOLEAN :
             Call(m, [Rest EXCEPT !.act = "handoff", !.pc = "raw", !.w = w,
                                  !.accepted = accepted])
      BY <1>5 DEF StartHandoff, Begin
    <2> DEFINE f == [Rest EXCEPT !.act = "handoff", !.pc = "raw", !.w = w,
                                 !.accepted = accepted]
    <2>2. f.pc = "raw" /\ ~f.spawned /\ f.w = w /\ f.act = "handoff"
      BY DEF Rest
    <2>3. Present(w) /\ worker[w].status # "successor_spawned"
      BY <1>5 DEF StartHandoff, MayHandOff, Present
    <2> HIDE DEF f
    <2> QED BY <1>4, <2>1, <2>2, <2>3 DEF f
  <1>6. ASSUME NEW w \in Worker, NEW unattended \in BOOLEAN,
               StartRetire(m, w, unattended)
        PROVE  LinkAt(m)'
    <2> DEFINE f == [Rest EXCEPT !.act = "retire", !.pc = "raw", !.w = w,
                                 !.accepted = (handoff[w].status = "accepted")]
    <2>1. Call(m, f)
      BY <1>6 DEF StartRetire, Begin
    <2>2. f.pc = "raw" /\ ~f.spawned /\ f.w = w /\ f.act = "retire"
      BY DEF Rest
    <2>3. Present(w) /\ worker[w].status # "successor_spawned"
      BY <1>6 DEF StartRetire, MayRetire, Present
    <2> HIDE DEF f
    <2> QED BY <1>4, <2>1, <2>2, <2>3
  <1>7. ASSUME NEW w \in Worker, NEW s \in Worker, StartSuccessor(m, w, s)
        PROVE  LinkAt(m)'
    <2>1. life'[m] = [Rest EXCEPT !.act = "successor", !.pc = "raw", !.w = w, !.s = s,
                                  !.accepted = TRUE]
      BY <1>0, <1>7, CallIs DEF StartSuccessor, Begin
    <2>2. /\ life'[m].act = "successor" /\ life'[m].pc = "raw" /\ ~life'[m].spawned
          /\ life'[m].w = w /\ life'[m].s = s
      BY <2>1 DEF Rest
    <2>3. worker[w].successor = Nobody /\ s # w /\ ~Present(s) /\ Present(w)
      <3>1. worker[w].status # "absent"
        BY <1>7 DEF StartSuccessor, MaySucceed
      <3> QED BY <1>7, <3>1 DEF StartSuccessor, MaySucceed, Present
    <2>4. worker' = worker
      BY <1>0
    <2>5. Form(life'[m]) /\ Renewed(m)'
      BY <2>2 DEF Form, Renewed, Renews
    <2>6. Copied(m)'
      BY <2>2, <2>3, <2>4 DEF Copied, Present
    <2>7. Linking(m)'
      BY <2>2, <2>3, <2>4 DEF Linking, Mending, Present
    <2> QED BY <2>5, <2>6, <2>7 DEF LinkAt
  <1> QED BY <1>2, <1>3, <1>5, <1>6, <1>7 DEF Starts, Linked

LEMMA ReadSessionLinks ==
  ASSUME LinkInv, OneManager, NEW m \in Manager, ReadSession(m)
  PROVE  Linked(m)'
  <1>0. /\ LifecycleType /\ life[m].pc = "session" /\ life[m].act \in {"spawn", "successor"}
        /\ ~life[m].spawned
        /\ UNCHANGED <<worker, handoff, session>>
        /\ life[m] \in Frame /\ life[m].w \in Worker /\ life[m].s \in Worker
    BY LinkFacts DEF ReadSession, In, Shape, vars, tables
  <1>1. \A v \in Worker : Agreed(v)
    BY <1>0, LinkFacts DEF Mending
  <1>2. Rows' /\ Lineage'
    BY <1>0, <1>1, LinkFacts, StillRows
  <1>3. ASSUME SpawnFails(m) PROVE Linked(m)'
    <2>1. CASE life[m].act = "spawn"
      BY <1>0, <1>2, <1>3, <2>1, ReturnLinks DEF SpawnFails, Linked
    <2>2. CASE life[m].act = "successor"
      BY <1>0, <1>3, <2>2, FailsEarly DEF SpawnFails
    <2> QED BY <1>0, <2>1, <2>2
  <1>4. ASSUME session[life[m].s] = "absent" \/ (session[life[m].s] = "queued" /\ SameInput(life[m])),
               Call(m, [life[m] EXCEPT !.pc = "create",
                                       !.fresh = (session[life[m].s] = "absent")])
        PROVE  Linked(m)'
    <2>1. life'[m] = [life[m] EXCEPT !.pc = "create",
                                     !.fresh = (session[life[m].s] = "absent")]
      BY <1>0, <1>4, CallIs
    <2>2. /\ life'[m].pc = "create" /\ life'[m].act = life[m].act
          /\ life'[m].w = life[m].w /\ life'[m].s = life[m].s
          /\ life'[m].raw = life[m].raw /\ life'[m].paper = life[m].paper
          /\ life'[m].spawned = life[m].spawned
      BY <1>0, <2>1 DEF Frame
    <2>3. /\ Copied(m) /\ Linking(m) /\ Form(life[m])
          /\ Blank(life[m].s) /\ Attended(life[m].s)
      BY <1>0, LinkFacts
    <2>4. Form(life'[m])
      BY <1>0, <2>2 DEF Form
    <2>5. Copied(m)'
      BY <1>0, <2>2, <2>3 DEF Copied, Renews, Present
    <2>6. Linking(m)'
      BY <1>0, <2>2, <2>3 DEF Linking, Mending, Present
    <2>7. Renewed(m)'
      <3> SUFFICES ASSUME life[m].act = "spawn"
                   PROVE  /\ worker[life[m].s].successor = Nobody
                          /\ worker[life[m].s].supersedes = Nobody
        BY <1>0, <2>2 DEF Renewed
      <3>1. CASE ~Present(life[m].s)
        BY <2>3, <3>1 DEF Blank
      <3>2. CASE Present(life[m].s)
        <4>1. session[life[m].s] = "queued" /\ SameInput(life[m])
          BY <1>4, <2>3, <3>2 DEF Attended, Present
        <4>2. NewWorker(life[m]).supersedes = Nobody
          BY DEF NewWorker, NoWorker
        <4>3. worker[life[m].s].supersedes = Nobody
          BY <3>2, <4>1, <4>2 DEF SameInput
        <4>4. worker[life[m].s].successor = Nobody
          BY <1>0, <4>1, LinkFacts
        <4> QED BY <4>3, <4>4
      <3> QED BY <3>1, <3>2
    <2> QED BY <1>2, <2>4, <2>5, <2>6, <2>7 DEF Linked, LinkAt
  <1> QED BY <1>3, <1>4 DEF ReadSession

LEMMA ReadsLink ==
  ASSUME LinkInv, OneManager, NEW m \in Manager,
         ReadWorker(m) \/ ReadHandoff(m) \/ GateSuccessor(m)
  PROVE  Linked(m)'
  <1>0. /\ LifecycleType /\ life[m].pc \in {"raw", "paper", "gate"}
        /\ life[m].act \in {"handoff", "retire", "successor"} /\ ~life[m].spawned
        /\ UNCHANGED <<worker, handoff, session>>
        /\ life[m] \in Frame /\ life[m].w \in Worker /\ life[m].s \in Worker
        /\ Copied(m) /\ Linking(m) /\ Form(life[m]) /\ Shape(life[m])
        /\ Begun(life[m].w) /\ worker \in [Worker -> WorkerRow]
    BY LinkFacts DEF ReadWorker, ReadHandoff, GateSuccessor, In, Shape, vars, tables
  <1>1. \A v \in Worker : Agreed(v)
    BY <1>0, LinkFacts DEF Mending
  <1>2. Rows' /\ Lineage'
    BY <1>0, <1>1, LinkFacts, StillRows
  <1>3. Present(life[m].w) /\ worker[life[m].w].successor = Nobody
    BY <1>0 DEF Copied, Renews
  <1>4. CASE ReadWorker(m)
    <2>1. life'[m] = [life[m] EXCEPT !.raw = worker[life[m].w],
                        !.pc = IF life[m].act = "retire" THEN "worker" ELSE "paper"]
      BY <1>0, <1>4, CallIs DEF ReadWorker
    <2>2. /\ life'[m].pc = IF life[m].act = "retire" THEN "worker" ELSE "paper"
          /\ life'[m].act = life[m].act
          /\ life'[m].w = life[m].w /\ life'[m].s = life[m].s
          /\ life'[m].raw = worker[life[m].w]
          /\ life'[m].spawned = life[m].spawned
      BY <1>0, <2>1 DEF Frame
    <2>3. Form(life'[m]) /\ Renewed(m)'
      BY <1>0, <2>2 DEF Form, Renewed, Renews
    <2>4. Copied(m)'
      BY <1>0, <1>3, <2>2 DEF Copied, Present, Begun
    <2>5. Linking(m)'
      <3>1. life[m].pc = "raw"
        BY <1>4 DEF ReadWorker, In
      <3> QED BY <1>0, <2>2, <3>1 DEF Linking, Mending, Present
    <2> QED BY <1>2, <2>3, <2>4, <2>5 DEF Linked, LinkAt
  <1>5. CASE ReadHandoff(m)
    <2>1. life'[m] = [life[m] EXCEPT !.paper = handoff[life[m].w],
                        !.pc = IF life[m].act = "handoff" THEN "write" ELSE "gate"]
      BY <1>0, <1>5, CallIs DEF ReadHandoff
    <2>2. /\ life'[m].pc = IF life[m].act = "handoff" THEN "write" ELSE "gate"
          /\ life'[m].act = life[m].act
          /\ life'[m].w = life[m].w /\ life'[m].s = life[m].s
          /\ life'[m].raw = life[m].raw /\ life'[m].paper = handoff[life[m].w]
          /\ life'[m].spawned = life[m].spawned
      BY <1>0, <2>1 DEF Frame
    <2>3. handoff[life[m].w].successor = Nobody
      BY <1>0, <1>1, <1>3, NotYet
    <2>4. life[m].pc = "paper" /\ life[m].act \in {"handoff", "successor"}
      BY <1>0, <1>5 DEF ReadHandoff, In, Shape
    <2>5. Form(life'[m]) /\ Renewed(m)'
      BY <1>0, <2>2, <2>4 DEF Form, Renewed, Renews
    <2>6. Copied(m)'
      BY <1>0, <1>3, <2>2, <2>3, <2>4 DEF Copied, Renews, Present
    <2>7. Linking(m)'
      BY <1>0, <2>2, <2>4 DEF Linking, Mending, Present
    <2> QED BY <1>2, <2>5, <2>6, <2>7 DEF Linked, LinkAt
  <1>6. CASE GateSuccessor(m)
    <2>1. life[m].pc = "gate" /\ life[m].act = "successor"
      BY <1>0, <1>6 DEF GateSuccessor, In, Shape
    <2>2. CASE Step(m, "undo worker")
      BY <1>0, <2>1, <2>2, FailsEarly
    <2>3. CASE Step(m, "session")
      <3>1. /\ life'[m].pc = "session" /\ life'[m].act = "successor"
            /\ life'[m].w = life[m].w /\ life'[m].s = life[m].s
            /\ life'[m].raw = life[m].raw /\ life'[m].paper = life[m].paper
            /\ life'[m].spawned = life[m].spawned
        BY <1>0, <2>1, <2>3, StepFrame
      <3>2. Form(life'[m]) /\ Renewed(m)'
        BY <1>0, <3>1 DEF Form, Renewed
      <3>3. Copied(m)'
        BY <1>0, <2>1, <3>1 DEF Copied, Renews, Present
      <3>4. Linking(m)'
        BY <1>0, <2>1, <3>1 DEF Linking, Mending, Present
      <3> QED BY <1>2, <3>2, <3>3, <3>4 DEF Linked, LinkAt
    <2> QED BY <1>6, <2>2, <2>3 DEF GateSuccessor
  <1> QED BY <1>4, <1>5, <1>6

LEMMA PatchLinks ==
  ASSUME LinkInv, OneManager, NEW m \in Manager, PatchSession(m)
  PROVE  Linked(m)'
  <1>0. /\ LifecycleType /\ life[m].pc = "patch"
        /\ UNCHANGED <<worker, handoff>>
        /\ life[m].w \in Worker /\ life[m].s \in Worker
        /\ Copied(m) /\ Linking(m) /\ Form(life[m]) /\ Renews(life[m])
        /\ session \in [Worker -> SessionStatus]
    BY LinkFacts DEF PatchSession, In, Form
  <1>1. \A v \in Worker : Agreed(v)
    BY <1>0, LinkFacts DEF Mending
  <1>2. \A v \in Worker : session'[v] = session[v] \/ (v = life[m].w /\ session'[v] # "queued")
    <2>1. LastStatus(life[m]) # "queued"
      BY DEF LastStatus
    <2> QED BY <1>0, <2>1 DEF PatchSession, Patched
  <1>3. CASE Return(m) /\ session[life[m].w] # "absent"
             /\ session' = Patched(life[m].w, LastStatus(life[m]))
    <2>1. session'[life[m].w] # "queued"
      BY <1>0, <1>3 DEF Patched, LastStatus
    <2>2. \A v \in Worker : worker[v].successor # Nobody => session'[v] # "queued"
      BY <1>0, <1>2, <2>1, LinkFacts
    <2>3. Rows' /\ Lineage'
      BY <1>0, <1>1, <2>2, StillRows
    <2> QED BY <1>0, <1>3, <2>3, ReturnLinks DEF Linked
  <1>4. CASE Step(m, "undo worker")
    <2>1. /\ life'[m].pc = "undo worker" /\ life'[m].act = life[m].act
          /\ life'[m].w = life[m].w /\ life'[m].s = life[m].s
          /\ life'[m].raw = life[m].raw /\ life'[m].paper = life[m].paper
          /\ life'[m].spawned = life[m].spawned
      BY <1>0, <1>4, StepFrame
    <2>2. life[m].act # "successor" => worker[life[m].w].successor = Nobody
      BY <1>0 DEF Copied
    <2>3. Rows' /\ Lineage'
      <3>1. \A v \in Worker :
              worker[v].successor # Nobody =>
                 \/ session'[v] # "queued"
                 \/ /\ life'[m].act = "successor" /\ life'[m].w = v
                    /\ life'[m].pc \in {"patch", "undo worker"}
        BY <1>0, <1>2, <2>1, <2>2, LinkFacts
      <3> QED BY <1>0, <1>1, <3>1, StillRows
    <2>4. Form(life'[m]) /\ Renewed(m)'
      BY <1>0, <2>1 DEF Form, Renewed, Renews
    <2>5. Copied(m)'
      BY <1>0, <2>1, <2>2 DEF Copied, Renews, Present
    <2>6. Linking(m)'
      BY <1>0, <2>1 DEF Linking, Mending, Present, Follows
    <2> QED BY <2>3, <2>4, <2>5, <2>6 DEF Linked, LinkAt
  <1> QED BY <1>3, <1>4 DEF PatchSession

LEMMA CleanupLinks ==
  ASSUME LinkInv, OneManager, NEW m \in Manager, CleanupSession(m)
  PROVE  Linked(m)'
  <1>0. /\ LifecycleType /\ life[m].pc = "undo session"
        /\ UNCHANGED <<worker, handoff>> /\ Return(m)
        /\ session \in [Worker -> SessionStatus]
        /\ session' = Patched(life[m].s, "absent")
    BY LinkFacts DEF CleanupSession, In
  <1>1. \A v \in Worker : Agreed(v)
    BY <1>0, LinkFacts DEF Mending
  <1>2. \A v \in Worker : session'[v] = session[v] \/ session'[v] # "queued"
    BY <1>0 DEF Patched
  <1>3. \A v \in Worker : worker[v].successor # Nobody => session'[v] # "queued"
    BY <1>0, <1>2, LinkFacts
  <1>4. Rows' /\ Lineage'
    BY <1>0, <1>1, <1>3, StillRows
  <1> QED BY <1>0, <1>4, ReturnLinks DEF Linked

LEMMA CreateLinks ==
  ASSUME LinkInv, OneManager, NEW m \in Manager, CreateWorker(m)
  PROVE  Linked(m)'
  <1> DEFINE f == life[m]
  <1>0. /\ LifecycleType /\ f.pc = "create" /\ f.act \in {"spawn", "successor"}
        /\ ~f.spawned /\ UNCHANGED handoff
        /\ f \in Frame /\ f.w \in Worker /\ f.s \in Worker
        /\ worker \in [Worker -> WorkerRow] /\ session \in [Worker -> SessionStatus]
        /\ Copied(m) /\ Linking(m) /\ Renewed(m) /\ Form(f)
        /\ \A v \in Worker : Blank(v) /\ Begun(v)
    BY LinkFacts DEF CreateWorker, In, Shape
  <1>1. \A v \in Worker : Agreed(v)
    BY <1>0, LinkFacts DEF Mending
  <1>2. \A v \in Worker : worker[v].successor # Nobody => session[v] # "queued"
    BY <1>0, LinkFacts
  <1>3. CASE SpawnFails(m) /\ UNCHANGED <<worker, session>>
    <2>1. Rows' /\ Lineage'
      BY <1>0, <1>1, <1>2, <1>3, StillRows
    <2>2. CASE f.act = "spawn"
      BY <1>0, <1>3, <2>1, <2>2, ReturnLinks DEF SpawnFails, Linked
    <2>3. CASE f.act = "successor"
      BY <1>0, <1>3, <2>3, FailsEarly DEF SpawnFails
    <2> QED BY <1>0, <2>2, <2>3
  <1>4. ASSUME worker' = [worker EXCEPT ![f.s] = NewWorker(f)],
               session' = IF f.fresh THEN Patched(f.s, "queued") ELSE session,
               IF f.act = "spawn" THEN Return(m)
               ELSE Call(m, [f EXCEPT !.pc = "supersede", !.spawned = TRUE])
        PROVE  Linked(m)'
    <2>1. /\ worker'[f.s].status = "queued" /\ worker'[f.s].successor = Nobody
          /\ worker'[f.s].supersedes = IF f.act = "successor" THEN f.w ELSE Nobody
          /\ \A v \in Worker : v # f.s => worker'[v] = worker[v]
      BY <1>0, <1>4 DEF NewWorker, NoWorker
    <2>2. \A v \in Worker : v # f.s => session'[v] = session[v]
      BY <1>0, <1>4 DEF Patched
    <2>3. worker[f.s].successor = Nobody /\ worker[f.s].supersedes = Nobody
      BY <1>0 DEF Renewed, Linking, Blank
    <2>4. Rows'
      <3>1. ASSUME NEW v \in Worker PROVE Blank(v)' /\ Replaced(v)' /\ Begun(v)'
        <4>1. CASE v = f.s
          BY <2>1, <4>1 DEF Blank, Replaced, Begun, Present
        <4>2. CASE v # f.s
          BY <1>0, <1>2, <2>1, <2>2, <4>2 DEF Blank, Replaced, Begun, Present
        <4> QED BY <4>1, <4>2
      <3> QED BY <3>1 DEF Rows
    <2>5. \A s \in Worker : s # f.s => \A v \in Worker : Follows(s, v)' <=> Follows(s, v)
      BY <2>1 DEF Follows, Present
    <2>6. ASSUME NEW v \in Worker, f.act = "successor" => v # f.w
          PROVE  Agreed(v)'
      <3>1. ASSUME NEW s \in Worker, s = f.s
            PROVE  ~Follows(s, v) /\ ~Follows(s, v)'
        <4>1. v # Nobody
          BY WorkerAssumption
        <4>2. worker[s].supersedes # v
          BY <2>3, <3>1, <4>1
        <4>3. worker'[s].supersedes # v
          BY <1>0, <2>1, <2>6, <3>1, <4>1
        <4> QED BY <4>2, <4>3 DEF Follows
      <3>2. \A s \in Worker : Follows(s, v)' <=> Follows(s, v)
        BY <2>5, <3>1
      <3>3. /\ worker'[v].successor = worker[v].successor
            /\ worker[v].successor \in Worker => worker'[v].status = worker[v].status
        BY <2>1, <2>3, WorkerAssumption
      <3> QED BY <1>0, <1>1, <3>2, <3>3, AgreedStays
    <2>7. CASE f.act = "spawn"
      <3>1. Lineage'
        BY <2>6, <2>7 DEF Lineage
      <3> QED BY <1>0, <1>4, <2>4, <2>7, <3>1, ReturnLinks DEF Linked
    <2>8. CASE f.act = "successor"
      <3>1. life'[m] = [f EXCEPT !.pc = "supersede", !.spawned = TRUE]
        BY <1>0, <1>4, <2>8, CallIs
      <3>2. /\ life'[m].pc = "supersede" /\ life'[m].act = "successor"
            /\ life'[m].w = f.w /\ life'[m].s = f.s
            /\ life'[m].raw = f.raw /\ life'[m].paper = f.paper /\ life'[m].spawned
        BY <1>0, <2>8, <3>1 DEF Frame
      <3>3. f.s # f.w /\ worker'[f.w] = worker[f.w]
        BY <1>0, <2>1, <2>8 DEF Linking
      <3>4. worker[f.w].successor = Nobody
        BY <1>0, <2>8 DEF Copied, Renews
      <3>5. handoff[f.w].successor = Nobody /\ \A s \in Worker : ~Follows(s, f.w)
        BY <1>0, <1>1, <3>4, NotYet
      <3>6. Lineage'
        BY <2>6, <3>2 DEF Lineage, Mending
      <3>7. Form(life'[m]) /\ Renewed(m)'
        BY <3>2 DEF Form, Renewed, Renews
      <3>8. Copied(m)'
        BY <1>0, <2>8, <3>2, <3>3 DEF Copied, Renews, Present
      <3>9. Linking(m)'
        <4>1. ASSUME NEW s \in Worker, s = f.s, NEW w \in Worker, w = f.w
              PROVE  Follows(s, w)'
          BY <2>1, <2>8, <4>1 DEF Follows, Present
        <4>2. ASSUME NEW s \in Worker, NEW w \in Worker, w = f.w
              PROVE  Follows(s, w)' <=> s = f.s
          BY <1>0, <2>5, <3>5, <4>1, <4>2
        <4>3. \A s \in Worker : Follows(s, life[m].w)' <=> s = f.s
          BY <1>0, <3>2, <4>2
        <4>4. worker'[life'[m].s].successor = Nobody /\ handoff'[life'[m].w].successor = Nobody
          BY <1>0, <2>1, <3>2, <3>5
        <4>5. life'[m].s # life'[m].w
          BY <3>2, <3>3
        <4> QED BY <3>2, <4>3, <4>4, <4>5 DEF Linking
      <3> QED BY <2>4, <3>6, <3>7, <3>8, <3>9 DEF Linked, LinkAt
    <2> QED BY <1>0, <2>7, <2>8
  <1> QED BY <1>3, <1>4 DEF CreateWorker

(* Another row for the worker at hand.                                     *)
LEMMA RowChanges ==
  ASSUME LinkInv, OneManager, NEW m \in Manager, NEW w \in Worker, NEW r,
         life[m].w = w, worker' = [worker EXCEPT ![w] = r], session' = session,
         Present(w), r.status # "absent", r.supersedes = worker[w].supersedes,
         r.status = "running" => r.attempt >= 1,
         \/ r.successor = Nobody
         \/ /\ life'[m].act = "successor" /\ life'[m].w = w
            /\ life'[m].pc \in {"patch", "undo worker"}
  PROVE  /\ Rows'
         /\ \A s, v \in Worker : Follows(s, v)' <=> Follows(s, v)
         /\ \A v \in Worker : Present(v)' <=> Present(v)
         /\ worker'[w] = r
         /\ \A v \in Worker : v # w => worker'[v] = worker[v]
  <1>1. worker'[w] = r /\ \A v \in Worker : v # w => worker'[v] = worker[v]
    BY LinkFacts
  <1>2. \A v \in Worker : Present(v)' <=> Present(v)
    BY <1>1 DEF Present
  <1>3. \A s, v \in Worker : Follows(s, v)' <=> Follows(s, v)
    BY <1>1, <1>2 DEF Follows
  <1>4. ASSUME NEW v \in Worker PROVE Blank(v)' /\ Replaced(v)' /\ Begun(v)'
    <2>1. CASE v = w
      <3>1. worker'[v] = r
        BY <1>1, <2>1
      <3>2. Blank(v)'
        BY <1>2, <2>1 DEF Blank
      <3>3. Begun(v)'
        BY <3>1 DEF Begun
      <3>4. Replaced(v)'
        BY <2>1, <3>1 DEF Replaced
      <3> QED BY <3>2, <3>3, <3>4
    <2>2. CASE v # w
      <3>1. worker'[v] = worker[v]
        BY <1>1, <2>2
      <3>2. Blank(v) /\ Begun(v) /\ (worker[v].successor # Nobody => session[v] # "queued")
        BY <2>2, LinkFacts
      <3>3. Blank(v)'
        BY <1>2, <3>1, <3>2 DEF Blank
      <3>4. Begun(v)' /\ Replaced(v)'
        BY <3>1, <3>2 DEF Begun, Replaced
      <3> QED BY <3>3, <3>4
    <2> QED BY <2>1, <2>2
  <1> QED BY <1>1, <1>2, <1>3, <1>4 DEF Rows

LEMMA UpdateLinks ==
  ASSUME LinkInv, OneManager, NEW m \in Manager, UpdateWorker(m)
  PROVE  Linked(m)'
  <1>0. /\ LifecycleType /\ life[m].pc = "worker"
        /\ life[m].act \in {"handoff", "retire", "successor"}
        /\ UNCHANGED <<handoff, session>>
        /\ life[m].w \in Worker /\ life[m].s \in Worker
        /\ Copied(m) /\ Linking(m) /\ Form(life[m])
        /\ worker \in [Worker -> WorkerRow]
        /\ worker[life[m].w].successor = Nobody
    BY LinkFacts DEF UpdateWorker, In, Form, Renews, Copied
  <1>1. \A v \in Worker : worker[v].successor # Nobody => session[v] # "queued"
    BY <1>0, LinkFacts
  <1>2. life[m].act # "successor" => \A v \in Worker : Agreed(v)
    BY LinkFacts DEF Mending
  <1>3. CASE Return(m) /\ UNCHANGED worker /\ life[m].act = "retire"
    <2>1. Rows' /\ Lineage'
      BY <1>0, <1>1, <1>2, <1>3, StillRows
    <2> QED BY <1>0, <1>3, <2>1, ReturnLinks DEF Linked
  <1>4. CASE Step(m, "undo worker") /\ UNCHANGED worker
    <2>1. /\ life'[m].pc = "undo worker" /\ life'[m].act = life[m].act
          /\ life'[m].w = life[m].w /\ life'[m].s = life[m].s
          /\ life'[m].raw = life[m].raw /\ life'[m].paper = life[m].paper
          /\ life'[m].spawned = life[m].spawned
      BY <1>0, <1>4, StepFrame
    <2>2. Rows' /\ \A v \in Worker : Agreed(v)' <=> Agreed(v)
      BY <1>0, <1>1, <1>4, StillRows
    <2>3. Lineage'
      <3>1. \A v \in Worker : Agreed(v) \/ (Mending(m) /\ life[m].w = v)
        BY LinkFacts
      <3> QED BY <1>0, <2>1, <2>2, <3>1 DEF Lineage, Mending
    <2>4. Form(life'[m]) /\ Renewed(m)'
      BY <1>0, <2>1 DEF Form, Renewed, Renews
    <2>5. Copied(m)'
      BY <1>0, <1>4, <2>1 DEF Copied, Renews, Present
    <2>6. Linking(m)'
      BY <1>0, <1>4, <2>1 DEF Linking, Mending, Present, Follows
    <2> QED BY <2>2, <2>3, <2>4, <2>5, <2>6 DEF Linked, LinkAt
  <1>5. CASE Step(m, "patch") /\ Present(life[m].w)
             /\ worker' = [worker EXCEPT ![life[m].w] = Closed(life[m], worker[life[m].w])]
    <2> DEFINE w == life[m].w
               r == Closed(life[m], worker[w])
    <2>1. /\ life'[m].pc = "patch" /\ life'[m].act = life[m].act
          /\ life'[m].w = life[m].w /\ life'[m].s = life[m].s
          /\ life'[m].raw = life[m].raw /\ life'[m].paper = life[m].paper
          /\ life'[m].spawned = life[m].spawned
      BY <1>0, <1>5, StepFrame
    <2>2. /\ r.status \in {"handoff_required", "retired", "successor_spawned"}
          /\ r.supersedes = worker[w].supersedes
          /\ life[m].act # "successor" => r.successor = worker[w].successor
          /\ life[m].act = "successor" =>
                r.successor = life[m].s /\ r.status = "successor_spawned"
      <3>1. worker[w] \in WorkerRow
        BY <1>0
      <3> QED BY <1>0, <3>1 DEF Closed, Unleased, WorkerRow
    <2>3. /\ Rows'
          /\ \A s, v \in Worker : Follows(s, v)' <=> Follows(s, v)
          /\ \A v \in Worker : Present(v)' <=> Present(v)
          /\ worker'[w] = r
          /\ \A v \in Worker : v # w => worker'[v] = worker[v]
      <3> HIDE DEF r
      <3>1. worker' = [worker EXCEPT ![w] = r]
        BY <1>5 DEF r
      <3>2. \/ r.successor = Nobody
            \/ /\ life'[m].act = "successor" /\ life'[m].w = w
               /\ life'[m].pc \in {"patch", "undo worker"}
        BY <1>0, <2>1, <2>2
      <3> QED BY <1>0, <1>5, <2>2, <3>1, <3>2, RowChanges
    <2> HIDE DEF r
    <2>4. ASSUME NEW v \in Worker, v # w \/ life[m].act # "successor" PROVE Agreed(v)'
      <3>1. Agreed(v)
        BY <1>2, <2>4, LinkFacts DEF Mending
      <3>2. worker'[v].successor = worker[v].successor
        BY <1>0, <2>2, <2>3, <2>4
      <3>3. worker[v].successor \in Worker => worker'[v].status = worker[v].status
        <4>1. v = w => worker[v].successor \notin Worker
          BY <1>0, WorkerAssumption
        <4> QED BY <2>3, <4>1
      <3> QED BY <1>0, <2>3, <3>1, <3>2, <3>3, AgreedStays
    <2>5. ASSUME life[m].act = "successor", NEW v \in Worker, v = w PROVE Agreed(v)'
      <3>1. /\ \A s \in Worker : Follows(s, v) <=> s = life[m].s
            /\ handoff[v].successor = life[m].s
        BY <1>0, <2>5 DEF Linking, Mending
      <3>2. worker'[v].successor = life[m].s /\ worker'[v].status = "successor_spawned"
        BY <2>2, <2>3, <2>5
      <3>3. handoff'[v].successor = life[m].s
        BY <1>0, <3>1
      <3>4. \A s \in Worker : Follows(s, v)' <=> s = life[m].s
        BY <2>3, <3>1
      <3> QED BY <3>2, <3>3, <3>4 DEF Agreed
    <2>6. Lineage'
      BY <2>4, <2>5 DEF Lineage
    <2>7. Form(life'[m]) /\ Renewed(m)'
      BY <1>0, <2>1 DEF Form, Renewed, Renews
    <2>8. Copied(m)'
      <3>1. worker'[w].status # "absent" /\ worker'[w].supersedes = worker[w].supersedes
        BY <2>2, <2>3
      <3>2. life[m].act # "successor" => worker'[w].successor = Nobody
        BY <1>0, <2>2, <2>3
      <3> QED BY <1>0, <2>1, <3>1, <3>2 DEF Copied, Renews, Present
    <2>9. Linking(m)'
      <3> SUFFICES ASSUME life[m].act = "successor" PROVE Linking(m)'
        BY <2>1 DEF Linking
      <3>1. /\ life[m].s # w /\ life[m].spawned
            /\ \A s \in Worker : Follows(s, w) <=> s = life[m].s
            /\ worker[life[m].s].successor = Nobody
        BY <1>0 DEF Linking, Mending
      <3>2. worker'[w].successor = life[m].s /\ worker'[life[m].s].successor = Nobody
        BY <1>0, <2>2, <2>3, <3>1
      <3>3. \A s \in Worker : Follows(s, life[m].w)' <=> s = life[m].s
        <4>1. ASSUME NEW s \in Worker, NEW v \in Worker, v = w
              PROVE  Follows(s, v)' <=> s = life[m].s
          BY <2>3, <3>1, <4>1
        <4> QED BY <1>0, <2>1, <4>1
      <3> QED BY <2>1, <3>1, <3>2, <3>3 DEF Linking, Mending
    <2> QED BY <2>3, <2>6, <2>7, <2>8, <2>9 DEF Linked, LinkAt
  <1> QED BY <1>0, <1>3, <1>4, <1>5 DEF UpdateWorker

LEMMA UndoLifeLinks ==
  ASSUME LinkInv, OneManager, NEW m \in Manager, UndoLife(m)
  PROVE  Linked(m)'
  <1> DEFINE w == life[m].w
             r == life[m].raw
  <1>0. /\ LifecycleType /\ life[m].pc = "undo worker"
        /\ life[m].act \in {"handoff", "retire", "successor"}
        /\ UNCHANGED <<handoff, session>>
        /\ w \in Worker /\ life[m].s \in Worker
        /\ Copied(m) /\ Linking(m) /\ Form(life[m])
        /\ worker \in [Worker -> WorkerRow]
    BY LinkFacts DEF UndoLife, In, Form, Renews
  <1>1. /\ Present(w) /\ r.status # "absent" /\ r.successor = Nobody
        /\ r.supersedes = worker[w].supersedes
        /\ r.status = "running" => r.attempt >= 1
        /\ life[m].act # "successor" => worker[w].successor = Nobody
    BY <1>0 DEF Copied, Renews
  <1>2. worker' = [worker EXCEPT ![w] = r]
    BY <1>1 DEF UndoLife, RestoreWorker, Restored, Present
  <1>3. /\ Rows'
        /\ \A s, v \in Worker : Follows(s, v)' <=> Follows(s, v)
        /\ \A v \in Worker : Present(v)' <=> Present(v)
        /\ worker'[w] = r
        /\ \A v \in Worker : v # w => worker'[v] = worker[v]
    <2> HIDE DEF r
    <2> QED BY <1>0, <1>1, <1>2, RowChanges
  <1>4. ASSUME NEW v \in Worker, v # w \/ life[m].act # "successor" PROVE Agreed(v)'
    <2>1. Agreed(v)
      BY <1>4, LinkFacts DEF Mending
    <2>2. worker'[v].successor = worker[v].successor
      BY <1>1, <1>3, <1>4
    <2>3. worker[v].successor \in Worker => worker'[v].status = worker[v].status
      <3>1. v = w => worker[v].successor \notin Worker
        BY <1>1, <1>4, WorkerAssumption
      <3> QED BY <1>3, <3>1
    <2> QED BY <1>0, <1>3, <2>1, <2>2, <2>3, AgreedStays
  <1>5. CASE life[m].act = "retire"
    <2>1. Return(m)
      BY <1>5 DEF UndoLife
    <2>2. Lineage'
      BY <1>4, <1>5 DEF Lineage
    <2> QED BY <1>0, <1>3, <2>1, <2>2, ReturnLinks DEF Linked
  <1>6. CASE life[m].act # "retire"
    <2>1. Step(m, "undo handoff")
      BY <1>6 DEF UndoLife
    <2>2. /\ life'[m].pc = "undo handoff" /\ life'[m].act = life[m].act
          /\ life'[m].w = w /\ life'[m].s = life[m].s
          /\ life'[m].raw = r /\ life'[m].paper = life[m].paper
          /\ life'[m].spawned = life[m].spawned
      BY <1>0, <2>1, StepFrame
    <2>3. Lineage'
      BY <1>4, <2>2 DEF Lineage, Mending
    <2>4. Form(life'[m]) /\ Renewed(m)'
      BY <1>0, <1>6, <2>2 DEF Form, Renewed, Renews
    <2>5. Copied(m)'
      <3>1. worker'[w].status # "absent" /\ worker'[w].successor = Nobody
            /\ worker'[w].supersedes = worker[w].supersedes
        BY <1>1, <1>3
      <3> QED BY <1>0, <1>1, <2>2, <3>1 DEF Copied, Renews, Present
    <2>6. Linking(m)'
      <3> SUFFICES ASSUME life[m].act = "successor" PROVE Linking(m)'
        BY <2>2 DEF Linking
      <3>1. /\ life[m].s # w
            /\ \A s \in Worker : Follows(s, w) <=> s = life[m].s /\ life[m].spawned
            /\ worker[life[m].s].successor = Nobody
        BY <1>0 DEF Linking, Mending
      <3>2. worker'[life[m].s].successor = Nobody
        BY <1>0, <1>3, <3>1
      <3>3. \A s \in Worker : Follows(s, life[m].w)' <=> s = life[m].s /\ life[m].spawned
        <4>1. ASSUME NEW s \in Worker, NEW v \in Worker, v = w
              PROVE  Follows(s, v)' <=> s = life[m].s /\ life[m].spawned
          BY <1>3, <3>1, <4>1
        <4> QED BY <1>0, <2>2, <4>1
      <3> QED BY <2>2, <3>1, <3>2, <3>3 DEF Linking, Mending
    <2> QED BY <1>3, <2>3, <2>4, <2>5, <2>6 DEF Linked, LinkAt
  <1> QED BY <1>5, <1>6

(* The handoff of the worker at hand changes and no other row does.        *)
LEMMA PaperChanges ==
  ASSUME LinkInv, OneManager, NEW m \in Manager, life[m].pc \notin {"patch", "undo worker"},
         UNCHANGED <<worker, session>>,
         \A v \in Worker : v # life[m].w => handoff'[v] = handoff[v]
  PROVE  /\ Rows'
         /\ \A v \in Worker : v # life[m].w => Agreed(v)'
         /\ \A s, v \in Worker : Follows(s, v)' <=> Follows(s, v)
  <1>1. Rows'
    BY LinkFacts DEF Rows, Blank, Begun, Replaced, Present
  <1>2. \A s, v \in Worker : Follows(s, v)' <=> Follows(s, v)
    BY DEF Follows, Present
  <1>3. ASSUME NEW v \in Worker, v # life[m].w PROVE Agreed(v)'
    <2>1. Agreed(v)
      BY <1>3, LinkFacts
    <2> QED BY <1>2, <1>3, <2>1, AgreedStays
  <1> QED BY <1>1, <1>2, <1>3

LEMMA PaperLinks ==
  ASSUME LinkInv, OneManager, NEW m \in Manager,
         UndoHandoff(m) \/ WriteHandoff(m) \/ SupersedeHandoff(m)
  PROVE  Linked(m)'
  <1> DEFINE w == life[m].w
  <1>0. /\ LifecycleType
        /\ life[m].pc \in {"undo handoff", "write", "supersede"}
        /\ UNCHANGED <<worker, session>>
        /\ w \in Worker /\ life[m].s \in Worker
        /\ Copied(m) /\ Linking(m) /\ Form(life[m])
        /\ handoff \in [Worker -> HandoffRow]
    BY LinkFacts DEF UndoHandoff, WriteHandoff, SupersedeHandoff, In, vars, tables
  <1>1. \A v \in Worker : v # w => handoff'[v] = handoff[v]
    BY <1>0 DEF UndoHandoff, WriteHandoff, SupersedeHandoff
  <1>2. /\ Rows'
        /\ \A v \in Worker : v # w => Agreed(v)'
        /\ \A s, v \in Worker : Follows(s, v)' <=> Follows(s, v)
    BY <1>0, <1>1, PaperChanges
  <1>3. life[m].act \in {"handoff", "successor"} /\ worker[w].successor = Nobody
    BY <1>0 DEF Form, Copied, Renews
  <1>4. ASSUME NEW v \in Worker, v = w, handoff'[v].successor = Nobody,
               \A s \in Worker : ~Follows(s, v)
        PROVE  Agreed(v)'
    <2>1. worker'[v].successor = Nobody /\ Nobody \notin Worker
      BY <1>0, <1>3, <1>4, WorkerAssumption
    <2> QED BY <1>2, <1>4, <2>1 DEF Agreed
  <1>5. life[m].act = "handoff" => \A s \in Worker : ~Follows(s, w)
    <2>1. life[m].act = "handoff" => Agreed(w)
      BY <1>0, LinkFacts DEF Mending
    <2> QED BY <1>0, <1>3, <2>1, NotYet
  <1>6. ASSUME NEW pc, Step(m, pc) PROVE
          /\ life'[m].pc = pc /\ life'[m].act = life[m].act
          /\ life'[m].w = life[m].w /\ life'[m].s = life[m].s
          /\ life'[m].raw = life[m].raw /\ life'[m].paper = life[m].paper
          /\ life'[m].spawned = life[m].spawned
    BY <1>0, <1>6, StepFrame
  <1>7. CASE UndoHandoff(m)
    <2>1. life[m].pc = "undo handoff" /\ handoff'[w] = life[m].paper
          /\ life[m].paper.successor = Nobody
      BY <1>0, <1>3, <1>7 DEF UndoHandoff, In, Paper, Copied, Renews
    <2>2. CASE life[m].spawned
      <3>1. life[m].act = "successor" /\ Step(m, "undo spawn")
        BY <1>0, <1>7, <2>2 DEF Form, UndoHandoff
      <3>2. /\ life'[m].pc = "undo spawn" /\ life'[m].act = life[m].act
            /\ life'[m].w = life[m].w /\ life'[m].s = life[m].s
            /\ life'[m].raw = life[m].raw /\ life'[m].paper = life[m].paper
            /\ life'[m].spawned = life[m].spawned
        BY <1>6, <3>1
      <3>3. Lineage'
        BY <1>2, <3>1, <3>2 DEF Lineage, Mending
      <3>4. Form(life'[m]) /\ Renewed(m)'
        BY <3>1, <3>2 DEF Form, Renewed
      <3>5. Copied(m)'
        BY <1>0, <2>1, <3>2 DEF Copied, Renews, Present
      <3>6. Linking(m)'
        BY <1>0, <2>1, <3>1, <3>2 DEF Linking, Mending, Present, Follows
      <3> QED BY <1>2, <3>3, <3>4, <3>5, <3>6 DEF Linked, LinkAt
    <2>3. CASE ~life[m].spawned
      <3>1. Return(m)
        BY <1>7, <2>3 DEF UndoHandoff
      <3>2. \A s \in Worker : ~Follows(s, w)
        BY <1>0, <1>3, <1>5, <2>1, <2>3 DEF Linking, Mending
      <3>3. Lineage'
        BY <1>2, <1>4, <2>1, <3>2 DEF Lineage
      <3> QED BY <1>0, <1>2, <3>1, <3>3, ReturnLinks DEF Linked
    <2> QED BY <2>2, <2>3
  <1>8. CASE WriteHandoff(m)
    <2>1. /\ life[m].pc = "write" /\ life[m].act = "handoff" /\ ~life[m].spawned
          /\ handoff'[w].successor = Nobody
          /\ Step(m, "worker")
      BY <1>0, <1>8 DEF WriteHandoff, In, Form
    <2>2. /\ life'[m].pc = "worker" /\ life'[m].act = life[m].act
          /\ life'[m].w = life[m].w /\ life'[m].s = life[m].s
          /\ life'[m].raw = life[m].raw /\ life'[m].paper = life[m].paper
          /\ life'[m].spawned = life[m].spawned
      BY <1>6, <2>1
    <2>3. Lineage'
      BY <1>2, <1>4, <1>5, <2>1 DEF Lineage
    <2>4. Form(life'[m]) /\ Renewed(m)' /\ Linking(m)'
      BY <2>1, <2>2 DEF Form, Renewed, Renews, Linking
    <2>5. Copied(m)'
      BY <1>0, <2>1, <2>2 DEF Copied, Renews, Present
    <2> QED BY <1>2, <2>3, <2>4, <2>5 DEF Linked, LinkAt
  <1>9. CASE SupersedeHandoff(m)
    <2>1. life[m].pc = "supersede" /\ life[m].act = "successor"
      BY <1>0, <1>9 DEF SupersedeHandoff, In, Form
    <2>2. ASSUME NEW pc \in {"worker", "undo worker"}, Step(m, pc),
                 pc = "worker" => handoff'[w].successor = life[m].s
          PROVE  Linked(m)'
      <3>1. /\ life'[m].pc = pc /\ life'[m].act = life[m].act
            /\ life'[m].w = life[m].w /\ life'[m].s = life[m].s
            /\ life'[m].raw = life[m].raw /\ life'[m].paper = life[m].paper
            /\ life'[m].spawned = life[m].spawned
        BY <1>6, <2>2
      <3>2. Lineage'
        BY <1>2, <2>1, <3>1 DEF Lineage, Mending
      <3>3. Form(life'[m]) /\ Renewed(m)'
        BY <2>1, <3>1 DEF Form, Renewed, Renews
      <3>4. Copied(m)'
        BY <1>0, <2>1, <3>1 DEF Copied, Renews, Present
      <3>5. Linking(m)'
        BY <1>0, <2>1, <2>2, <3>1 DEF Linking, Mending, Present, Follows
      <3> QED BY <1>2, <3>2, <3>3, <3>4, <3>5 DEF Linked, LinkAt
    <2>3. CASE Step(m, "undo worker")
      BY <2>2, <2>3
    <2>4. CASE /\ Step(m, "worker")
               /\ handoff' = [handoff EXCEPT ![life[m].w] =
                    [status |-> "superseded", successor |-> life[m].s]]
      <3>1. handoff'[w].successor = life[m].s
        BY <1>0, <2>4
      <3> QED BY <2>2, <2>4, <3>1
    <2> QED BY <1>9, <2>3, <2>4 DEF SupersedeHandoff
  <1> QED BY <1>7, <1>8, <1>9

LEMMA CleanupWorkerLinks ==
  ASSUME LinkInv, OneManager, NEW m \in Manager, CleanupWorker(m)
  PROVE  Linked(m)'
  <1> DEFINE w == life[m].w
             c == life[m].s
  <1>0. /\ LifecycleType /\ life[m].pc = "undo spawn" /\ life[m].act = "successor"
        /\ life[m].spawned /\ UNCHANGED <<handoff, session>>
        /\ w \in Worker /\ c \in Worker /\ Step(m, "undo session")
        /\ Copied(m) /\ Linking(m) /\ Form(life[m])
        /\ worker \in [Worker -> WorkerRow]
        /\ worker' = [worker EXCEPT ![c] = NoWorker]
        /\ \A v \in Worker : Blank(v) /\ Begun(v)
        /\ \A v \in Worker : worker[v].successor # Nobody => session[v] # "queued"
    BY LinkFacts DEF CleanupWorker, In, Form, Shape, Without
  <1>1. /\ c # w /\ worker[c].successor = Nobody
        /\ \A s \in Worker : Follows(s, w) <=> s = c
        /\ worker[w].successor = Nobody /\ handoff[w].successor = Nobody
    BY <1>0 DEF Linking, Mending, Copied, Renews
  <1>2. /\ worker'[c] = NoWorker
        /\ \A v \in Worker : v # c => worker'[v] = worker[v]
    BY <1>0
  <1>3. /\ NoWorker.status = "absent" /\ NoWorker.successor = Nobody
        /\ NoWorker.supersedes = Nobody
    BY DEF NoWorker
  <1>4. Rows'
    <2>1. ASSUME NEW v \in Worker PROVE Blank(v)' /\ Replaced(v)' /\ Begun(v)'
      <3>1. CASE v = c
        BY <1>2, <1>3, <3>1 DEF Blank, Replaced, Begun, Present
      <3>2. CASE v # c
        BY <1>0, <1>2, <3>2 DEF Blank, Replaced, Begun, Present
      <3> QED BY <3>1, <3>2
    <2> QED BY <2>1 DEF Rows
  <1>5. ASSUME NEW s \in Worker, NEW v \in Worker
        PROVE  Follows(s, v)' <=> Follows(s, v) /\ v # w
    <2>1. CASE s = c
      <3>1. ~Follows(s, v)'
        BY <1>2, <1>3, <2>1 DEF Follows, Present
      <3>2. worker[s].supersedes = w
        BY <1>0, <1>1, <2>1 DEF Follows
      <3> QED BY <3>1, <3>2 DEF Follows
    <2>2. CASE s # c
      <3>1. Follows(s, v)' <=> Follows(s, v)
        BY <1>2, <2>2 DEF Follows, Present
      <3>2. v = w => ~Follows(s, v)
        BY <1>1, <2>2
      <3> QED BY <3>1, <3>2
    <2> QED BY <2>1, <2>2
  <1>6. ASSUME NEW v \in Worker PROVE Agreed(v)'
    <2>1. CASE v = w
      <3>1. /\ worker'[v].successor = Nobody /\ handoff'[v].successor = Nobody
            /\ Nobody \notin Worker
        BY <1>0, <1>1, <1>2, <2>1, WorkerAssumption
      <3> QED BY <1>5, <2>1, <3>1 DEF Agreed
    <2>2. CASE v # w
      <3>1. Agreed(v)
        BY <2>2, LinkFacts
      <3>2. \A s \in Worker : Follows(s, v)' <=> Follows(s, v)
        BY <1>5, <2>2
      <3>3. /\ worker'[v].successor = worker[v].successor
            /\ worker[v].successor \in Worker => worker'[v].status = worker[v].status
        BY <1>1, <1>2, <1>3, WorkerAssumption
      <3> QED BY <1>0, <3>1, <3>2, <3>3, AgreedStays
    <2> QED BY <2>1, <2>2
  <1>7. /\ life'[m].pc = "undo session" /\ life'[m].act = "successor"
        /\ life'[m].w = w /\ life'[m].s = c
        /\ life'[m].raw = life[m].raw /\ life'[m].paper = life[m].paper
        /\ life'[m].spawned = life[m].spawned
    BY <1>0, StepFrame
  <1>8. Form(life'[m]) /\ Renewed(m)'
    BY <1>7 DEF Form, Renewed
  <1>9. Copied(m)'
    BY <1>0, <1>1, <1>2, <1>7 DEF Copied, Renews, Present
  <1>10. Linking(m)'
    BY <1>1, <1>7 DEF Linking, Mending
  <1>11. Lineage'
    BY <1>6 DEF Lineage
  <1> QED BY <1>4, <1>8, <1>9, <1>10, <1>11 DEF Linked, LinkAt

LEMMA LifeLink ==
  ASSUME LinkInv, OneManager, NEW m \in Manager, At(m, "idle"), LifeStep(m), TurnInv'
  PROVE  LinkInv'
  <1>1. Linked(m)'
    BY StartsLink, ReadSessionLinks, ReadsLink, PatchLinks, CleanupLinks, CreateLinks,
       UpdateLinks, UndoLifeLinks, PaperLinks, CleanupWorkerLinks DEF LifeStep, Starts
  <1>2. at' = at
    BY DEF LifeStep, StartSpawn, StartHandoff, StartRetire, StartSuccessor,
       ReadSession, CreateWorker, ReadWorker, ReadHandoff, UpdateWorker,
       PatchSession, UndoLife, UndoHandoff, WriteHandoff, GateSuccessor,
       SupersedeHandoff, CleanupWorker, CleanupSession, vars
  <1>3. ASSUME NEW n \in Manager PROVE LinkAt(n)' /\ Judging(n)'
    <2>1. n = m
      BY DEF OneManager
    <2> QED BY <1>1, <1>2, <2>1 DEF Linked, Judging, At
  <1>4. ASSUME NEW t \in Ticker PROVE Lapsing(t)'
    BY <1>2 DEF LinkInv, Lapsing
  <1> QED BY <1>1, <1>3, <1>4 DEF LinkInv, Linked

LEMMA LinkStep ==
  ASSUME LinkInv, OneManager, RunnersReport, OneAttempt, [ChainNext]_chainVars
  PROVE  LinkInv'
  <1>0. TurnInv'
    BY TurnStep DEF LinkInv
  <1>1. CASE Feedback \/ ChainWaits \/ UNCHANGED chainVars
    <2>1. UNCHANGED <<worker, session, handoff, at, life>>
      BY <1>1 DEF Feedback, RecordFeedback, ChainWaits, TimePasses, chainVars,
                  vars, tables, lifeVars
    <2>2. Lineage' /\ Rows'
      <3>1. \A w \in Worker : Agreed(w)' <=> Agreed(w)
        BY <2>1 DEF Agreed, Follows, Present
      <3>2. \A m \in Manager : Mending(m)' <=> Mending(m)
        BY <2>1 DEF Mending
      <3>3. Lineage'
        BY <2>1, <3>1, <3>2 DEF LinkInv, Lineage
      <3>4. \A w \in Worker : Blank(w)' /\ Replaced(w)' /\ Begun(w)'
        BY <2>1 DEF LinkInv, Rows, Blank, Replaced, Begun, Present
      <3> QED BY <3>3, <3>4 DEF Rows
    <2>3. ASSUME NEW m \in Manager PROVE LinkAt(m)' /\ Judging(m)'
      <3>1. LinkAt(m) /\ Judging(m)
        BY DEF LinkInv
      <3>2. Linking(m)'
        BY <2>1, <3>1 DEF LinkAt, Linking, Mending, Follows, Present
      <3>3. Form(life'[m]) /\ Copied(m)' /\ Renewed(m)'
        BY <2>1, <3>1 DEF LinkAt, Form, Copied, Renewed, Present
      <3>4. Judging(m)'
        BY <2>1, <3>1 DEF Judging, Present
      <3> QED BY <3>2, <3>3, <3>4 DEF LinkAt
    <2>4. ASSUME NEW t \in Ticker PROVE Lapsing(t)'
      BY <2>1 DEF LinkInv, Lapsing
    <2> QED BY <1>0, <2>2, <2>3, <2>4 DEF LinkInv
  <1>2. CASE LifecycleStep
    BY <1>0, <1>2, LifeLink DEF LifecycleStep
  <1>3. CASE KernelStep
    BY <1>3, KernelLink
  <1> QED BY <1>1, <1>2, <1>3 DEF ChainNext

LEMMA LinkInit == ChainInit => LinkInv
  <1> SUFFICES ASSUME ChainInit PROVE LinkInv
    OBVIOUS
  <1>0. TurnInv
    BY TurnInit
  <1>1. ASSUME NEW w \in Worker
        PROVE  /\ worker[w].status = "absent" /\ worker[w].successor = Nobody
               /\ worker[w].supersedes = Nobody
               /\ handoff[w].successor = Nobody
    BY DEF ChainInit, Init, LifecycleInit, NoWorker, NoHandoff
  <1>2. Nobody \notin Worker
    BY WorkerAssumption
  <1>3. Lineage
    BY <1>1, <1>2 DEF Lineage, Agreed, Follows, Present
  <1>4. Rows
    BY <1>1 DEF Rows, Blank, Replaced, Begun
  <1>5. ASSUME NEW m \in Manager PROVE LinkAt(m)
    <2>1. life[m] = Rest
      BY <1>0 DEF ChainInit, LifecycleInit
    <2>2. life[m].pc = "rest" /\ life[m].act = "none" /\ ~life[m].spawned
      BY <2>1 DEF Rest
    <2> QED BY <2>2 DEF LinkAt, Form, Copied, Linking, Renewed, Renews
  <1>6. ASSUME NEW p \in Process PROVE at[p].pc = "idle"
    BY DEF ChainInit, Init, Idle
  <1>7. \A m \in Manager : Judging(m)
    BY <1>6 DEF Judging, Process
  <1>8. \A t \in Ticker : Lapsing(t)
    BY <1>6 DEF Lapsing, Process
  <1> QED BY <1>0, <1>3, <1>4, <1>5, <1>7, <1>8 DEF LinkInv

(* At rest nobody is between the rows of a worker and its successor.       *)
LEMMA LinksAgree == LinkInv => LineageAgrees
  <1> SUFFICES ASSUME LinkInv, Quiet, NEW w \in Worker, NEW s \in Worker
               PROVE  /\ worker[w].successor = s
                         <=> Present(s) /\ worker[s].supersedes = w
                      /\ handoff[w].successor = s
                         <=> worker[w].successor = s
                      /\ worker[w].successor = s
                         => worker[w].status = "successor_spawned"
    BY DEF LineageAgrees
  <1>1. \A m \in Manager : ~Mending(m)
    BY DEF Quiet, In, Mending
  <1>2. Agreed(w)
    BY <1>1 DEF LinkInv, Lineage
  <1> QED BY <1>2 DEF Agreed, Follows

(* A worker, its successor and its handoff name each other whenever no     *)
(* manager is in the middle of an action, for any workers, calls and       *)
(* session patches that throw, and any number of ticks that run meanwhile  *)
(* and may die anywhere: four rows are written one by one, and what a      *)
(* failed record puts back and deletes is what it found and made           *)
(* (workflowV2WorkerSuccessorCreate).  One manager at a time; no backend   *)
(* reports directly and the kernel's own session patches throw only for a  *)
(* session run that is gone, so that no result is undone; and a worker is  *)
(* attempted once: the session run of a worker that was to be retried is   *)
(* queued, and a late expiry may leave it so when the worker was replaced. *)
THEOREM LineageAgreesHolds ==
  ASSUME OneManager, RunnersReport, OneAttempt PROVE ChainSpec => []LineageAgrees
  <1>1. LinkInv /\ [ChainNext]_chainVars => LinkInv'
    BY LinkStep
  <1> QED BY <1>1, LinkInit, LinksAgree, PTL DEF ChainSpec
=============================================================================
