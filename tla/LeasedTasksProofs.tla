------------------------- MODULE LeasedTasksProofs -------------------------
(***************************************************************************)
(* The queue implements leased tasks, for any number of rows, processes    *)
(* and operators: every step maps to one step of LeasedTasks or leaves the *)
(* tasks as they are.                                                      *)
(***************************************************************************)
EXTENDS JobQueueTasks, JobQueueProofs

LEMMA MapsInit == Init => Tasks!Init
  BY DEF Init, NoRow, TaskOf, Phase, Claimable, Tasks!Init, Tasks!Unheld

LEMMA Stutters ==
  ASSUME UNCHANGED <<clock, row>>
  PROVE  UNCHANGED Tasks!vars
  BY DEF Tasks!vars

LEMMA PhaseOf ==
  ASSUME NEW j \in Job, row[j] \in RowType
  PROVE  /\ Tasks!Is(j, "absent") <=> row[j].status = "absent"
         /\ Tasks!Is(j, "waiting") <=> row[j].status \in Claimable
         /\ Tasks!Is(j, "held") <=> row[j].status = "running"
         /\ Tasks!Is(j, "failed") <=> row[j].status = "failed"
         /\ Tasks!Closed(j) <=> row[j].status \in ClosedStatus
         /\ Tasks!Open(j) <=> IsActive(j)
<1>1. row[j].status \in RowStatus
  BY DEF RowType
<1>2. \A ph : Tasks!Is(j, ph) <=> Phase(row[j].status) = ph
  BY DEF Tasks!Is, TaskOf
<1> QED
  BY <1>1, <1>2 DEF Phase, Claimable, Tasks!Closed, Tasks!Open, IsActive,
     ActiveStatus, ClosedStatus, RowStatus

LEMMA AloneOf ==
  ASSUME TypeOK, NEW j \in Job,
         \A i \in Job \ {j} : KeyOf[i] = KeyOf[j] => ~IsActive(i)
  PROVE  Tasks!Alone(j)
<1>1. \A i \in Job : row[i] \in RowType
  BY DEF TypeOK
<1> QED
  BY <1>1, PhaseOf DEF Tasks!Alone

(* A statement that writes one row changes one task.                       *)
LEMMA OneTask ==
  ASSUME NEW j \in Job, clock' = clock,
         \A i \in Job \ {j} : row'[i] = row[i],
         NEW S, NEW t \in S, TaskOf(row'[j]) = t
  PROVE  Tasks!Becomes(j, S)
  BY DEF Tasks!Becomes

LEMMA MapsInsert ==
  ASSUME TypeOK, NEW p \in Proc, SeedInsert(p)
  PROVE  \E t \in Job : Tasks!Put(t)
<1>0. row \in [Job -> RowType]
  BY DEF TypeOK
<1>1. PICK n \in Unused(key[p]) : row' = [row EXCEPT ![n] = NewRow]
  BY DEF SeedInsert
<1>2. n \in Job /\ KeyOf[n] = key[p] /\ row[n].status = "absent"
  BY <1>1 DEF Unused
<1>3. \A i \in Job : KeyOf[i] = KeyOf[n] => ~IsActive(i)
  BY <1>2 DEF SeedInsert, IndexAdmits, ActiveWithKey
<1>4. /\ row'[n] = NewRow
      /\ \A i \in Job \ {n} : row'[i] = row[i]
  BY <1>0, <1>1, <1>2
<1>5. TaskOf(row'[n]) = Tasks!Unheld("waiting", 0)
  BY <1>4 DEF NewRow, NoRow, TaskOf, Phase, Claimable, Tasks!Unheld
<1>6. clock' = clock
  BY DEF SeedInsert
<1>7. Tasks!Becomes(n, {Tasks!Unheld("waiting", 0)})
  BY <1>2, <1>4, <1>5, <1>6, OneTask
<1>8. Tasks!Alone(n)
  BY <1>2, <1>3, AloneOf
<1> QED
  BY <1>0, <1>2, <1>7, <1>8, PhaseOf DEF Tasks!Put

(* The claim compares the lease with an instant that has passed.           *)
LEMMA MapsClaim ==
  ASSUME TypeOK, PastInstants, NEW p \in Proc, ClaimCas(p)
  PROVE  (\E t \in Job : Tasks!Take(t)) \/ UNCHANGED Tasks!vars
<1> DEFINE j == claim[p].job
<1>0. /\ clock \in Nat
      /\ row \in [Job -> RowType]
      /\ j \in Job
      /\ row[j] \in RowType
      /\ claim[p].seen \in Nat
      /\ claim[p].seen <= clock
      /\ clock' = clock
      /\ LeaseLen \in Nat
  BY JobQueueAssumption DEF TypeOK, ClaimType, PastInstants, ClaimCas
<1>1. CASE ~MayClaim(j, claim[p].seen)
  BY <1>0, <1>1, Stutters DEF ClaimCas
<1>2. CASE MayClaim(j, claim[p].seen)
  <2>1. PICK t \in claim[p].seen..clock :
          row' = [row EXCEPT ![j] =
                    Claimed(row[j], p, t + LeaseLen, claim[p].seen)]
    BY <1>2 DEF ClaimCas
  <2>2. /\ row'[j] = Claimed(row[j], p, t + LeaseLen, claim[p].seen)
        /\ \A i \in Job \ {j} : row'[i] = row[i]
    BY <1>0, <2>1
  <2> DEFINE new == [phase |-> "held", holder |-> p, until |-> t + LeaseLen,
                     tries |-> row[j].attempt + 1]
             S == [phase : {"held"}, holder : Proc, until : 0..(clock + LeaseLen),
                   tries : {row[j].attempt + 1}]
  <2>3. TaskOf(row'[j]) = new
    BY <2>2 DEF Claimed, RowType, TaskOf, Phase, Claimable
  <2>4. t + LeaseLen \in 0..(clock + LeaseLen)
    BY <1>0
  <2>5. new \in S
    BY <2>4
  <2>6. Tasks!Becomes(j, S)
    BY <1>0, <2>2, <2>3, <2>5, OneTask
  <2>7. Tasks!Is(j, "waiting") \/ Tasks!Lapsed(j)
    <3>1. CASE row[j].status \in Claimable
      BY <1>0, <3>1, PhaseOf
    <3>2. CASE row[j].status = "running" /\ row[j].until <= claim[p].seen
      <4>1. row[j].until <= clock
        BY <1>0, <3>2 DEF RowType
      <4>2. Tasks!Is(j, "held")
        BY <1>0, <3>2, PhaseOf
      <4> QED
        BY <1>0, <3>2, <4>1, <4>2 DEF Tasks!Lapsed, TaskOf
    <3> QED
      BY <1>2, <3>1, <3>2 DEF MayClaim
  <2>8. [i \in Job |-> TaskOf(row[i])][j].tries = row[j].attempt
    BY <1>0 DEF TaskOf
  <2> QED
    BY <1>0, <2>6, <2>7, <2>8 DEF Tasks!Take
<1> QED
  BY <1>1, <1>2

LEMMA HeldOf ==
  ASSUME TypeOK, NEW p \in Proc, HoldsLease(p)
  PROVE  Tasks!Is(claim[p].job, "held")
<1>1. claim[p].job \in Job /\ row[claim[p].job] \in RowType
  BY DEF TypeOK, ClaimType
<1> QED
  BY <1>1, PhaseOf DEF HoldsLease

LEMMA MapsComplete ==
  ASSUME TypeOK, NEW p \in Proc, CompleteJob(p)
  PROVE  (\E t \in Job : Tasks!Finish(t)) \/ UNCHANGED Tasks!vars
<1> DEFINE j == claim[p].job
<1>0. /\ row \in [Job -> RowType]
      /\ j \in Job
      /\ row[j] \in RowType
      /\ clock' = clock
  BY DEF TypeOK, ClaimType, CompleteJob
<1>1. CASE ~HoldsLease(p)
  BY <1>0, <1>1, Stutters DEF CompleteJob
<1>2. CASE HoldsLease(p)
  <2>1. row' = [row EXCEPT ![j] = Completed(row[j])]
    BY <1>2 DEF CompleteJob
  <2>2. /\ row'[j] = Completed(row[j])
        /\ \A i \in Job \ {j} : row'[i] = row[i]
    BY <1>0, <2>1
  <2>3. TaskOf(row'[j]) = Tasks!Unheld("done", row[j].attempt)
    BY <2>2 DEF Completed, RowType, TaskOf, Phase, Claimable, Tasks!Unheld
  <2>4. Tasks!Becomes(j, {Tasks!Unheld("done", row[j].attempt)})
    BY <1>0, <2>2, <2>3, OneTask
  <2>5. [i \in Job |-> TaskOf(row[i])][j].tries = row[j].attempt
    BY <1>0 DEF TaskOf
  <2> QED
    BY <1>0, <1>2, <2>4, <2>5, HeldOf DEF Tasks!Finish
<1> QED
  BY <1>1, <1>2

(* A process that still holds the lease of its row remembers its attempt.  *)
LEMMA MapsFail ==
  ASSUME TypeOK, OwnerRemembers, NEW p \in Proc, FailJob(p)
  PROVE  (\E t \in Job : Tasks!GiveUp(t)) \/ UNCHANGED Tasks!vars
<1> DEFINE j == claim[p].job
<1>0. /\ row \in [Job -> RowType]
      /\ j \in Job
      /\ row[j] \in RowType
      /\ clock' = clock
  BY DEF TypeOK, ClaimType, FailJob
<1>1. CASE ~HoldsLease(p)
  BY <1>0, <1>1, Stutters DEF FailJob
<1>2. CASE HoldsLease(p)
  <2> DEFINE phase == IF row[j].attempt < MaxAttempts THEN "waiting" ELSE "failed"
  <2>1. row' = [row EXCEPT ![j] = Failed(row[j], claim[p].att)]
    BY <1>2 DEF FailJob
  <2>2. /\ row'[j] = Failed(row[j], claim[p].att)
        /\ \A i \in Job \ {j} : row'[i] = row[i]
    BY <1>0, <2>1
  <2>3. claim[p].att = row[j].attempt
    BY <1>2 DEF FailJob, Working, HoldsLease, OwnerRemembers
  <2>4. TaskOf(row'[j]) = Tasks!Unheld(phase, row[j].attempt)
    <3>1. CASE row[j].attempt < MaxAttempts
      BY <2>2, <2>3, <3>1 DEF Failed, MayRetry, RowType, TaskOf, Phase,
         Claimable, Tasks!Unheld
    <3>2. CASE ~(row[j].attempt < MaxAttempts)
      BY <2>2, <2>3, <3>2 DEF Failed, MayRetry, RowType, TaskOf, Phase,
         Claimable, Tasks!Unheld
    <3> QED
      BY <3>1, <3>2
  <2>5. Tasks!Becomes(j, {Tasks!Unheld(phase, row[j].attempt)})
    BY <1>0, <2>2, <2>4, OneTask
  <2>6. [i \in Job |-> TaskOf(row[i])][j].tries = row[j].attempt
    BY <1>0 DEF TaskOf
  <2> QED
    BY <1>0, <1>2, <2>5, <2>6, HeldOf DEF Tasks!GiveUp
<1> QED
  BY <1>1, <1>2

(* The execution of a requeue looks again for other rows of the key.       *)
LEMMA MapsRequeue ==
  ASSUME TypeOK, PastInstants, NEW o \in Operator, RequeueApply(o)
  PROVE  (\E t \in Job : Tasks!Reopen(t)) \/ UNCHANGED Tasks!vars
<1> DEFINE j == op[o].job
<1>0. /\ clock \in Nat
      /\ row \in [Job -> RowType]
      /\ j \in Job
      /\ row[j] \in RowType
      /\ op[o].now \in Nat
      /\ op[o].now <= clock
      /\ clock' = clock
  BY DEF TypeOK, PreviewType, PastInstants, RequeueApply
<1>1. CASE row' = row
  BY <1>0, <1>1, Stutters
<1>2. CASE row' # row
  <2>1. Requeueable(j, op[o].now) /\ OtherActive(j) = {}
    BY <1>2 DEF RequeueApply
  <2>2. PICK reset \in 0..MaxAttempts :
          row' = [row EXCEPT ![j] = Requeued(row[j], reset, op[o].now)]
    BY <2>1 DEF RequeueApply
  <2>3. /\ row'[j] = Requeued(row[j], reset, op[o].now)
        /\ \A i \in Job \ {j} : row'[i] = row[i]
    BY <1>0, <2>2
  <2>4. TaskOf(row'[j]) = Tasks!Unheld("waiting", reset)
    BY <2>3 DEF Requeued, RowType, TaskOf, Phase, Claimable, Tasks!Unheld
  <2>5. Tasks!Becomes(j, {Tasks!Unheld("waiting", tries) : tries \in 0..MaxAttempts})
    <3>1. Tasks!Unheld("waiting", reset)
            \in {Tasks!Unheld("waiting", tries) : tries \in 0..MaxAttempts}
      BY <2>2
    <3> QED
      BY <1>0, <2>3, <2>4, <3>1, OneTask
  <2>6. Tasks!Alone(j)
    <3>1. \A i \in Job \ {j} : KeyOf[i] = KeyOf[j] => ~IsActive(i)
      BY <2>1 DEF OtherActive, ActiveWithKey
    <3> QED
      BY <1>0, <3>1, AloneOf
  <2>7. Tasks!Is(j, "failed") \/ Tasks!Lapsed(j)
    <3>1. CASE row[j].status = "failed"
      BY <1>0, <3>1, PhaseOf
    <3>2. CASE row[j].status = "running" /\ row[j].until <= op[o].now
      <4>1. row[j].until <= clock
        BY <1>0, <3>2 DEF RowType
      <4>2. Tasks!Is(j, "held")
        BY <1>0, <3>2, PhaseOf
      <4> QED
        BY <1>0, <3>2, <4>1, <4>2 DEF Tasks!Lapsed, TaskOf
    <3> QED
      BY <2>1, <3>1, <3>2 DEF Requeueable, LeaseLapsed
  <2> QED
    BY <1>0, <2>5, <2>6, <2>7 DEF Tasks!Reopen
<1> QED
  BY <1>1, <1>2

LEMMA MapsForget ==
  ASSUME TypeOK, NEW p \in Proc, FinishTick(p)
  PROVE  Tasks!Forget \/ UNCHANGED Tasks!vars
<1>0. clock' = clock /\ \A j \in Job : row[j] \in RowType
  BY DEF TypeOK, FinishTick
<1>1. CASE row' = row
  BY <1>0, <1>1, Stutters
<1>2. CASE row' # row
  <2>1. row' = [j \in Job |-> IF Pruned(j) THEN Deleted(row[j]) ELSE row[j]]
    BY <1>2 DEF FinishTick
  <2>2. ASSUME NEW j \in Job, Pruned(j)
        PROVE  /\ Tasks!Closed(j)
               /\ TaskOf(row'[j]) = Tasks!Unheld("pruned", row[j].attempt)
    <3>1. row'[j] = Deleted(row[j])
      BY <2>1, <2>2
    <3>2. TaskOf(row'[j]) = Tasks!Unheld("pruned", row[j].attempt)
      BY <1>0, <3>1 DEF Deleted, RowType, TaskOf, Phase, Claimable, Tasks!Unheld
    <3> QED
      BY <1>0, <2>2, <3>2, PhaseOf DEF Pruned
  <2>3. \A j \in Job : ~Pruned(j) => row'[j] = row[j]
    BY <2>1
  <2>4. \A j \in Job : TaskOf(row[j]).tries = row[j].attempt
    BY DEF TaskOf
  <2> QED
    BY <1>0, <2>2, <2>3, <2>4 DEF Tasks!Forget, Tasks!Some
<1> QED
  BY <1>1, <1>2

LEMMA MapsCancel ==
  ASSUME TypeOK, CancelWorkflowJobs
  PROVE  Tasks!Cancel
<1>0. /\ clock' = clock
      /\ \A j \in Job : row[j] \in RowType
      /\ row' = [j \in Job |-> IF j \in WorkflowJobs /\ IsActive(j)
                               THEN Cancelled(row[j]) ELSE row[j]]
  BY DEF TypeOK, CancelWorkflowJobs
<1>1. ASSUME NEW j \in Job, IsActive(j), j \in WorkflowJobs
      PROVE  /\ Tasks!Open(j)
             /\ TaskOf(row'[j]) = Tasks!Unheld("cancelled", row[j].attempt)
  <2>1. row'[j] = Cancelled(row[j])
    BY <1>0, <1>1
  <2>2. TaskOf(row'[j]) = Tasks!Unheld("cancelled", row[j].attempt)
    BY <1>0, <2>1 DEF Cancelled, RowType, TaskOf, Phase, Claimable, Tasks!Unheld
  <2> QED
    BY <1>0, <1>1, <2>2, PhaseOf
<1>2. \A j \in Job : ~(j \in WorkflowJobs /\ IsActive(j)) => row'[j] = row[j]
  BY <1>0
<1>3. \A j \in Job : TaskOf(row[j]).tries = row[j].attempt
  BY DEF TaskOf
<1> QED
  BY <1>0, <1>1, <1>2, <1>3 DEF Tasks!Cancel, Tasks!Some

LEMMA MapsStep ==
  ASSUME QueueInv, Moves
  PROVE  [Tasks!Next]_(Tasks!vars)
<1>0. TypeOK /\ PastInstants /\ OwnerRemembers
  BY DEF QueueInv
<1>1. CASE LocalStep
  BY <1>1, Stutters DEF LocalStep
<1>2. CASE RowStep
  BY <1>0, <1>2, MapsInsert, MapsClaim, MapsComplete, MapsFail, MapsForget,
     MapsRequeue, MapsCancel DEF RowStep, Tasks!Next
<1>3. CASE \E p \in Proc : ClaimReread(p)
  BY <1>3, Stutters DEF ClaimReread
<1>4. CASE TimePasses
  <2>1. clock' = clock + 1 /\ row' = row
    BY <1>4 DEF TimePasses
  <2> QED
    BY <2>1 DEF Tasks!TimePasses, Tasks!Next
<1> QED
  BY <1>0, <1>1, <1>2, <1>3, <1>4, StepKinds

(* The queue of the control loop implements leased tasks: what its         *)
(* handlers read earlier never makes a row change in a way that a queue    *)
(* whose operations are single steps would not allow.                      *)
THEOREM Implementation == Spec => ImplementsLeasedTasks
<1>1. Init => Tasks!Init
  BY MapsInit
<1>2. QueueInv /\ [Next]_vars => [Tasks!Next]_(Tasks!vars)
  BY MapsStep DEF Moves
<1> QED
  BY <1>1, <1>2, Invariance, PTL DEF Spec, ImplementsLeasedTasks, Tasks!Spec
=============================================================================
