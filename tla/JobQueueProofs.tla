---------------------------- MODULE JobQueueProofs ----------------------------
(* Theorems about the control loop's queue, for any number of rows, keys,  *)
(* processes and operators, any lease length and any bound.                *)
EXTENDS JobQueue, FiniteSetTheorems, TLAPS

LEMMA NullValues == NoKey \in Key /\ NoClaim \in ClaimType
                    /\ NoPreview \in PreviewType /\ NoRow \in RowType
<1>1. PICK j \in Job : TRUE
  BY JobQueueAssumption
<1>2. KeyOf[j] \in Key
  BY JobQueueAssumption
<1> QED
  BY <1>1, <1>2 DEF NoKey, NoClaim, ClaimType, NoPreview, PreviewType, NoRow,
     RowType, RowStatus

LEMMA DelayIsNat == \A n \in Nat : RetryDelay(n) \in Nat
  BY JobQueueAssumption DEF RetryDelay

LEMMA Statuses ==
    /\ {"queued", "running", "retry_scheduled", "done", "failed", "cancelled",
        "pruned", "absent"} \subseteq RowStatus
    /\ ActiveStatus \subseteq RowStatus
  BY DEF RowStatus, ActiveStatus, ClosedStatus

(* What each statement writes is a row. *)
LEMMA NewRowType == clock \in Nat => NewRow \in RowType
  BY NullValues, Statuses DEF NewRow, RowType

LEMMA ClaimedType ==
  ASSUME NEW r \in RowType, NEW p \in Proc, NEW u \in Nat, NEW t \in Nat
  PROVE  Claimed(r, p, u, t) \in RowType
<1>1. r.attempt + 1 \in Nat
  BY DEF RowType
<1> QED
  BY <1>1, Statuses DEF Claimed, RowType

LEMMA CompletedType ==
  ASSUME NEW r \in RowType, clock \in Nat
  PROVE  Completed(r) \in RowType
  BY Statuses DEF Completed, RowType

LEMMA FailedType ==
  ASSUME NEW r \in RowType, clock \in Nat, NEW a \in Nat
  PROVE  Failed(r, a) \in RowType
<1>1. CASE MayRetry(a)
  <2>1. clock + RetryDelay(a) \in Nat
    BY DelayIsNat
  <2> QED
    BY <1>1, <2>1, Statuses DEF Failed, RowType
<1>2. CASE ~MayRetry(a)
  BY <1>2, Statuses DEF Failed, RowType
<1> QED
  BY <1>1, <1>2

LEMMA RequeuedType ==
  ASSUME NEW r \in RowType, clock \in Nat, NEW a \in Nat, NEW t \in Nat
  PROVE  Requeued(r, a, t) \in RowType
  BY Statuses DEF Requeued, RowType

LEMMA DeletedType == \A r \in RowType : Deleted(r) \in RowType
  BY Statuses DEF Deleted, RowType

LEMMA CancelledType ==
  ASSUME NEW r \in RowType, clock \in Nat
  PROVE  Cancelled(r) \in RowType
  BY Statuses DEF Cancelled, RowType

LEMMA TypeInit == Init => TypeOK
  BY NullValues DEF Init, TypeOK

(* What moves the queue: its own steps, and the end of a process that had  *)
(* no tick or whose death is counted elsewhere (module ControlLoop).       *)
Dies(p) ==
    /\ crashes' = crashes + 1
    /\ EndTick(p)
    /\ UNCHANGED <<clock, row, op, requeues>>

Moves == [Next]_vars \/ \E p \in Proc : Dies(p)

LEMMA CrashDies == ASSUME NEW p, Crash(p) PROVE Dies(p)
  BY DEF Crash, Dies

LEMMA TypeStep == TypeOK /\ Moves => TypeOK'
<1> SUFFICES ASSUME TypeOK, Moves PROVE TypeOK'
  OBVIOUS
<1>0. /\ clock \in Nat
      /\ row \in [Job -> RowType]
      /\ claim \in [Proc -> ClaimType]
      /\ \A p \in Proc : /\ claim[p].job \in Job
                         /\ claim[p].seen \in Nat
                         /\ claim[p].att \in Nat
                         /\ claim[p].held \in Nat
                         /\ row[claim[p].job] \in RowType
  BY DEF TypeOK, ClaimType
<1>1. ASSUME NEW p \in Proc, TickStep(p) PROVE TypeOK'
  <2>1. CASE StartTick(p)
    BY <2>1 DEF StartTick, boundVars, TypeOK
  <2>2. ASSUME NEW k \in Key, SeedCheck(p, k) PROVE TypeOK'
    BY <2>2 DEF SeedCheck, boundVars, TypeOK
  <2>3. CASE SeedCooldown(p)
    BY <2>3 DEF SeedCooldown, boundVars, TypeOK
  <2>4. CASE SeedInsert(p)
    <3>1. row' \in [Job -> RowType]
      BY <1>0, <2>4, NewRowType DEF SeedInsert, Unused
    <3> QED
      BY <2>4, <3>1 DEF SeedInsert, boundVars, TypeOK
  <2>5. CASE SeedInsertFails(p)
    BY <2>5, NullValues DEF SeedInsertFails, EndTick, boundVars, TypeOK
  <2>6. CASE SeedDone(p)
    BY <2>6 DEF SeedDone, boundVars, TypeOK
  <2>7. CASE ClaimSelect(p)
    <3>1. PICK j \in Job : claim' = [claim EXCEPT ![p] =
                            [NoClaim EXCEPT !.job = j, !.seen = clock]]
      BY <2>7 DEF ClaimSelect, First, Due
    <3>2. [NoClaim EXCEPT !.job = j, !.seen = clock] \in ClaimType
      BY <1>0, NullValues DEF ClaimType
    <3>3. claim' \in [Proc -> ClaimType]
      BY <1>0, <3>1, <3>2
    <3> QED
      BY <2>7, <3>3 DEF ClaimSelect, boundVars, TypeOK
  <2>8. CASE ClaimStops(p)
    BY <2>8 DEF ClaimStops, boundVars, TypeOK
  <2>9. CASE ClaimCas(p)
    <3>1. CASE MayClaim(claim[p].job, claim[p].seen)
      <4>1. PICK t \in claim[p].seen..clock :
              row' = [row EXCEPT ![claim[p].job] =
                        Claimed(row[claim[p].job], p, t + LeaseLen,
                                claim[p].seen)]
        BY <2>9, <3>1 DEF ClaimCas
      <4>2. t + LeaseLen \in Nat
        BY <1>0, JobQueueAssumption
      <4>3. row' \in [Job -> RowType]
        BY <1>0, <4>1, <4>2, ClaimedType
      <4> QED
        BY <2>9, <4>3 DEF ClaimCas, boundVars, TypeOK
    <3>2. CASE ~MayClaim(claim[p].job, claim[p].seen)
      BY <2>9, <3>2 DEF ClaimCas, boundVars, TypeOK
    <3> QED
      BY <3>1, <3>2
  <2>10. CASE ClaimReread(p)
    <3>1. claim' \in [Proc -> ClaimType]
      BY <1>0, <2>10 DEF ClaimReread, ClaimType, RowType
    <3>2. count' \in [Proc -> Nat]
      BY <2>10 DEF ClaimReread, TypeOK
    <3>3. pc' \in [Proc -> {"idle", "seed", "cooldown", "insert", "claim",
                            "cas", "reread", "run", "complete", "fail",
                            "retention"}]
      BY <2>10 DEF ClaimReread, TypeOK
    <3> QED
      BY <2>10, <3>1, <3>2, <3>3 DEF ClaimReread, boundVars, TypeOK
  <2>11. CASE RunJob(p)
    BY <2>11 DEF RunJob, boundVars, TypeOK
  <2>12. CASE CompleteJob(p)
    <3>1. row' \in [Job -> RowType]
      BY <1>0, <2>12, CompletedType DEF CompleteJob
    <3> QED
      BY <2>12, <3>1, NullValues DEF CompleteJob, boundVars, TypeOK
  <2>13. CASE FailJob(p)
    <3>1. row' \in [Job -> RowType]
      BY <1>0, <2>13, FailedType DEF FailJob
    <3> QED
      BY <2>13, <3>1, NullValues DEF FailJob, boundVars, TypeOK
  <2>14. CASE FinishTick(p)
    <3>1. row' \in [Job -> RowType]
      BY <1>0, <2>14, DeletedType DEF FinishTick
    <3> QED
      BY <2>14, <3>1, NullValues DEF FinishTick, EndTick, boundVars, TypeOK
  <2> QED
    BY <1>1, <2>1, <2>2, <2>3, <2>4, <2>5, <2>6, <2>7, <2>8, <2>9, <2>10,
       <2>11, <2>12, <2>13, <2>14 DEF TickStep
<1>2. ASSUME NEW p \in Proc, Dies(p) PROVE TypeOK'
  BY <1>2, NullValues DEF Dies, EndTick, TypeOK
<1>3. ASSUME NEW o \in Operator, OperatorStep(o) PROVE TypeOK'
  <2>1. ASSUME NEW j \in Job, RequeuePreview(o, j) PROVE TypeOK'
    <3>1. op' \in [Operator -> PreviewType]
      BY <1>0, <2>1 DEF RequeuePreview, PreviewType, TypeOK
    <3> QED
      BY <2>1, <3>1 DEF RequeuePreview, procVars, TypeOK
  <2>2. CASE RequeueApply(o)
    <3>1. op[o].job \in Job /\ op[o].now \in Nat
      BY DEF TypeOK, PreviewType
    <3>2. row' = row \/ \E reset \in Nat :
            row' = [row EXCEPT ![op[o].job] =
                      Requeued(row[op[o].job], reset, op[o].now)]
      BY <2>2, JobQueueAssumption DEF RequeueApply
    <3>3. row' \in [Job -> RowType]
      BY <1>0, <3>1, <3>2, RequeuedType
    <3> QED
      BY <2>2, <3>3, NullValues DEF RequeueApply, procVars, boundVars, TypeOK
  <2> QED
    BY <1>3, <2>1, <2>2 DEF OperatorStep
<1>4. CASE CancelWorkflowJobs
  <2>1. row' \in [Job -> RowType]
    BY <1>0, <1>4, CancelledType DEF CancelWorkflowJobs
  <2> QED
    BY <1>4, <2>1 DEF CancelWorkflowJobs, procVars, boundVars, TypeOK
<1>5. CASE TimePasses
  BY <1>5 DEF TimePasses, procVars, boundVars, TypeOK
<1>6. CASE UNCHANGED vars
  BY <1>6 DEF vars, procVars, boundVars, TypeOK
<1> QED
  BY <1>1, <1>2, <1>3, <1>4, <1>5, <1>6, CrashDies DEF Next, Moves

(* The state stays within its types: a claim never mixes the fields of two *)
(* rows, whatever the rows became between its SELECT, UPDATE and re-read.  *)
THEOREM TypeCorrect == Spec => []TypeOK
<1>1. TypeOK /\ [Next]_vars => TypeOK'
  BY TypeStep DEF Moves
<1> QED
  BY <1>1, TypeInit, PTL DEF Spec

-----------------------------------------------------------------------------
(* Steps, by what they do to rows.  A local step changes no row, and makes *)
(* no process working.                                                     *)
LocalStep ==
    /\ UNCHANGED <<row, clock>>
    /\ \A q \in Proc : Working(q)' => Working(q) /\ claim'[q] = claim[q]

RowStep ==
    \/ \E p \in Proc : \/ SeedInsert(p)
                       \/ ClaimCas(p)
                       \/ CompleteJob(p)
                       \/ FailJob(p)
                       \/ FinishTick(p)
    \/ \E o \in Operator : RequeueApply(o)
    \/ CancelWorkflowJobs

LEMMA StepKinds ==
  ASSUME TypeOK, Moves
  PROVE  \/ LocalStep
         \/ RowStep
         \/ \E p \in Proc : ClaimReread(p)
         \/ TimePasses
<1>0. /\ pc \in [Proc -> {"idle", "seed", "cooldown", "insert", "claim",
                          "cas", "reread", "run", "complete", "fail",
                          "retention"}]
      /\ claim \in [Proc -> ClaimType]
  BY DEF TypeOK
<1>1. ASSUME NEW p \in Proc, TickStep(p) PROVE LocalStep \/ RowStep \/ ClaimReread(p)
  <2>1. CASE StartTick(p)
    BY <1>0, <2>1 DEF StartTick, LocalStep, Working
  <2>2. CASE \E k \in Key : SeedCheck(p, k)
    BY <1>0, <2>2 DEF SeedCheck, LocalStep, Working
  <2>3. CASE SeedCooldown(p)
    BY <1>0, <2>3 DEF SeedCooldown, LocalStep, Working
  <2>4. CASE SeedInsertFails(p)
    BY <1>0, <2>4 DEF SeedInsertFails, EndTick, LocalStep, Working
  <2>5. CASE SeedDone(p)
    BY <1>0, <2>5 DEF SeedDone, LocalStep, Working
  <2>6. CASE ClaimSelect(p)
    BY <1>0, <2>6 DEF ClaimSelect, LocalStep, Working
  <2>7. CASE ClaimStops(p)
    BY <1>0, <2>7 DEF ClaimStops, LocalStep, Working
  <2>8. CASE RunJob(p)
    BY <1>0, <2>8 DEF RunJob, LocalStep, Working
  <2> QED
    BY <1>1, <2>1, <2>2, <2>3, <2>4, <2>5, <2>6, <2>7, <2>8
       DEF TickStep, RowStep
<1>2. ASSUME NEW p \in Proc, Dies(p) PROVE LocalStep
  BY <1>0, <1>2 DEF Dies, EndTick, LocalStep, Working
<1>3. ASSUME NEW o \in Operator, OperatorStep(o) PROVE LocalStep \/ RowStep
  BY <1>3 DEF OperatorStep, RequeuePreview, procVars, RowStep, LocalStep, Working
<1>4. CASE UNCHANGED vars
  BY <1>4 DEF vars, procVars, LocalStep, Working
<1> QED
  BY <1>1, <1>2, <1>3, <1>4, CrashDies DEF Next, Moves, RowStep

-----------------------------------------------------------------------------
(* What one step may do to one row.                                        *)

AloneWithKey(j) ==          \* j is the only row that changes
    \A i \in Job \ {j} : row'[i] = row[i] /\ (KeyOf[i] = KeyOf[j] => ~IsActive(i))

Inserted(j) ==
    /\ row[j].status = "absent"
    /\ row'[j].status = "queued"
    /\ AloneWithKey(j)

ClaimedBy(p, j) ==
    /\ MayClaim(j, claim[p].seen)
    /\ row'[j].status = "running"
    /\ row'[j].owner = p
    /\ ~Working(p)'

CompletedBy(p, j) ==
    /\ claim[p].job = j
    /\ Working(p)
    /\ HoldsLease(p)
    /\ row'[j].status = "done"

FailedBy(p, j) ==
    /\ claim[p].job = j
    /\ Working(p)
    /\ ~Working(p)'
    /\ HoldsLease(p)
    /\ row'[j].attempt = row[j].attempt
    /\ row'[j].status = IF MayRetry(claim[p].att) THEN "retry_scheduled" ELSE "failed"

RequeuedBy(o, j) ==
    /\ Requeueable(j, op[o].now)
    /\ row'[j].status = "queued"
    /\ AloneWithKey(j)

DeletedRow(j) == row[j].status \in ClosedStatus /\ row'[j].status = "pruned"

CancelledRow(j) == IsActive(j) /\ row'[j].status = "cancelled"

RowEffect(j) ==
    \/ row'[j] = row[j]
    \/ Inserted(j)
    \/ \E p \in Proc : ClaimedBy(p, j) \/ CompletedBy(p, j) \/ FailedBy(p, j)
    \/ \E o \in Operator : RequeuedBy(o, j)
    \/ DeletedRow(j)
    \/ CancelledRow(j)

WorkersKeep ==
    /\ clock' = clock
    /\ \A q \in Proc : Working(q)' => Working(q) /\ claim'[q] = claim[q]

LEMMA RowStepFrame == TypeOK /\ RowStep => WorkersKeep
<1> SUFFICES ASSUME TypeOK, RowStep PROVE WorkersKeep
  OBVIOUS
<1>0. /\ pc \in [Proc -> {"idle", "seed", "cooldown", "insert", "claim",
                          "cas", "reread", "run", "complete", "fail",
                          "retention"}]
      /\ claim \in [Proc -> ClaimType]
  BY DEF TypeOK
<1>1. ASSUME NEW p \in Proc, SeedInsert(p) PROVE WorkersKeep
  BY <1>0, <1>1 DEF SeedInsert, WorkersKeep, Working
<1>2. ASSUME NEW p \in Proc, ClaimCas(p) PROVE WorkersKeep
  BY <1>0, <1>2 DEF ClaimCas, WorkersKeep, Working
<1>3. ASSUME NEW p \in Proc, CompleteJob(p) PROVE WorkersKeep
  BY <1>0, <1>3 DEF CompleteJob, WorkersKeep, Working
<1>4. ASSUME NEW p \in Proc, FailJob(p) PROVE WorkersKeep
  BY <1>0, <1>4 DEF FailJob, WorkersKeep, Working
<1>5. ASSUME NEW p \in Proc, FinishTick(p) PROVE WorkersKeep
  BY <1>0, <1>5 DEF FinishTick, EndTick, WorkersKeep, Working
<1>6. ASSUME NEW o \in Operator, RequeueApply(o) PROVE WorkersKeep
  BY <1>6 DEF RequeueApply, procVars, WorkersKeep, Working
<1>7. CASE CancelWorkflowJobs
  BY <1>7 DEF CancelWorkflowJobs, procVars, WorkersKeep, Working
<1> QED
  BY <1>1, <1>2, <1>3, <1>4, <1>5, <1>6, <1>7 DEF RowStep

LEMMA RowEffects ==
  ASSUME TypeOK, RowStep, NEW j \in Job
  PROVE  RowEffect(j)
<1>0. /\ clock \in Nat
      /\ row \in [Job -> RowType]
      /\ pc \in [Proc -> {"idle", "seed", "cooldown", "insert", "claim",
                          "cas", "reread", "run", "complete", "fail",
                          "retention"}]
      /\ \A p \in Proc : claim[p].job \in Job
      /\ \A i \in Job : row[i] \in RowType
  BY DEF TypeOK, ClaimType
<1>1. ASSUME NEW p \in Proc, SeedInsert(p) PROVE RowEffect(j)
  <2>1. PICK n \in Unused(key[p]) : row' = [row EXCEPT ![n] = NewRow]
    BY <1>1 DEF SeedInsert
  <2>2. n \in Job /\ KeyOf[n] = key[p] /\ row[n].status = "absent"
    BY <2>1 DEF Unused
  <2>3. NewRow.status = "queued"
    BY DEF NewRow, NoRow
  <2>4. \A i \in Job \ {n} : row'[i] = row[i]
    BY <1>0, <2>1
  <2>5. \A i \in Job : KeyOf[i] = KeyOf[n] => ~IsActive(i)
    BY <1>1, <2>2 DEF SeedInsert, IndexAdmits, ActiveWithKey
  <2>6. row'[n] = NewRow
    BY <1>0, <2>1, <2>2
  <2> QED
    BY <2>2, <2>3, <2>4, <2>5, <2>6 DEF RowEffect, Inserted, AloneWithKey
<1>2. ASSUME NEW p \in Proc, ClaimCas(p) PROVE RowEffect(j)
  <2>1. CASE row'[j] = row[j]
    BY <2>1 DEF RowEffect
  <2>2. CASE row'[j] # row[j]
    <3>1. MayClaim(claim[p].job, claim[p].seen) /\ pc' = [pc EXCEPT ![p] = "reread"]
      BY <1>2, <2>2 DEF ClaimCas
    <3>2. PICK t \in claim[p].seen..clock :
             row' = [row EXCEPT ![claim[p].job] =
                       Claimed(row[claim[p].job], p, t + LeaseLen, claim[p].seen)]
      BY <1>2, <3>1 DEF ClaimCas
    <3>3. j = claim[p].job
      BY <1>0, <2>2, <3>2
    <3>4. row'[j] = Claimed(row[j], p, t + LeaseLen, claim[p].seen)
      BY <1>0, <3>2, <3>3
    <3>5. row'[j].status = "running" /\ row'[j].owner = p
      BY <1>0, <3>4 DEF Claimed, RowType
    <3>6. ~Working(p)'
      BY <1>0, <3>1 DEF Working
    <3> QED
      BY <3>1, <3>3, <3>5, <3>6 DEF RowEffect, ClaimedBy
  <2> QED
    BY <2>1, <2>2
<1>3. ASSUME NEW p \in Proc, CompleteJob(p) PROVE RowEffect(j)
  <2>1. CASE row'[j] = row[j]
    BY <2>1 DEF RowEffect
  <2>2. CASE row'[j] # row[j]
    <3>1. /\ HoldsLease(p)
          /\ row' = [row EXCEPT ![claim[p].job] = Completed(row[claim[p].job])]
      BY <1>3, <2>2 DEF CompleteJob
    <3>2. j = claim[p].job /\ row'[j] = Completed(row[j])
      BY <1>0, <2>2, <3>1
    <3>3. row'[j].status = "done"
      BY <1>0, <3>2 DEF Completed, RowType
    <3>4. Working(p)
      BY <1>3 DEF CompleteJob, Working
    <3> QED
      BY <3>1, <3>2, <3>3, <3>4 DEF RowEffect, CompletedBy
  <2> QED
    BY <2>1, <2>2
<1>4. ASSUME NEW p \in Proc, FailJob(p) PROVE RowEffect(j)
  <2>1. CASE row'[j] = row[j]
    BY <2>1 DEF RowEffect
  <2>2. CASE row'[j] # row[j]
    <3>1. /\ HoldsLease(p)
          /\ row' = [row EXCEPT ![claim[p].job] =
                       Failed(row[claim[p].job], claim[p].att)]
      BY <1>4, <2>2 DEF FailJob
    <3>2. j = claim[p].job /\ row'[j] = Failed(row[j], claim[p].att)
      BY <1>0, <2>2, <3>1
    <3>3. /\ row'[j].attempt = row[j].attempt
          /\ row'[j].status = IF MayRetry(claim[p].att) THEN "retry_scheduled"
                                                        ELSE "failed"
      BY <1>0, <3>2 DEF Failed, RowType
    <3>4. Working(p) /\ ~Working(p)'
      BY <1>0, <1>4 DEF FailJob, Working
    <3> QED
      BY <3>1, <3>2, <3>3, <3>4 DEF RowEffect, FailedBy
  <2> QED
    BY <2>1, <2>2
<1>5. ASSUME NEW p \in Proc, FinishTick(p) PROVE RowEffect(j)
  <2>1. CASE row'[j] = row[j]
    BY <2>1 DEF RowEffect
  <2>2. CASE row'[j] # row[j]
    <3>1. Pruned(j) /\ row'[j] = Deleted(row[j])
      BY <1>5, <2>2 DEF FinishTick
    <3>2. row'[j].status = "pruned"
      BY <1>0, <3>1 DEF Deleted, RowType
    <3> QED
      BY <3>1, <3>2 DEF RowEffect, DeletedRow, Pruned
  <2> QED
    BY <2>1, <2>2
<1>6. ASSUME NEW o \in Operator, RequeueApply(o) PROVE RowEffect(j)
  <2>1. CASE row'[j] = row[j]
    BY <2>1 DEF RowEffect
  <2>2. CASE row'[j] # row[j]
    <3>0. op[o].job \in Job
      BY DEF TypeOK, PreviewType
    <3>1. Requeueable(op[o].job, op[o].now) /\ OtherActive(op[o].job) = {}
      BY <1>6, <2>2 DEF RequeueApply
    <3>2. PICK reset \in 0..MaxAttempts :
            row' = [row EXCEPT ![op[o].job] =
                      Requeued(row[op[o].job], reset, op[o].now)]
      BY <1>6, <3>1 DEF RequeueApply
    <3>3. j = op[o].job /\ row'[j] = Requeued(row[j], reset, op[o].now)
      BY <1>0, <2>2, <3>0, <3>2
    <3>4. row'[j].status = "queued"
      BY <1>0, <3>3 DEF Requeued, RowType
    <3>5. \A i \in Job \ {j} : row'[i] = row[i]
      BY <1>0, <3>2, <3>3
    <3>6. \A i \in Job \ {j} : KeyOf[i] = KeyOf[j] => ~IsActive(i)
      BY <3>1, <3>3 DEF OtherActive, ActiveWithKey
    <3> QED
      BY <3>1, <3>3, <3>4, <3>5, <3>6 DEF RowEffect, RequeuedBy, AloneWithKey
  <2> QED
    BY <2>1, <2>2
<1>7. CASE CancelWorkflowJobs
  <2>1. CASE row'[j] = row[j]
    BY <2>1 DEF RowEffect
  <2>2. CASE row'[j] # row[j]
    <3>1. IsActive(j) /\ row'[j] = Cancelled(row[j])
      BY <1>7, <2>2 DEF CancelWorkflowJobs
    <3>2. row'[j].status = "cancelled"
      BY <1>0, <3>1 DEF Cancelled, RowType
    <3> QED
      BY <3>1, <3>2 DEF RowEffect, CancelledRow
  <2> QED
    BY <2>1, <2>2
<1> QED
  BY <1>1, <1>2, <1>3, <1>4, <1>5, <1>6, <1>7 DEF RowStep

-----------------------------------------------------------------------------
(* The parts of the invariant, one by one.                                 *)

LEMMA PastStep ==
  ASSUME TypeOK, PastInstants, Moves
  PROVE  PastInstants'
<1>0. /\ clock \in Nat
      /\ claim \in [Proc -> ClaimType]
      /\ op \in [Operator -> PreviewType]
      /\ \A p \in Proc : claim[p].seen \in Nat
      /\ \A o \in Operator : op[o].now \in Nat
      /\ NoClaim.seen = 0 /\ NoPreview.now = 0
  BY DEF TypeOK, ClaimType, PreviewType, NoClaim, NoPreview
<1>1. ASSUME NEW p \in Proc, TickStep(p) PROVE PastInstants'
  <2>1. UNCHANGED <<clock, op>>
    BY <1>1 DEF TickStep, StartTick, SeedCheck, SeedCooldown, SeedInsert,
       SeedInsertFails, SeedDone, ClaimSelect, ClaimStops, ClaimCas,
       ClaimReread, RunJob, CompleteJob, FailJob, FinishTick
  <2>2. CASE UNCHANGED claim
    BY <2>1, <2>2 DEF PastInstants
  <2>3. CASE claim' = [claim EXCEPT ![p] = NoClaim]
    BY <1>0, <2>1, <2>3 DEF PastInstants
  <2>4. CASE ClaimSelect(p)
    <3>1. PICK j \in Job : claim' = [claim EXCEPT ![p] =
                            [NoClaim EXCEPT !.job = j, !.seen = clock]]
      BY <2>4 DEF ClaimSelect, First, Due
    <3>2. claim'[p].seen = clock
      BY <1>0, <3>1 DEF NoClaim
    <3>3. \A q \in Proc \ {p} : claim'[q] = claim[q]
      BY <1>0, <3>1
    <3> QED
      BY <1>0, <2>1, <3>2, <3>3 DEF PastInstants
  <2>5. CASE ClaimReread(p)
    <3>1. \A q \in Proc : claim'[q].seen = claim[q].seen
      BY <1>0, <2>5 DEF ClaimReread, ClaimType
    <3> QED
      BY <2>1, <3>1 DEF PastInstants
  <2> QED
    BY <1>1, <2>2, <2>3, <2>4, <2>5
       DEF TickStep, StartTick, SeedCheck, SeedCooldown, SeedInsert,
       SeedInsertFails, SeedDone, ClaimStops, ClaimCas,
       RunJob, CompleteJob, FailJob, FinishTick, EndTick
<1>2. ASSUME NEW p \in Proc, Dies(p) PROVE PastInstants'
  BY <1>0, <1>2 DEF Dies, EndTick, PastInstants
<1>3. ASSUME NEW o \in Operator, OperatorStep(o) PROVE PastInstants'
  <2>1. ASSUME NEW j \in Job, RequeuePreview(o, j) PROVE PastInstants'
    BY <1>0, <2>1 DEF RequeuePreview, procVars, PastInstants
  <2>2. CASE RequeueApply(o)
    BY <1>0, <2>2 DEF RequeueApply, procVars, PastInstants
  <2> QED
    BY <1>3, <2>1, <2>2 DEF OperatorStep
<1>4. CASE CancelWorkflowJobs
  BY <1>4 DEF CancelWorkflowJobs, procVars, PastInstants
<1>5. CASE TimePasses
  BY <1>0, <1>5 DEF TimePasses, procVars, PastInstants
<1>6. CASE UNCHANGED vars
  BY <1>6 DEF vars, procVars, PastInstants
<1> QED
  BY <1>1, <1>2, <1>3, <1>4, <1>5, <1>6, CrashDies DEF Next, Moves

(* Rows change in row steps only. *)
LEMMA RowChange ==
  ASSUME TypeOK, Moves
  PROVE  UNCHANGED row \/ \A j \in Job : RowEffect(j)
  BY StepKinds, RowEffects
     DEF LocalStep, ClaimReread, TimePasses

LEMMA UniqueStep ==
  ASSUME TypeOK, UniqueActive, Moves
  PROVE  UniqueActive'
<1>1. CASE UNCHANGED row
  BY <1>1 DEF UniqueActive, IsActive
<1>2. CASE \A j \in Job : RowEffect(j)
  <2>1. ASSUME NEW j \in Job, IsActive(j)'
        PROVE  IsActive(j) \/ AloneWithKey(j)
    BY <1>2, <2>1 DEF RowEffect, Inserted, ClaimedBy, CompletedBy, FailedBy,
       RequeuedBy, DeletedRow, CancelledRow, IsActive, ActiveStatus, MayClaim,
       Claimable, HoldsLease
  <2>2. SUFFICES ASSUME NEW i \in Job, NEW j \in Job, KeyOf[i] = KeyOf[j],
                        IsActive(i)', IsActive(j)', i # j
                 PROVE  FALSE
    BY DEF UniqueActive
  <2>3. CASE AloneWithKey(i)
    BY <2>2, <2>3 DEF AloneWithKey, IsActive
  <2>4. CASE AloneWithKey(j)
    BY <2>2, <2>4 DEF AloneWithKey, IsActive
  <2> QED
    BY <2>1, <2>2, <2>3, <2>4 DEF UniqueActive
<1> QED
  BY <1>1, <1>2, RowChange

(* What a process that stays working sees of its row. *)
LEMMA OwnerStep ==
  ASSUME TypeOK, OwnerRemembers, Moves
  PROVE  OwnerRemembers'
<1>0. /\ row \in [Job -> RowType]
      /\ claim \in [Proc -> ClaimType]
      /\ pc \in [Proc -> {"idle", "seed", "cooldown", "insert", "claim",
                          "cas", "reread", "run", "complete", "fail",
                          "retention"}]
      /\ \A p \in Proc : claim[p].job \in Job
  BY DEF TypeOK, ClaimType
<1>1. CASE LocalStep
  BY <1>1 DEF LocalStep, OwnerRemembers
<1>2. CASE RowStep
  <2> SUFFICES ASSUME NEW p \in Proc, Working(p)',
                      row'[claim'[p].job].status = "running",
                      row'[claim'[p].job].owner = p
               PROVE  /\ claim'[p].att = row'[claim'[p].job].attempt
                      /\ claim'[p].held = row'[claim'[p].job].until
    BY DEF OwnerRemembers
  <2> DEFINE j == claim[p].job
  <2>1. Working(p) /\ claim'[p] = claim[p]
    BY <1>2, RowStepFrame DEF WorkersKeep
  <2>2. RowEffect(j)
    BY <1>0, <1>2, RowEffects
  <2>3. row'[j] = row[j]
    BY <2>1, <2>2 DEF RowEffect, Inserted, ClaimedBy, CompletedBy, FailedBy,
       RequeuedBy, DeletedRow, CancelledRow
  <2> QED
    BY <2>1, <2>3 DEF OwnerRemembers
<1>3. ASSUME NEW p \in Proc, ClaimReread(p) PROVE OwnerRemembers'
  <2> SUFFICES ASSUME NEW q \in Proc, Working(q)',
                      row'[claim'[q].job].status = "running",
                      row'[claim'[q].job].owner = q
               PROVE  /\ claim'[q].att = row'[claim'[q].job].attempt
                      /\ claim'[q].held = row'[claim'[q].job].until
    BY DEF OwnerRemembers
  <2>1. CASE q = p
    <3>1. pc'[p] # "retention"
      BY <2>1 DEF Working
    <3>2. claim' = [claim EXCEPT ![p].att = row[claim[p].job].attempt,
                                 ![p].held = row[claim[p].job].until]
      BY <1>0, <1>3, <3>1 DEF ClaimReread
    <3>3. /\ claim'[p].job = claim[p].job
          /\ claim'[p].att = row[claim[p].job].attempt
          /\ claim'[p].held = row[claim[p].job].until
      BY <1>0, <3>2 DEF ClaimType
    <3> QED
      BY <1>3, <2>1, <3>3 DEF ClaimReread
  <2>2. CASE q # p
    BY <1>0, <1>3, <2>2 DEF ClaimReread, Working, OwnerRemembers
  <2> QED
    BY <2>1, <2>2
<1>4. CASE TimePasses
  BY <1>4 DEF TimePasses, procVars, OwnerRemembers, Working
<1> QED
  BY <1>1, <1>2, <1>3, <1>4, StepKinds

LEMMA KeepsRowStep ==
  ASSUME TypeOK, PastInstants, OwnerRemembers, LeaseKeepsRow, Moves
  PROVE  LeaseKeepsRow'
<1>0. /\ clock \in Nat
      /\ claim \in [Proc -> ClaimType]
      /\ pc \in [Proc -> {"idle", "seed", "cooldown", "insert", "claim",
                          "cas", "reread", "run", "complete", "fail",
                          "retention"}]
      /\ \A p \in Proc : /\ claim[p].job \in Job
                         /\ claim[p].held \in Nat
                         /\ claim[p].seen \in Nat
                         /\ claim[p].seen <= clock
      /\ \A o \in Operator : op[o].now \in Nat /\ op[o].now <= clock
      /\ \A j \in Job : row[j].until \in Nat
  BY DEF TypeOK, ClaimType, PreviewType, RowType, PastInstants
<1>1. CASE LocalStep
  BY <1>1 DEF LocalStep, LeaseKeepsRow
<1>2. CASE RowStep
  <2> SUFFICES ASSUME NEW p \in Proc, Working(p)', claim'[p].held > clock'
               PROVE  LET r == row'[claim'[p].job] IN
                      \/ r.status = "running" /\ r.owner = p
                      \/ r.status \in {"done", "cancelled", "pruned"}
    BY DEF LeaseKeepsRow
  <2> DEFINE j == claim[p].job
  <2>1. Working(p) /\ claim'[p] = claim[p] /\ claim[p].held > clock
    BY <1>2, RowStepFrame DEF WorkersKeep
  <2>2. \/ row[j].status = "running" /\ row[j].owner = p
        \/ row[j].status \in {"done", "cancelled", "pruned"}
    BY <2>1 DEF LeaseKeepsRow
  <2>3. RowEffect(j)
    BY <1>0, <1>2, RowEffects
  <2>4. CASE row[j].status \in {"done", "cancelled", "pruned"}
    <3>1. row'[j].status \in {"done", "cancelled", "pruned"}
      BY <2>3, <2>4 DEF RowEffect, Inserted, ClaimedBy, CompletedBy, FailedBy,
         RequeuedBy, DeletedRow, CancelledRow, MayClaim, Claimable, HoldsLease,
         Requeueable, LeaseLapsed, IsActive, ActiveStatus
    <3> QED
      BY <2>1, <3>1
  <2>5. CASE row[j].status = "running" /\ row[j].owner = p
    <3>1. row[j].until > clock
      BY <2>1, <2>5 DEF OwnerRemembers
    <3>2. \A q \in Proc : ~ClaimedBy(q, j)
      BY <1>0, <2>5, <3>1 DEF ClaimedBy, MayClaim, Claimable
    <3>3. \A o \in Operator : ~RequeuedBy(o, j)
      BY <1>0, <2>5, <3>1 DEF RequeuedBy, Requeueable, LeaseLapsed
    <3>4. \A q \in Proc : ~FailedBy(q, j)
      BY <2>5 DEF FailedBy, HoldsLease
    <3>5. \/ row'[j] = row[j]
          \/ row'[j].status \in {"done", "cancelled", "pruned"}
      BY <2>3, <2>5, <3>2, <3>3, <3>4
         DEF RowEffect, Inserted, CompletedBy, DeletedRow, CancelledRow
    <3> QED
      BY <2>1, <2>5, <3>5
  <2> QED
    BY <2>2, <2>4, <2>5
<1>3. ASSUME NEW p \in Proc, ClaimReread(p) PROVE LeaseKeepsRow'
  <2> SUFFICES ASSUME NEW q \in Proc, Working(q)', claim'[q].held > clock'
               PROVE  LET r == row'[claim'[q].job] IN
                      \/ r.status = "running" /\ r.owner = q
                      \/ r.status \in {"done", "cancelled", "pruned"}
    BY DEF LeaseKeepsRow
  <2>1. CASE q = p
    <3>1. pc'[p] # "retention"
      BY <2>1 DEF Working
    <3>2. /\ row[claim[p].job].status = "running"
          /\ row[claim[p].job].owner = p
          /\ claim' = [claim EXCEPT ![p].att = row[claim[p].job].attempt,
                                    ![p].held = row[claim[p].job].until]
      BY <1>0, <1>3, <3>1 DEF ClaimReread
    <3>3. claim'[p].job = claim[p].job
      BY <1>0, <3>2 DEF ClaimType
    <3> QED
      BY <1>3, <2>1, <3>2, <3>3 DEF ClaimReread
  <2>2. CASE q # p
    BY <1>0, <1>3, <2>2 DEF ClaimReread, Working, LeaseKeepsRow
  <2> QED
    BY <2>1, <2>2
<1>4. CASE TimePasses
  BY <1>0, <1>4 DEF TimePasses, procVars, LeaseKeepsRow, Working
<1> QED
  BY <1>1, <1>2, <1>3, <1>4, StepKinds

(* A process starts to work only on a row it owns; another process with an *)
(* unexpired claim would own the same row.                                 *)
LEMMA ExclusionStep ==
  ASSUME TypeOK, LeaseKeepsRow, LeaseExclusion, Moves
  PROVE  LeaseExclusion'
<1>0. /\ clock \in Nat
      /\ claim \in [Proc -> ClaimType]
      /\ pc \in [Proc -> {"idle", "seed", "cooldown", "insert", "claim",
                          "cas", "reread", "run", "complete", "fail",
                          "retention"}]
      /\ \A p \in Proc : claim[p].held \in Nat
  BY DEF TypeOK, ClaimType
<1>1. CASE LocalStep
  BY <1>1 DEF LocalStep, LeaseExclusion
<1>2. CASE RowStep
  BY <1>2, RowStepFrame DEF WorkersKeep, LeaseExclusion
<1>3. ASSUME NEW p \in Proc, ClaimReread(p) PROVE LeaseExclusion'
  <2>1. /\ clock' = clock
        /\ \A q \in Proc \ {p} : claim'[q] = claim[q] /\ (Working(q)' <=> Working(q))
    BY <1>0, <1>3 DEF ClaimReread, Working
  <2>2. CASE ~Working(p)'
    BY <2>1, <2>2 DEF LeaseExclusion
  <2>3. CASE Working(p)'
    <3>1. /\ row[claim[p].job].status = "running"
          /\ row[claim[p].job].owner = p
          /\ claim'[p].job = claim[p].job
      BY <1>0, <1>3, <2>3 DEF ClaimReread, Working, ClaimType
    <3>2. ASSUME NEW q \in Proc \ {p}, Working(q), claim[q].job = claim[p].job
          PROVE  claim[q].held <= clock
      BY <1>0, <3>1, <3>2 DEF LeaseKeepsRow
    <3>3. ASSUME NEW q \in Proc \ {p}, Working(q)', claim'[q].job = claim'[p].job
          PROVE  claim'[q].held <= clock'
      BY <2>1, <3>1, <3>2, <3>3
    <3>4. ASSUME NEW q \in Proc, NEW r \in Proc, q # r, Working(q)', Working(r)',
                 claim'[q].job = claim'[r].job
          PROVE  claim'[q].held <= clock' \/ claim'[r].held <= clock'
      <4>1. CASE q = p
        BY <3>3, <3>4, <4>1
      <4>2. CASE r = p
        BY <3>3, <3>4, <4>2
      <4>3. CASE q # p /\ r # p
        BY <2>1, <3>4, <4>3 DEF LeaseExclusion
      <4> QED
        BY <4>1, <4>2, <4>3
    <3> QED
      BY <3>4 DEF LeaseExclusion
  <2> QED
    BY <2>2, <2>3
<1>4. CASE TimePasses
  BY <1>0, <1>4 DEF TimePasses, procVars, LeaseExclusion, Working
<1> QED
  BY <1>1, <1>2, <1>3, <1>4, StepKinds

LEMMA BudgetStep ==
  ASSUME TypeOK, OwnerRemembers, RetryBudget, Moves
  PROVE  RetryBudget'
<1>0. /\ \A j \in Job : row[j].attempt \in Nat
      /\ MaxAttempts \in Nat
  BY JobQueueAssumption DEF TypeOK, RowType
<1>1. CASE UNCHANGED row
  BY <1>1 DEF RetryBudget
<1>2. CASE \A j \in Job : RowEffect(j)
  <2> SUFFICES ASSUME NEW j \in Job
               PROVE /\ row'[j].status = "failed" => row'[j].attempt >= MaxAttempts
                     /\ row'[j].status = "retry_scheduled"
                        => row'[j].attempt < MaxAttempts
    BY DEF RetryBudget
  <2>1. CASE row'[j] = row[j]
    BY <2>1 DEF RetryBudget
  <2>2. ASSUME NEW p \in Proc, FailedBy(p, j)
        PROVE  /\ row'[j].status = "failed" => row'[j].attempt >= MaxAttempts
               /\ row'[j].status = "retry_scheduled"
                  => row'[j].attempt < MaxAttempts
    <3>1. claim[p].att = row[j].attempt /\ row'[j].attempt = row[j].attempt
      BY <2>2 DEF FailedBy, HoldsLease, OwnerRemembers
    <3> QED
      BY <1>0, <2>2, <3>1 DEF FailedBy, MayRetry
  <2>3. CASE row'[j].status \notin {"failed", "retry_scheduled"}
    BY <2>3
  <2> QED
    BY <1>2, <2>1, <2>2, <2>3
       DEF RowEffect, Inserted, ClaimedBy, CompletedBy, RequeuedBy, DeletedRow,
           CancelledRow
<1> QED
  BY <1>1, <1>2, RowChange

LEMMA InvInit == Init => QueueInv
<1> SUFFICES ASSUME Init PROVE QueueInv
  OBVIOUS
<1>1. TypeOK
  BY TypeInit
<1>2. \A p \in Proc : ~Working(p)
  BY DEF Init, Working
<1>3. \A j \in Job : row[j].status = "absent"
  BY DEF Init, NoRow
<1>4. PastInstants
  BY DEF Init, PastInstants, NoClaim, NoPreview
<1> QED
  BY <1>1, <1>2, <1>3, <1>4
     DEF QueueInv, UniqueActive, OwnerRemembers, LeaseKeepsRow, LeaseExclusion,
         RetryBudget, IsActive, ActiveStatus

LEMMA InvStep == QueueInv /\ Moves => QueueInv'
  BY TypeStep, PastStep, UniqueStep, OwnerStep, KeepsRowStep, ExclusionStep,
     BudgetStep DEF QueueInv

(* The invariant: the instants compared are past, active keys are unique,  *)
(* owners remember their claim, and an unexpired lease keeps the row.      *)
THEOREM Invariance == Spec => []QueueInv
<1>1. QueueInv /\ [Next]_vars => QueueInv'
  BY InvStep DEF Moves
<1> QED
  BY <1>1, InvInit, PTL DEF Spec

(* An unexpired lease excludes a second execution of the row.              *)
THEOREM Exclusion == Spec => []LeaseExclusion
<1>1. QueueInv => LeaseExclusion
  BY DEF QueueInv
<1> QED
  BY <1>1, Invariance, PTL

(* A row fails only with its attempts used up, and waits for a retry only  *)
(* while some are left.                                                    *)
THEOREM Budget == Spec => []RetryBudget
<1>1. QueueInv => RetryBudget
  BY DEF QueueInv
<1> QED
  BY <1>1, Invariance, PTL

(* A dedupe key has at most one active row.                                *)
THEOREM Dedupe == Spec => []ActiveDedupe
<1>1. ASSUME UniqueActive PROVE ActiveDedupe
  <2> SUFFICES ASSUME NEW k \in Key PROVE Cardinality(ActiveWithKey(k)) <= 1
    BY DEF ActiveDedupe
  <2>1. CASE ActiveWithKey(k) = {}
    BY <2>1, FS_EmptySet
  <2>2. CASE ActiveWithKey(k) # {}
    <3>1. PICK j \in ActiveWithKey(k) : TRUE
      BY <2>2
    <3>2. ActiveWithKey(k) = {j}
      BY <1>1, <3>1 DEF ActiveWithKey, UniqueActive
    <3>3. Cardinality({j}) = 1
      BY FS_Singleton
    <3> QED
      BY <3>2, <3>3
  <2> QED
    BY <2>1, <2>2
<1>2. QueueInv => ActiveDedupe
  BY <1>1 DEF QueueInv
<1> QED
  BY <1>2, Invariance, PTL

(* Completed and cancelled rows keep their outcome.                        *)
THEOREM Finality == Spec => OutcomeIsFinal
<1>1. TypeOK /\ [Next]_vars =>
        [\A j \in Job : row[j].status \in {"done", "cancelled"}
                       => row'[j].status \in {row[j].status, "pruned"}]_vars
  <2> SUFFICES ASSUME TypeOK, [Next]_vars, NEW j \in Job,
                      row[j].status \in {"done", "cancelled"}
               PROVE  row'[j].status \in {row[j].status, "pruned"}
    OBVIOUS
  <2>1. row' = row \/ RowEffect(j)
    BY RowChange DEF Moves
  <2> QED
    BY <2>1 DEF RowEffect, Inserted, ClaimedBy, CompletedBy, FailedBy,
       RequeuedBy, DeletedRow, CancelledRow, MayClaim, Claimable, HoldsLease,
       Requeueable, LeaseLapsed, IsActive, ActiveStatus
<1> QED
  BY <1>1, TypeCorrect, PTL DEF Spec, OutcomeIsFinal

(* A running row is taken from its owner only after its lease has expired. *)
THEOREM Respect == Spec => LeaseRespected
<1>1. QueueInv /\ [Next]_vars =>
        [\A j \in Job : Taken(j) => row[j].until <= clock]_vars
  <2> SUFFICES ASSUME QueueInv, [Next]_vars, NEW j \in Job, Taken(j)
               PROVE  row[j].until <= clock
    OBVIOUS
  <2>0. /\ TypeOK
        /\ clock \in Nat
        /\ row[j].until \in Nat
        /\ row[j].attempt \in Nat
        /\ \A p \in Proc : claim[p].seen \in Nat /\ claim[p].seen <= clock
        /\ \A o \in Operator : op[o].now \in Nat /\ op[o].now <= clock
    BY DEF QueueInv, TypeOK, RowType, ClaimType, PreviewType, PastInstants
  <2>1. row' = row \/ RowEffect(j)
    BY <2>0, RowChange DEF Moves
  <2>2. row'[j] # row[j] /\ row[j].status = "running"
    BY <2>0 DEF Taken
  <2>3. CASE \E p \in Proc : ClaimedBy(p, j)
    BY <2>0, <2>2, <2>3 DEF ClaimedBy, MayClaim, Claimable
  <2>4. CASE \E o \in Operator : RequeuedBy(o, j)
    BY <2>0, <2>2, <2>4 DEF RequeuedBy, Requeueable, LeaseLapsed
  <2> QED
    BY <2>1, <2>2, <2>3, <2>4
       DEF RowEffect, Inserted, CompletedBy, FailedBy, DeletedRow, CancelledRow,
           Taken, MayRetry
<1> QED
  BY <1>1, Invariance, PTL DEF Spec, LeaseRespected

=============================================================================
