------------------------------ MODULE JobQueue ------------------------------
(***************************************************************************)
(* The durable queue of the shared control loop: table control_loop_jobs   *)
(* and the handlers that read and write it.                                *)
(*                                                                         *)
(* Every sqlite() call of the code is one atomic statement, and a handler  *)
(* is a sequence of such calls run by one operating-system process, so the *)
(* steps of this module are the statements, and what a process read stays  *)
(* in its local variables until it uses it.  A process runs one tick at a  *)
(* time (control-loop-tick-actions.js, workflowControlLoopTick); the claim *)
(* owner of the code is unique per tick, and since a process that crashes  *)
(* forgets its tick, the process itself stands for the owner.              *)
(*                                                                         *)
(* The tick's file lease is NOT assumed to exclude other ticks (two that   *)
(* find the same stale lock may both take it, module TickLease), so any    *)
(* number of ticks overlap here.                                           *)
(*                                                                         *)
(* Abstracted: payloads, results, error texts and events; the body of a    *)
(* job, which succeeds or throws; the tick budget, which may end the claim *)
(* loop after any job.                                                     *)
(***************************************************************************)
EXTENDS Naturals, FiniteSets

CONSTANTS
    Job,          \* row identities (job_id); a row identity is used once
    Key,          \* dedupe keys
    KeyOf,        \* the dedupe_key of each row
    Prio,         \* the rank of each row's priority: 0 is flash
    WorkflowJobs, \* rows of the workflow a Human Gate button may stop
    Proc,         \* processes that run ticks
    Operator,     \* operators who requeue jobs
    NoProc,       \* the empty lease_owner
    MaxAttempts,  \* max_attempts
    JobLimit,     \* claims per tick
    LeaseLen,     \* controlLoopJobLeaseMs
    DelayStep,    \* retry delay of the first attempt
    DelayCap,     \* upper bound of the retry delay
    Cooldown,     \* cooldownMs of the enqueuing handlers; 0 means none
    Retention,    \* age after which a closed row is deleted
    MaxTime,      \* bound: last instant of the clock
    MaxCrashes,   \* bound: crashes in a behaviour
    MaxRequeues,  \* bound: requeues in a behaviour
    MaxMishaps    \* bound: crashes and requeues together

ASSUME JobQueueAssumption ==
    /\ Job # {}
    /\ KeyOf \in [Job -> Key]
    /\ Prio \in [Job -> Nat]
    /\ WorkflowJobs \subseteq Job
    /\ NoProc \notin Proc
    /\ MaxAttempts \in Nat \ {0}
    /\ JobLimit \in Nat \ {0}
    /\ LeaseLen \in Nat \ {0}
    /\ DelayStep \in Nat
    /\ DelayCap \in Nat
    /\ Cooldown \in Nat
    /\ Retention \in Nat
    /\ MaxTime \in Nat
    /\ MaxCrashes \in Nat
    /\ MaxRequeues \in Nat
    /\ MaxMishaps \in Nat

VARIABLES
    clock,     \* the wall clock all processes read
    row,       \* the table control_loop_jobs
    pc,        \* what each process is about to do
    want,      \* dedupe keys the tick's seeding still has to look at
    key,       \* the key of the enqueue in progress
    claim,     \* what each process remembers of the job it claims or runs
    count,     \* jobs claimed by this tick
    op,        \* operator requeues: the job and generatedAt of the preview
    crashes,
    requeues

procVars == <<pc, want, key, claim, count>>
boundVars == <<crashes, requeues>>
vars == <<clock, row, procVars, op, boundVars>>

-----------------------------------------------------------------------------
(* Rows *)

ActiveStatus == {"queued", "running", "retry_scheduled"}
ClosedStatus == {"done", "failed", "cancelled"}
RowStatus == ActiveStatus \cup ClosedStatus \cup {"absent", "pruned"}

RowType == [status : RowStatus, attempt : Nat, owner : Proc \cup {NoProc},
            until : Nat, nextRun : Nat, created : Nat, updated : Nat]

(* Faulty variants, here and below, are not part of the specification: put *)
(* in the place of the definition that follows, each makes the property it *)
(* names false.  This one, of TypeOK: an owner that is not the empty one.  *)
NoRowOwnedByNobody ==
    [status |-> "absent", attempt |-> 0, owner |-> "nobody", until |-> 0,
     nextRun |-> 0, created |-> 0, updated |-> 0]

NoRow == [status |-> "absent", attempt |-> 0, owner |-> NoProc, until |-> 0,
          nextRun |-> 0, created |-> 0, updated |-> 0]

IsActive(j) == row[j].status \in ActiveStatus

ActiveWithKey(k) == {j \in Job : KeyOf[j] = k /\ IsActive(j)}

Claimable == {"queued", "retry_scheduled"}

(* What a process knows of a job: "now" of its SELECT (seen), and attempt  *)
(* and lease_until as it re-read them after its UPDATE.                    *)
ClaimType == [job : Job, seen : Nat, att : Nat, held : Nat]

NoKey == CHOOSE k \in Key : TRUE

NoClaim == [job |-> CHOOSE j \in Job : TRUE, seen |-> 0, att |-> 0, held |-> 0]

PreviewType == [pc : {"idle", "previewed"}, job : Job, now : Nat]

NoPreview == [pc |-> "idle", job |-> CHOOSE j \in Job : TRUE, now |-> 0]

(* SELECT of claimControlLoopJobs: due rows, and running rows whose lease  *)
(* has expired.                                                            *)
DueUnlessRunning(now) ==    \* faulty for LoopSettlesJobs: no expired lease
    {j \in Job : row[j].status \in Claimable /\ row[j].nextRun <= now}

Due(now) ==
    {j \in Job : \/ /\ row[j].status \in Claimable
                    /\ row[j].nextRun <= now
                 \/ /\ row[j].status = "running"
                    /\ row[j].until <= now}

(* ORDER BY priority, created_at *)
Before(i, j) ==
    \/ Prio[i] < Prio[j]
    \/ Prio[i] = Prio[j] /\ row[i].created <= row[j].created

First(S) == {j \in S : \A i \in S : Before(j, i)}

RetryDelay(attempt) ==
    LET linear == DelayStep * (IF attempt = 0 THEN 1 ELSE attempt)
    IN  IF linear < DelayCap THEN linear ELSE DelayCap

-----------------------------------------------------------------------------
TypeOK ==
    /\ clock \in Nat
    /\ row \in [Job -> RowType]
    /\ pc \in [Proc -> {"idle", "seed", "cooldown", "insert", "claim", "cas",
                        "reread", "run", "complete", "fail", "retention"}]
    /\ want \in [Proc -> SUBSET Key]
    /\ key \in [Proc -> Key]
    /\ claim \in [Proc -> ClaimType]
    /\ count \in [Proc -> Nat]
    /\ op \in [Operator -> PreviewType]
    /\ crashes \in Nat
    /\ requeues \in Nat

Init ==
    /\ clock = 1
    /\ row = [j \in Job |-> NoRow]
    /\ pc = [p \in Proc |-> "idle"]
    /\ want = [p \in Proc |-> {}]
    /\ key = [p \in Proc |-> NoKey]
    /\ claim = [p \in Proc |-> NoClaim]
    /\ count = [p \in Proc |-> 0]
    /\ op = [o \in Operator |-> NoPreview]
    /\ crashes = 0
    /\ requeues = 0

-----------------------------------------------------------------------------
(* The tick: seeding.  Which keys it considers depends on the other        *)
(* tables (due schedules, queued dispatches, outbox), hence any set.       *)

EndTick(p) ==      \* a tick leaves nothing behind but the rows it wrote
    /\ pc' = [pc EXCEPT ![p] = "idle"]
    /\ want' = [want EXCEPT ![p] = {}]
    /\ key' = [key EXCEPT ![p] = NoKey]
    /\ claim' = [claim EXCEPT ![p] = NoClaim]
    /\ count' = [count EXCEPT ![p] = 0]

StartTick(p) ==
    /\ pc[p] = "idle"
    /\ pc' = [pc EXCEPT ![p] = "seed"]
    /\ \E S \in SUBSET Key : want' = [want EXCEPT ![p] = S]
    /\ UNCHANGED <<clock, row, key, claim, count, op, boundVars>>

(* enqueueControlLoopJob, first SELECT: an active row of the key dedupes.  *)
(* Bound: a key whose row identities are used up is not enqueued again.    *)
Unused(k) == {j \in Job : KeyOf[j] = k /\ row[j].status = "absent"}

SeedCheck(p, k) ==
    /\ pc[p] = "seed"
    /\ k \in want[p]
    /\ want' = [want EXCEPT ![p] = @ \ {k}]
    /\ key' = [key EXCEPT ![p] = k]
    /\ pc' = [pc EXCEPT ![p] =
                CASE ActiveWithKey(k) # {} \/ Unused(k) = {} -> "seed"
                  [] Cooldown > 0 -> "cooldown"
                  [] OTHER -> "insert"]
    /\ UNCHANGED <<clock, row, claim, count, op, boundVars>>

(* second SELECT: a closed row touched within the cooldown skips           *)
CoolingDown(k) ==
    \E j \in Job : /\ KeyOf[j] = k
                   /\ row[j].status \in ClosedStatus
                   /\ row[j].updated + Cooldown >= clock

SeedCooldown(p) ==
    /\ pc[p] = "cooldown"
    /\ pc' = [pc EXCEPT ![p] = IF CoolingDown(key[p]) THEN "seed" ELSE "insert"]
    /\ UNCHANGED <<clock, row, want, key, claim, count, op, boundVars>>

(* INSERT.  The partial unique index on dedupe_key over active rows makes  *)
(* the statement fail when another tick inserted first; the exception ends *)
(* the tick as failed.                                                     *)
NoIndex(k) == TRUE          \* faulty for ActiveDedupe: an INSERT always succeeds

IndexAdmits(k) == ActiveWithKey(k) = {}

NewRow == [NoRow EXCEPT !.status = "queued", !.nextRun = clock,
                        !.created = clock, !.updated = clock]

SeedInsert(p) ==
    /\ pc[p] = "insert"
    /\ IndexAdmits(key[p])
    /\ \E j \in Unused(key[p]) :
         row' = [row EXCEPT ![j] = NewRow]
    /\ pc' = [pc EXCEPT ![p] = "seed"]
    /\ UNCHANGED <<clock, want, key, claim, count, op, boundVars>>

SeedInsertFails(p) ==
    /\ pc[p] = "insert"
    /\ ~IndexAdmits(key[p]) \/ Unused(key[p]) = {}
    /\ EndTick(p)
    /\ UNCHANGED <<clock, row, op, boundVars>>

SeedDone(p) ==
    /\ pc[p] = "seed"
    /\ want[p] = {}
    /\ pc' = [pc EXCEPT ![p] = "claim"]
    /\ UNCHANGED <<clock, row, want, key, claim, count, op, boundVars>>

-----------------------------------------------------------------------------
(* The tick: claim, run, settle.                                           *)

ClaimSelect(p) ==
    /\ pc[p] = "claim"
    /\ count[p] < JobLimit
    /\ \E j \in First(Due(clock)) :
         claim' = [claim EXCEPT ![p] = [NoClaim EXCEPT !.job = j, !.seen = clock]]
    /\ pc' = [pc EXCEPT ![p] = "cas"]
    /\ UNCHANGED <<clock, row, want, key, count, op, boundVars>>

(* Nothing due, the job limit reached, or the budget used up: it is taken  *)
(* to last for one job at least.                                           *)
ClaimStops(p) ==
    /\ pc[p] = "claim"
    /\ Due(clock) = {} \/ count[p] > 0
    /\ pc' = [pc EXCEPT ![p] = "retention"]
    /\ UNCHANGED <<clock, row, want, key, claim, count, op, boundVars>>

(* The conditional UPDATE: it compares the lease with the "now" of the     *)
(* SELECT and looks neither at next_run_at nor at max_attempts again.      *)
MayClaimActive(j, now) ==   \* faulty for LeaseExclusion: any active row
    IsActive(j)

MayClaim(j, now) ==
    \/ row[j].status \in Claimable
    \/ row[j].status = "running" /\ row[j].until <= now

(* Faulty for ImplementsLeasedTasks: a lapsed row is not counted again.    *)
ClaimedUncounted(r, p, until, now) ==
    [r EXCEPT !.status = "running", !.owner = p, !.until = until, !.updated = now,
              !.attempt = IF r.status = "running" THEN r.attempt ELSE r.attempt + 1]

Claimed(r, p, until, now) ==
    [r EXCEPT !.status = "running", !.attempt = r.attempt + 1, !.owner = p,
              !.until = until, !.updated = now]

(* Its lease_until was computed at some instant after the SELECT.          *)
ClaimCas(p) ==
    /\ pc[p] = "cas"
    /\ LET c == claim[p] IN
       IF MayClaim(c.job, c.seen)
       THEN /\ \E t \in c.seen..clock :
                 row' = [row EXCEPT ![c.job] =
                           Claimed(row[c.job], p, t + LeaseLen, c.seen)]
            /\ pc' = [pc EXCEPT ![p] = "reread"]
       ELSE /\ pc' = [pc EXCEPT ![p] = "retention"]
            /\ UNCHANGED row
    /\ UNCHANGED <<clock, want, key, claim, count, op, boundVars>>

(* SELECT of the claimed row; another process may have taken it since.     *)
ClaimReread(p) ==
    /\ pc[p] = "reread"
    /\ LET r == row[claim[p].job] IN
       IF r.status = "running" /\ r.owner = p
       THEN /\ claim' = [claim EXCEPT ![p].att = r.attempt,
                                      ![p].held = r.until]
            /\ count' = [count EXCEPT ![p] = @ + 1]
            /\ pc' = [pc EXCEPT ![p] = "run"]
       ELSE /\ pc' = [pc EXCEPT ![p] = "retention"]
            /\ UNCHANGED <<claim, count>>
    /\ UNCHANGED <<clock, row, want, key, op, boundVars>>

(* runControlLoopJob returns, or it throws: an unknown job type, a failed  *)
(* handler.                                                                *)
RunJob(p) ==
    /\ pc[p] = "run"
    /\ \E result \in {"complete", "fail"} : pc' = [pc EXCEPT ![p] = result]
    /\ UNCHANGED <<clock, row, want, key, claim, count, op, boundVars>>

(* The fence of both settling statements.                                  *)
OwnsRow(p) ==               \* faulty for OutcomeIsFinal: whatever its status
    LET r == row[claim[p].job] IN
    /\ r.owner = p
    /\ r.until = claim[p].held

HoldsLease(p) ==
    LET r == row[claim[p].job] IN
    /\ r.status = "running"
    /\ r.owner = p
    /\ r.until = claim[p].held

Completed(r) ==
    [r EXCEPT !.status = "done", !.owner = NoProc, !.until = 0,
              !.updated = clock]

(* Appending the event job_completed may throw after the UPDATE; the       *)
(* exception is handled as a failure of the job.                           *)
CompleteJob(p) ==
    /\ pc[p] = "complete"
    /\ row' = IF HoldsLease(p)
              THEN [row EXCEPT ![claim[p].job] = Completed(row[claim[p].job])]
              ELSE row
    /\ \/ /\ pc' = [pc EXCEPT ![p] = "claim"]
          /\ claim' = [claim EXCEPT ![p] = NoClaim]
       \/ /\ pc' = [pc EXCEPT ![p] = "fail"]
          /\ UNCHANGED claim
    /\ UNCHANGED <<clock, want, key, count, op, boundVars>>

MayRetryOnceMore(attempt) == \* faulty for RetryBudget: one attempt too many
    attempt <= MaxAttempts

MayRetry(attempt) == attempt < MaxAttempts

Failed(r, attempt) ==
    [r EXCEPT !.status = IF MayRetry(attempt) THEN "retry_scheduled"
                                              ELSE "failed",
              !.nextRun = IF MayRetry(attempt) THEN clock + RetryDelay(attempt)
                                               ELSE 0,
              !.owner = NoProc, !.until = 0, !.updated = clock]

FailJob(p) ==
    /\ pc[p] = "fail"
    /\ row' = IF HoldsLease(p)
              THEN [row EXCEPT ![claim[p].job] =
                      Failed(row[claim[p].job], claim[p].att)]
              ELSE row
    /\ pc' = [pc EXCEPT ![p] = "claim"]
    /\ claim' = [claim EXCEPT ![p] = NoClaim]
    /\ UNCHANGED <<clock, want, key, count, op, boundVars>>

(* maybeRunWorkflowRetention and the end of the tick: when the retention   *)
(* interval has passed, closed rows older than the cutoff are deleted.     *)
Pruned(j) ==
    /\ row[j].status \in ClosedStatus
    /\ row[j].created + Retention < clock

Deleted(r) == [r EXCEPT !.status = "pruned"]

FinishTick(p) ==
    /\ pc[p] = "retention"
    /\ \/ row' = [j \in Job |-> IF Pruned(j) THEN Deleted(row[j]) ELSE row[j]]
       \/ UNCHANGED row
    /\ EndTick(p)
    /\ UNCHANGED <<clock, op, boundVars>>

(* The process dies between two statements, or a statement outside the     *)
(* job's try block throws and ends the tick; what was written stays.       *)
Crash(p) ==
    /\ pc[p] # "idle"
    /\ crashes < MaxCrashes /\ crashes + requeues < MaxMishaps
    /\ crashes' = crashes + 1
    /\ EndTick(p)
    /\ UNCHANGED <<clock, row, op, requeues>>

-----------------------------------------------------------------------------
(* workflow.control_loop.job.requeue: the preview reads the row and the    *)
(* conflicting rows, the execution is one conditional UPDATE.              *)

IsRunning(j, now) ==        \* faulty for LeaseRespected: any running row
    row[j].status = "running"

LeaseLapsed(j, now) ==
    row[j].status = "running" /\ row[j].until > 0 /\ row[j].until <= now

Requeueable(j, now) == row[j].status = "failed" \/ LeaseLapsed(j, now)

OtherActive(j) == ActiveWithKey(KeyOf[j]) \ {j}

RequeuePreview(o, j) ==
    /\ op[o].pc = "idle"
    /\ requeues < MaxRequeues /\ crashes + requeues < MaxMishaps
    /\ Requeueable(j, clock)
    /\ OtherActive(j) = {}
    /\ op' = [op EXCEPT ![o] = [pc |-> "previewed", job |-> j, now |-> clock]]
    /\ requeues' = requeues + 1
    /\ UNCHANGED <<clock, row, procVars, crashes>>

Requeued(r, reset, now) ==
    [r EXCEPT !.status = "queued", !.attempt = reset, !.nextRun = now,
              !.owner = NoProc, !.until = 0, !.updated = clock]

RequeueApply(o) ==
    /\ op[o].pc = "previewed"
    /\ LET j == op[o].job IN
       IF Requeueable(j, op[o].now) /\ OtherActive(j) = {}
       THEN \E reset \in 0..MaxAttempts :
              row' = [row EXCEPT ![j] = Requeued(row[j], reset, op[o].now)]
       ELSE UNCHANGED row          \* "lost race or became ineligible"
    /\ op' = [op EXCEPT ![o] = NoPreview]
    /\ UNCHANGED <<clock, procVars, boundVars>>

(* applyHumanGateWorkflowDecision, the pause and terminate buttons: every active   *)
(* row of the workflow is cancelled; the lease columns keep their values.  *)
Cancelled(r) == [r EXCEPT !.status = "cancelled", !.updated = clock]

CancelWorkflowJobs ==
    /\ \E j \in WorkflowJobs : IsActive(j)
    /\ row' = [j \in Job |->
                 IF j \in WorkflowJobs /\ IsActive(j)
                 THEN Cancelled(row[j])
                 ELSE row[j]]
    /\ UNCHANGED <<clock, procVars, op, boundVars>>

TimePasses ==
    /\ clock < MaxTime
    /\ clock' = clock + 1
    /\ UNCHANGED <<row, procVars, op, boundVars>>

-----------------------------------------------------------------------------
TickStep(p) ==
    \/ StartTick(p)
    \/ \E k \in Key : SeedCheck(p, k)
    \/ SeedCooldown(p)
    \/ SeedInsert(p)
    \/ SeedInsertFails(p)
    \/ SeedDone(p)
    \/ ClaimSelect(p)
    \/ ClaimStops(p)
    \/ ClaimCas(p)
    \/ ClaimReread(p)
    \/ RunJob(p)
    \/ CompleteJob(p)
    \/ FailJob(p)
    \/ FinishTick(p)

OperatorStep(o) ==
    \/ \E j \in Job : RequeuePreview(o, j)
    \/ RequeueApply(o)

Next ==
    \/ \E p \in Proc : TickStep(p)
    \/ \E p \in Proc : Crash(p)
    \/ \E o \in Operator : OperatorStep(o)
    \/ CancelWorkflowJobs
    \/ TimePasses

Spec == Init /\ [][Next]_vars

(* The run about progress (ControlLoop) lets time pass only while nothing  *)
(* is due and no process has a row in its hands: statements and jobs take  *)
(* no time, and some row waits for its retry or for the end of a lease.    *)
Waits(j) ==
    \/ row[j].status = "retry_scheduled" /\ row[j].nextRun > clock
    \/ row[j].status = "running" /\ row[j].until > clock

QuietTime ==
    /\ \A p \in Proc : pc[p] \notin {"cas", "reread", "run", "complete", "fail"}
    /\ Due(clock) = {}
    /\ \E j \in Job : Waits(j)
    /\ TimePasses

-----------------------------------------------------------------------------
(* A process that has re-read its claim and not yet settled it. *)
Working(p) == pc[p] \in {"run", "complete", "fail"}

(* At most one row of a dedupe key is active, whatever the interleaving of *)
(* the check, the cooldown check and the INSERT of overlapping ticks with  *)
(* operators who make failed rows active again (enqueueControlLoopJob,     *)
(* workflowControlLoopJobRequeue and the partial unique index).            *)
ActiveDedupe == \A k \in Key : Cardinality(ActiveWithKey(k)) <= 1

(* Two processes execute the same row at once only after the lease of one  *)
(* of them has expired: the per-job lease excludes a second execution as   *)
(* long as the worker can still be alive, even when ticks overlap          *)
(* (claimControlLoopJobs, completeControlLoopJob, failControlLoopJob).     *)
LeaseExclusion ==
    \A p, q \in Proc :
        /\ p # q
        /\ Working(p)
        /\ Working(q)
        /\ claim[p].job = claim[q].job
        => claim[p].held <= clock \/ claim[q].held <= clock

(* A row fails only with its attempts used up and is scheduled for a retry *)
(* only while some are left, although the attempt compared is the one the  *)
(* process re-read long before (failControlLoopJob).                       *)
RetryBudget ==
    \A j \in Job :
        /\ row[j].status = "failed" => row[j].attempt >= MaxAttempts
        /\ row[j].status = "retry_scheduled" => row[j].attempt < MaxAttempts

Taken(j) ==
    /\ row[j].status = "running"
    /\ \/ row'[j].status = "queued"
       \/ row'[j].status = "running" /\ row'[j].attempt > row[j].attempt

(* A running row is taken from its owner, by another claim or by an        *)
(* operator's requeue, only when its lease has expired at that moment,     *)
(* although both compare it with an instant they read earlier.             *)
LeaseRespected == [][\A j \in Job : Taken(j) => row[j].until <= clock]_vars

(* A row that was completed, or that a Human Gate button cancelled, never  *)
(* becomes active or changes its outcome again, even when the process that *)
(* runs it finishes later, its attempt fails, or an operator requeues it.  *)
OutcomeIsFinal ==
    [][\A j \in Job :
          row[j].status \in {"done", "cancelled"}
          => row'[j].status \in {row[j].status, "pruned"}]_vars

(* Every active row is settled in the end, although ticks overlap, lose    *)
(* races and crash while they hold it, and attempts fail.                  *)
JobsSettle == \A j \in Job : IsActive(j) ~> ~IsActive(j)
-----------------------------------------------------------------------------
(* The inductive invariant behind the theorems of JobQueueProofs.          *)

(* What a process or an operator compares with a lease is in the past.     *)
PastInstants ==
    /\ \A p \in Proc : claim[p].seen <= clock
    /\ \A o \in Operator : op[o].now <= clock

UniqueActive ==
    \A i, j \in Job : KeyOf[i] = KeyOf[j] /\ IsActive(i) /\ IsActive(j) => i = j

(* A working process that still owns its running row remembers its claim:  *)
(* nobody claimed the row, or requeued it, in between.                     *)
OwnerRemembers ==
    \A p \in Proc :
        LET r == row[claim[p].job] IN
        Working(p) /\ r.status = "running" /\ r.owner = p
        => claim[p].att = r.attempt /\ claim[p].held = r.until

(* While its lease lasts, a working process owns its running row, or the   *)
(* row has an outcome that is final.                                       *)
LeaseKeepsRow ==
    \A p \in Proc :
        LET r == row[claim[p].job] IN
        Working(p) /\ claim[p].held > clock
        => \/ r.status = "running" /\ r.owner = p
           \/ r.status \in {"done", "cancelled", "pruned"}

QueueInv ==
    /\ TypeOK
    /\ PastInstants
    /\ UniqueActive
    /\ OwnerRemembers
    /\ LeaseKeepsRow
    /\ LeaseExclusion
    /\ RetryBudget
=============================================================================
