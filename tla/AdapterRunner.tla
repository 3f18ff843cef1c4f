---------------------------- MODULE AdapterRunner ----------------------------
(***************************************************************************)
(* Adapter jobs: workflow.v2.worker_adapter_job.record makes one for the   *)
(* current attempt of a leased worker; a runner claims it, runs it, may    *)
(* extend its lease, and hands it back or returns the worker's result.     *)
(*                                                                         *)
(* A runner is a drain (workflowV2AdapterRunnerDrain), which presents the  *)
(* instant of its claim in every call, or a pull runner that makes each    *)
(* call with its own clock: any instant since the claim covers both.       *)
(* Runner ids are taken to be distinct.  Bound: a drain claims one job.    *)
(***************************************************************************)
EXTENDS WorkerResult

(* workflowV2WorkerAdapterJobRecord.  Nothing but this handler writes the  *)
(* worker's payload while its lease lasts, and a second record of the same *)
(* attempt fails at the INSERT: the comparison of payload_json adds        *)
(* nothing to the lease.                                                   *)
StartRecord(c, w) ==
    /\ At(c, "idle")
    /\ w \notin Local
    /\ worker[w].status = "running"
    /\ worker[w].until > clock
    /\ session[w] = "running"
    /\ job[<<w, worker[w].attempt>>].status = "absent"
    /\ Become(c, [Idle EXCEPT !.pc = "insert", !.now = clock, !.w = w,
                              !.attempt = worker[w].attempt,
                              !.held = worker[w]])
    /\ UNCHANGED <<clock, tables, bounds>>

InsertJob(c) ==         \* the unique index on worker and attempt
    /\ At(c, "insert")
    /\ LET j == <<at[c].w, at[c].attempt>> IN
       IF job[j].status = "absent"
       THEN /\ job' = [job EXCEPT ![j] = [NoJob EXCEPT !.status = "queued"]]
            /\ Goto(c, "bind")
       ELSE Stop(c) /\ UNCHANGED job
    /\ UNCHANGED <<clock, plan, worker, session, review, bounds>>

BindJob(c) ==
    /\ At(c, "bind")
    /\ IF MaySettle(c) THEN Stop(c) ELSE Goto(c, "delete")
    /\ UNCHANGED <<clock, tables, bounds>>

DeleteJob(c) ==         \* whoever has claimed it meanwhile
    /\ At(c, "delete")
    /\ job' = [job EXCEPT ![<<at[c].w, at[c].attempt>>] = NoJob]
    /\ Stop(c)
    /\ UNCHANGED <<clock, plan, worker, session, review, bounds>>

RecordStep(c) ==
    \/ \E w \in Worker : StartRecord(c, w)
    \/ InsertJob(c) \/ BindJob(c) \/ DeleteJob(c)

-----------------------------------------------------------------------------
(* workflowV2WorkerAdapterJobClaim                                         *)

StartDrain(r) ==
    /\ At(r, "idle")
    /\ Become(r, [Idle EXCEPT !.pc = "expire", !.now = clock])
    /\ UNCHANGED <<clock, tables, bounds>>

(* workflowV2ExpireAdapterJobLeases; the worker's row is not touched.      *)
JobLapsed(j, t) == job[j].status = "running" /\ job[j].until <= t

ExpiredJob(j, t) ==
    IF j.tries < MaxTries THEN UnleasedJob(j, "retry_scheduled", t + JobDelay)
                          ELSE UnleasedJob(j, "failed", 0)

ExpireJob(r, j) ==
    /\ At(r, "expire")
    /\ JobLapsed(j, at[r].now)
    /\ job' = [job EXCEPT ![j] = ExpiredJob(job[j], at[r].now)]
    /\ UNCHANGED <<clock, plan, worker, session, review, at, bounds>>

JobsExpired(r) ==
    /\ At(r, "expire")
    /\ \A j \in JobId : ~JobLapsed(j, at[r].now)
    /\ Goto(r, "claim")
    /\ UNCHANGED <<clock, tables, bounds>>

JobDue(j, t) ==
    /\ job[j].status \in {"queued", "retry_scheduled"}
    /\ job[j].next <= t
    /\ RunsAttempt(j[1], j[2], t)
    /\ plan.status = "open"

MayClaimDue(j, t) ==    \* faulty for ClaimsWithinCapacity: slots not counted
    JobDue(j, t)

MayClaimOpen(j, t) ==   \* faulty for RunnerLeaseRespected: a running job too
    /\ job[j].status \in OpenJob
    /\ RunsAttempt(j[1], j[2], t)

(* workflowV2AdapterRunnerCapacity, counted again in the UPDATE            *)
HasSlot(t) == Cardinality(ActiveJobs(t)) < Slots

MayClaimJob(j, t) == JobDue(j, t) /\ HasSlot(t)

ClaimedJob(j, r, t) ==
    [j EXCEPT !.status = "running", !.tries = j.tries + 1, !.owner = r,
              !.until = t + JobLease, !.next = 0]

(* The SELECT and the UPDATE, which tests again all the SELECT tested and  *)
(* that the row has not changed since; a row taken by somebody else is     *)
(* left.  The order of the SELECT (retries first) is left out.             *)
ClaimJob(r) ==
    /\ At(r, "claim")
    /\ LET t == at[r].now IN
       \/ \E j \in JobId :
            /\ MayClaimJob(j, t)
            /\ job' = [job EXCEPT ![j] = ClaimedJob(job[j], r, t)]
            /\ Become(r, [at[r] EXCEPT !.pc = "load", !.w = j[1],
                                       !.attempt = j[2],
                                       !.until = t + JobLease])
       \/ Stop(r) /\ UNCHANGED job
    /\ UNCHANGED <<clock, plan, worker, session, review, bounds>>

-----------------------------------------------------------------------------
(* Running the job.                                                        *)

LoadWorker(r) ==
    /\ At(r, "load")
    /\ LET w == worker[at[r].w] IN
       IF w.status = "running" /\ w.attempt = at[r].attempt
       THEN Become(r, [at[r] EXCEPT !.pc = "run", !.held = w])
       ELSE Thrown(r)
    /\ UNCHANGED <<clock, tables, bounds>>

(* The fence of heartbeat, release and retryable failure.                  *)
HoldsJob(r, t) ==
    /\ JobHeld(r)
    /\ at[r].until > t
    /\ RunsAttempt(at[r].w, at[r].attempt, t)

(* workflowV2WorkerAdapterJobHeartbeat.  A pull runner goes on with the    *)
(* new lease; a drain whose command sends the heartbeat keeps the old one. *)
Heartbeat(r) ==
    /\ At(r, "run")
    /\ \E t \in at[r].now..clock :
         /\ HoldsJob(r, t)
         /\ LET j == <<at[r].w, at[r].attempt>> IN
            job' = [job EXCEPT ![j] = [job[j] EXCEPT !.until = t + JobLease]]
         /\ \E known \in {at[r].until, t + JobLease} :
              Become(r, [at[r] EXCEPT !.until = known])
    /\ UNCHANGED <<clock, plan, worker, session, review, bounds>>

(* workflowV2WorkerAdapterJobRelease, or a failure that may be retried.    *)
HandBack(r) ==
    /\ At(r, "run")
    /\ LET j == <<at[r].w, at[r].attempt>> IN
       \E t \in at[r].now..clock :
         IF HoldsJob(r, t)
         THEN /\ job' = [job EXCEPT ![j] =
                           UnleasedJob(job[j], "retry_scheduled", t + JobDelay)]
              /\ Stop(r)
         ELSE Thrown(r) /\ UNCHANGED job
    /\ UNCHANGED <<clock, plan, worker, session, review, bounds>>

(* A pull runner may also call the failAction of its manifest, whose       *)
(* retryAllowed is true unless the caller says otherwise.                  *)
ReturnResult(r) ==
    /\ At(r, "run")
    /\ \E t \in at[r].now..clock :
         \/ Become(r, [at[r] EXCEPT !.pc = "raw", !.now = t, !.kind = "submit"])
         \/ r \in Pulling /\ \E retry \in BOOLEAN :
              Become(r, [at[r] EXCEPT !.pc = "raw", !.now = t, !.kind = "fail",
                                      !.retry = retry /\ at[r].attempt < MaxAttempts])
         \/ Become(r, [at[r] EXCEPT !.pc = "fail guard", !.now = t,
                                    !.kind = "fail"])
    /\ UNCHANGED <<clock, tables, bounds>>

(* workflowV2WorkerAdapterJobFail without a retry: it takes the worker's   *)
(* lease from the row the guard reads.  A pull runner may stop here.       *)
FailGuard(r) ==
    /\ At(r, "fail guard")
    /\ \/ /\ HoldsJob(r, at[r].now)
          /\ Become(r, [at[r] EXCEPT !.pc = "raw", !.held = worker[at[r].w]])
       \/ /\ ~HoldsJob(r, at[r].now)
          /\ Thrown(r)
       \/ Stop(r)
    /\ UNCHANGED <<clock, tables, bounds>>

RunnerStep(r) ==
    \/ StartDrain(r)
    \/ \E j \in JobId : ExpireJob(r, j)
    \/ JobsExpired(r) \/ ClaimJob(r) \/ LoadWorker(r)
    \/ Heartbeat(r) \/ HandBack(r) \/ ReturnResult(r) \/ FailGuard(r)
    \/ ResultStep(r)
=============================================================================
