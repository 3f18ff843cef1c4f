----------------------------- MODULE WorkerTick -----------------------------
(***************************************************************************)
(* workflow.v2.control_loop.tick: expire worker leases, claim a due worker *)
(* and run it when its backend is the local one.  The instant of the start *)
(* of the tick serves all its statements.                                  *)
(*                                                                         *)
(* The claim owner is the default one, unique per tick; a process runs one *)
(* tick at a time, so it stands for the owner.  Bound: a tick claims one   *)
(* worker (workerLimit).                                                   *)
(***************************************************************************)
EXTENDS WorkerTables

StartTick(t) ==
    /\ At(t, "idle")
    /\ Become(t, [Idle EXCEPT !.pc = "expire", !.now = clock])
    /\ UNCHANGED <<clock, tables, bounds>>

-----------------------------------------------------------------------------
(* workflowV2ExpireWorkerLeases                                            *)

NeverLapsed(w, t) == FALSE   \* faulty for WorkersSettle: leases never expire

Lapsed(w, t) == worker[w].status = "running" /\ worker[w].until <= t

MayRetryWorker(r) == r.attempt < MaxAttempts

Expired(r, t) ==
    IF MayRetryWorker(r) THEN Unleased(r, "retry_scheduled", t + WorkerDelay)
                         ELSE Unleased(r, "timed_out", 0)

(* The worker handled last, which a tick does not take again: its row may  *)
(* have been restored.                                                     *)
Handled(t, w) == at[t].w = w /\ at[t].raw # NoWorker

ExpireWorker(t, w) ==
    /\ At(t, "expire")
    /\ Lapsed(w, at[t].now) /\ ~Handled(t, w)
    /\ worker' = [worker EXCEPT ![w] = Expired(worker[w], at[t].now)]
    /\ Become(t, [at[t] EXCEPT !.pc = "expire session", !.w = w,
                               !.raw = worker[w]])
    /\ UNCHANGED <<clock, plan, session, job, review, bounds>>

ExpireSession(t) ==
    /\ At(t, "expire session")
    /\ LET w == at[t].w
           status == IF MayRetryWorker(at[t].raw) THEN "queued" ELSE "failed"
       IN  \/ PatchSucceeds(w, status) /\ Goto(t, "expire jobs")
           \/ PatchThrows(w, status) /\ Goto(t, "expire undo")
    /\ UNCHANGED <<clock, plan, worker, job, review, crashes>>

Cancelled(j) ==
    IF j.status \in OpenJob THEN UnleasedJob(j, "cancelled", 0) ELSE j

ExpireJobs(t) ==
    /\ At(t, "expire jobs")
    /\ LET j == <<at[t].w, at[t].raw.attempt>> IN
       job' = [job EXCEPT ![j] = Cancelled(job[j])]
    /\ Goto(t, "expire")
    /\ UNCHANGED <<clock, plan, worker, session, review, bounds>>

ExpireUndo(t) ==
    /\ At(t, "expire undo")
    /\ RestoreWorker(at[t].w, at[t].raw)
    /\ Goto(t, "expire")
    /\ UNCHANGED <<clock, plan, session, job, review, bounds>>

ExpireDone(t) ==
    /\ At(t, "expire")
    /\ \A w \in Worker : Lapsed(w, at[t].now) => Handled(t, w)
    /\ Goto(t, "claim")
    /\ UNCHANGED <<clock, tables, bounds>>

-----------------------------------------------------------------------------
(* workflowV2ClaimWorkerRuns: the UPDATE tests all the SELECT tested, but  *)
(* the row restored after a failure is the one the SELECT returned.        *)

MayClaimIdle(w, t) ==   \* faulty for CompletedJobsKeepResult: settled ones too
    /\ worker[w].status \notin {"absent", "running"}
    /\ worker[w].next <= t
    /\ worker[w].attempt < MaxAttempts
    /\ plan.status = "open"

MayClaimWorker(w, t) ==
    /\ worker[w].status \in {"queued", "retry_scheduled"}
    /\ worker[w].next <= t
    /\ worker[w].attempt < MaxAttempts
    /\ plan.status = "open"

ClaimSelect(t) ==
    /\ At(t, "claim")
    /\ \/ \E w \in Worker :
            /\ MayClaimWorker(w, at[t].now)
            /\ Become(t, [at[t] EXCEPT !.pc = "claim cas", !.w = w,
                                       !.raw = worker[w]])
       \/ /\ \A w \in Worker : ~MayClaimWorker(w, at[t].now)
          /\ Stop(t)
    /\ UNCHANGED <<clock, tables, bounds>>

ClaimedTwice(r, t, now) ==   \* faulty for TypeOK: the attempt counted twice
    [r EXCEPT !.status = "running", !.attempt = r.attempt + 2, !.owner = t,
              !.until = now + WorkerLease, !.next = 0]

ClaimedWorker(r, t, now) ==
    [r EXCEPT !.status = "running", !.attempt = r.attempt + 1, !.owner = t,
              !.until = now + WorkerLease, !.next = 0]

ClaimCas(t) ==
    /\ At(t, "claim cas")
    /\ LET w == at[t].w IN
       IF MayClaimWorker(w, at[t].now)
       THEN /\ worker' = [worker EXCEPT ![w] =
                            ClaimedWorker(worker[w], t, at[t].now)]
            /\ Goto(t, "claim reread")
       ELSE Stop(t) /\ UNCHANGED worker
    /\ UNCHANGED <<clock, plan, session, job, review, bounds>>

ClaimReread(t) ==
    /\ At(t, "claim reread")
    /\ LET r == worker[at[t].w] IN
       IF r.status = "running" /\ r.owner = t
       THEN Become(t, [at[t] EXCEPT !.pc = "claim session", !.held = r])
       ELSE Stop(t)
    /\ UNCHANGED <<clock, tables, bounds>>

(* Workers of other backends are left "leased_waiting_adapter". *)
ClaimSession(t) ==
    /\ At(t, "claim session")
    /\ LET w == at[t].w IN
       \/ /\ PatchSucceeds(w, "running")
          /\ IF w \in Local THEN Goto(t, "execute") ELSE Stop(t)
       \/ /\ PatchThrows(w, "running")
          /\ Goto(t, "claim undo")
    /\ UNCHANGED <<clock, plan, worker, job, review, crashes>>

ClaimUndo(t) ==
    /\ At(t, "claim undo")
    /\ RestoreWorker(at[t].w, at[t].raw)
    /\ Stop(t)
    /\ UNCHANGED <<clock, plan, session, job, review, bounds>>

-----------------------------------------------------------------------------
(* workflowV2ExecuteDeterministicWorker: the lease is compared, but not    *)
(* with the clock.                                                         *)

HoldsWorker(p) ==
    LET r == worker[at[p].w] IN
    /\ r.status = "running"
    /\ r.owner = at[p].held.owner
    /\ r.until = at[p].held.until

Submitted(r) == Unleased(r, "submitted_for_review", r.next)

Execute(t) ==
    /\ At(t, "execute")
    /\ LET w == at[t].w IN
       IF HoldsWorker(t)
       THEN /\ worker' = [worker EXCEPT ![w] = Submitted(worker[w])]
            /\ Goto(t, "execute session")
       ELSE Stop(t) /\ UNCHANGED worker              \* lease_lost
    /\ UNCHANGED <<clock, plan, session, job, review, bounds>>

ExecuteSession(t) ==
    /\ At(t, "execute session")
    /\ LET w == at[t].w IN
       \/ PatchSucceeds(w, "completed") /\ AfterResult(t)
       \/ PatchThrows(w, "completed") /\ Goto(t, "execute undo")
    /\ UNCHANGED <<clock, plan, worker, job, review, crashes>>

ExecuteUndo(t) ==
    /\ At(t, "execute undo")
    /\ RestoreWorker(at[t].w, at[t].held)
    /\ Stop(t)
    /\ UNCHANGED <<clock, plan, session, job, review, bounds>>

TickStep(t) ==
    \/ StartTick(t)
    \/ \E w \in Worker : ExpireWorker(t, w)
    \/ ExpireSession(t) \/ ExpireJobs(t) \/ ExpireUndo(t) \/ ExpireDone(t)
    \/ ClaimSelect(t) \/ ClaimCas(t) \/ ClaimReread(t)
    \/ ClaimSession(t) \/ ClaimUndo(t)
    \/ Execute(t) \/ ExecuteSession(t) \/ ExecuteUndo(t) \/ EndLoop(t)
=============================================================================
