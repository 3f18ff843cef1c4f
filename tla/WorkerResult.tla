---------------------------- MODULE WorkerResult ----------------------------
(***************************************************************************)
(* workflow.v2.worker_result.submit and .fail: settle the worker, then its *)
(* session run, then the adapter job; when one of the later calls throws,  *)
(* put the rows read beforehand back.                                      *)
(*                                                                         *)
(* The caller is the runner of an adapter job, which names the job and its *)
(* runner lease, or a backend that names the worker alone.  A runner whose *)
(* call throws reports the adapter job as failed (the catch clause of      *)
(* workflowV2AdapterRunnerDrain): steps "fail guard" of AdapterRunner.     *)
(*                                                                         *)
(* The preview of the handler tests what the UPDATE tests again; a backend *)
(* obtains the lease with it, a runner has read the worker just before.    *)
(***************************************************************************)
EXTENDS WorkerTables

(* A backend reads the worker it runs and validates its lease. *)
StartReport(b, w) ==
    /\ At(b, "idle")
    /\ worker[w].status = "running"
    /\ worker[w].until > clock
    /\ \E kind \in {"submit", "fail"}, retry \in BOOLEAN :
         Become(b, [Idle EXCEPT !.pc = "raw", !.now = clock, !.w = w,
                                !.attempt = worker[w].attempt,
                                !.held = worker[w], !.kind = kind,
                                !.retry = /\ kind = "fail"
                                          /\ retry
                                          /\ worker[w].attempt < MaxAttempts])
    /\ UNCHANGED <<clock, tables, bounds>>

(* What a runner does when the call throws. *)
Thrown(p) ==
    IF p \in Runner /\ at[p].kind # "give up"
    THEN Become(p, [at[p] EXCEPT !.pc = "fail guard", !.kind = "give up",
                              !.retry = FALSE])
    ELSE Stop(p)

(* rawRow and rawSessionRow *)
ReadRaw(p) ==
    /\ At(p, "raw")
    /\ LET w == at[p].w IN
       Become(p, [at[p] EXCEPT !.pc = "settle", !.raw = worker[w],
                               !.sess = session[w]])
    /\ UNCHANGED <<clock, tables, bounds>>

RunsForSomebody(p) ==   \* faulty for ResultsFollowAttempts: any lease will do
    worker[at[p].w].status = "running"

MaySettle(p) ==
    LET r == worker[at[p].w] IN
    /\ r.status = "running"
    /\ r.owner = at[p].held.owner
    /\ r.until = at[p].held.until
    /\ r.until > at[p].now

Settled(p, r) ==
    CASE at[p].kind = "submit" -> Unleased(r, "submitted_for_review", 0)
      [] at[p].kind # "submit" /\ at[p].retry ->
            Unleased(r, "retry_scheduled", at[p].now + WorkerDelay)
      [] OTHER -> Unleased(r, "failed", 0)

Settle(p) ==
    /\ At(p, "settle")
    /\ LET w == at[p].w IN
       IF MaySettle(p)
       THEN /\ worker' = [worker EXCEPT ![w] = Settled(p, worker[w])]
            /\ Goto(p, "settle session")
       ELSE Thrown(p) /\ UNCHANGED worker
    /\ UNCHANGED <<clock, plan, session, job, review, bounds>>

SettleSession(p) ==
    /\ At(p, "settle session")
    /\ LET w == at[p].w
           status == CASE at[p].kind = "submit" -> "completed"
                       [] at[p].kind # "submit" /\ at[p].retry -> "queued"
                       [] OTHER -> "failed"
       IN  \/ PatchSucceeds(w, status) /\ Goto(p, "settle job")
           \/ PatchThrows(w, status) /\ Goto(p, "undo worker")
    /\ UNCHANGED <<clock, plan, worker, job, review, crashes>>

(* workflowV2MarkAdapterJobTerminal                                        *)
JobHeld(p) ==
    LET j == job[<<at[p].w, at[p].attempt>>] IN
    /\ j.status = "running"
    /\ j.owner = p
    /\ j.until = at[p].until

JobClosed(p, j) ==
    UnleasedJob(j, IF at[p].kind = "submit" THEN "completed" ELSE "failed", 0)

Recorded(p) == IF at[p].kind = "submit" THEN AfterResult(p) ELSE Stop(p)

SettleJob(p) ==
    /\ At(p, "settle job")
    /\ LET j == <<at[p].w, at[p].attempt>> IN
       \/ /\ p \in Runner
          /\ JobHeld(p) /\ job[j].until > at[p].now
          /\ job' = [job EXCEPT ![j] = JobClosed(p, job[j])]
          /\ Recorded(p)
       \/ /\ p \in Reporter
          /\ job[j].status # "running"         \* no running job: nothing to do
          /\ Recorded(p) /\ UNCHANGED job
       \/ /\ IF p \in Runner THEN ~(JobHeld(p) /\ job[j].until > at[p].now)
                             ELSE job[j].status = "running"
          /\ Goto(p, "undo worker") /\ UNCHANGED job
    /\ UNCHANGED <<clock, plan, worker, session, review, bounds>>

UndoWorker(p) ==
    /\ At(p, "undo worker")
    /\ RestoreWorker(at[p].w, at[p].raw)
    /\ Goto(p, "undo session")
    /\ UNCHANGED <<clock, plan, session, job, review, bounds>>

UndoSession(p) ==
    /\ At(p, "undo session")
    /\ session' = Patched(at[p].w, at[p].sess)
    /\ Thrown(p)
    /\ UNCHANGED <<clock, plan, worker, job, review, bounds>>

ResultStep(p) ==
    \/ ReadRaw(p) \/ Settle(p) \/ SettleSession(p) \/ SettleJob(p)
    \/ UndoWorker(p) \/ UndoSession(p) \/ EndLoop(p)

ReportStep(b) ==
    \/ \E w \in Worker : StartReport(b, w)
    \/ ResultStep(b)
=============================================================================
