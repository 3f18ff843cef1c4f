---------------------------- MODULE WorkerTables ----------------------------
(***************************************************************************)
(* The shared state of the v2 worker kernel and what every handler does    *)
(* with it: table workflow_v2_worker_runs, the session run of each worker  *)
(* (workflow_session_runs), table workflow_v2_worker_adapter_jobs with one *)
(* row per worker and attempt, and the local variables of the processes    *)
(* that run the handlers.                                                  *)
(*                                                                         *)
(* As in JobQueue, every sqlite() call is one atomic step.  Where a SELECT *)
(* is followed by an UPDATE whose WHERE clause tests again all that the    *)
(* SELECT tested, the two are one step: running the SELECT just before the *)
(* UPDATE gives the same outcomes.  The reads whose result is kept and     *)
(* used later (a row to restore, a lease to present) are steps of their    *)
(* own.                                                                    *)
(*                                                                         *)
(* Abstracted: information items, artifacts, manifests, payloads, receipts *)
(* and error texts; preflights, taken to pass; timestamps that no guard    *)
(* reads.                                                                  *)
(***************************************************************************)
EXTENDS Naturals, FiniteSets

CONSTANTS
    Worker,        \* worker runs
    Local,         \* those with runtime_backend local_deterministic
    Ticker,        \* processes that run workflow.v2.control_loop.tick
    Recorder,      \* processes that record adapter jobs
    Runner,        \* processes that run adapter jobs
    Pulling,       \* runners that may call worker_result.fail themselves
    Reporter,      \* backends that return a result without an adapter job
    Manager,       \* processes that record a manager review
    Nobody,        \* the empty lease_owner
    Decision,      \* review outcomes: accepted, rejected, revise_required...
    MaxAttempts,   \* max_attempts of a worker
    MaxTries,      \* max_runner_attempts of an adapter job
    WorkerLease,   \* workerLeaseMs
    JobLease,      \* adapterJobLeaseMs
    WorkerDelay,   \* retry delay of a worker
    JobDelay,      \* retry delay of an adapter job
    Slots,         \* the smaller of backendMaxActiveJobs and the provider's
    PlanMayClose,  \* whether an owner may block and resume the plan
    MaxIterations, \* maxIterations of the plan's autonomous loop node; 0 if
                   \* the node of the workers is an ordinary one
    MaxTime,       \* bound: last instant of the clock
    MaxFaults,     \* bound: session patches that throw
    MaxCrashes     \* bound: processes that die in a handler

Process == Ticker \cup Recorder \cup Runner \cup Reporter \cup Manager

ASSUME WorkerAssumption ==
    /\ Worker # {} /\ IsFiniteSet(Worker)
    /\ Local \subseteq Worker
    /\ Nobody \notin Process \cup Worker
    /\ Pulling \subseteq Runner
    /\ Runner \cap (Ticker \cup Recorder \cup Reporter \cup Manager) = {}
    /\ Decision \subseteq {"accepted", "rejected", "revise_required",
                           "needs_human_gate"}
    /\ MaxAttempts \in Nat \ {0}
    /\ MaxTries \in Nat \ {0}
    /\ WorkerLease \in Nat \ {0}
    /\ JobLease \in Nat \ {0}
    /\ WorkerDelay \in Nat \ {0}
    /\ JobDelay \in Nat
    /\ Slots \in Nat
    /\ PlanMayClose \in BOOLEAN
    /\ MaxIterations \in Nat
    /\ MaxTime \in Nat
    /\ MaxFaults \in Nat
    /\ MaxCrashes \in Nat

VARIABLES
    clock,     \* the wall clock all processes read
    plan,      \* whether the status of the plan lets its workers run, and
               \* the status of their node
    worker,    \* workflow_v2_worker_runs
    session,   \* status of the worker's row in workflow_session_runs
    job,       \* workflow_v2_worker_adapter_jobs, by worker and attempt
    review,    \* the decision each manager process has recorded
    at,        \* where each process is in its handler, and its variables
    faults,
    crashes

tables == <<plan, worker, session, job, review>>
bounds == <<faults, crashes>>
vars == <<clock, tables, at, bounds>>

-----------------------------------------------------------------------------
(* Rows *)

Attempt == 1..MaxAttempts
JobId == Worker \X Attempt

WorkerStatus ==
    {"absent", "queued", "retry_scheduled", "running", "submitted_for_review",
     "failed", "timed_out", "handoff_required", "retired",
     "successor_spawned"} \cup Decision

SessionStatus == {"absent", "queued", "running", "completed", "failed"}

OpenJob == {"queued", "running", "retry_scheduled"}
JobStatus == OpenJob \cup {"absent", "completed", "failed", "cancelled"}

PlanRow == [status : {"open", "blocked"}, node : {"open", "completed"}]

(* supersedes and successor are worker run ids, Nobody for the empty one;  *)
(* info says whether handoff_info_id is set.                               *)
WorkerRow == [status : WorkerStatus, attempt : 0..MaxAttempts,
              owner : Ticker \cup {Nobody}, until : Nat, next : Nat,
              supersedes : Worker \cup {Nobody},
              successor : Worker \cup {Nobody}, info : BOOLEAN]

JobRow == [status : JobStatus, tries : Nat, owner : Runner \cup {Nobody},
           until : Nat, next : Nat]

NoWorker == [status |-> "absent", attempt |-> 0, owner |-> Nobody,
             until |-> 0, next |-> 0, supersedes |-> Nobody,
             successor |-> Nobody, info |-> FALSE]

NoJob == [status |-> "absent", tries |-> 0, owner |-> Nobody, until |-> 0,
          next |-> 0]

(* The worker's row while nobody holds its lease. *)
Unleased(r, status, next) ==
    [r EXCEPT !.status = status, !.owner = Nobody, !.until = 0, !.next = next]

UnleasedJob(j, status, next) ==
    [j EXCEPT !.status = status, !.owner = Nobody, !.until = 0, !.next = next]

(* w.status='running' AND w.lease_until > t AND w.attempt = attempt *)
RunsAttempt(w, attempt, t) ==
    /\ worker[w].status = "running"
    /\ worker[w].until > t
    /\ worker[w].attempt = attempt

(* Adapter jobs that occupy a slot at instant t. *)
ActiveJobs(t) == {j \in JobId : job[j].status = "running" /\ job[j].until > t}

-----------------------------------------------------------------------------
(* Local variables: now is generatedAt (and leaseCheckAt); w and attempt   *)
(* the worker and attempt at hand; held the worker row whose lease the     *)
(* process presents; raw and sess the rows it restores when a later call   *)
(* throws; until the adapter job lease it presents; kind the result it     *)
(* returns, and retry whether a failure may be retried.                    *)

ResultKind == {"submit", "fail", "give up"}

(* Where a process may be: in a tick, in a result, in the recording or the *)
(* running of an adapter job, in a review.                                 *)
Label ==
    {"idle", "expire", "expire session", "expire jobs", "expire undo",
     "claim", "claim cas", "claim reread", "claim session", "claim undo",
     "execute", "execute session", "execute undo", "end loop",
     "raw", "settle", "settle session", "settle job", "undo worker",
     "undo session", "insert", "bind", "delete", "load", "run",
     "fail guard", "review insert", "review worker", "review session",
     "review undo", "review delete"}

Locals == [pc : Label, now : Nat, w : Worker, attempt : 0..MaxAttempts,
           held : WorkerRow, raw : WorkerRow, sess : SessionStatus,
           until : Nat, kind : ResultKind, retry : BOOLEAN, decision : Decision \cup {"none"}]

Idle == [pc |-> "idle", now |-> 0, w |-> CHOOSE w \in Worker : TRUE,
         attempt |-> 0, held |-> NoWorker, raw |-> NoWorker, sess |-> "absent",
         until |-> 0, kind |-> "submit", retry |-> FALSE, decision |-> "none"]

At(p, label) == at[p].pc = label

Become(p, locals) == at' = [at EXCEPT ![p] = locals]

Goto(p, label) == Become(p, [at[p] EXCEPT !.pc = label])

Stop(p) == Become(p, Idle)       \* the handler returns

(* workflowV2RequireSessionRunPatch: one UPDATE, whatever the status was,  *)
(* then SELECTs.  It throws when the row is not there, or when a SELECT    *)
(* does, before the UPDATE or after it.                                    *)
Patched(w, status) == [session EXCEPT ![w] = status]

PatchSucceeds(w, status) ==
    /\ session[w] # "absent"
    /\ session' = Patched(w, status)
    /\ UNCHANGED faults

PatchThrows(w, status) ==
    IF session[w] = "absent"
    THEN UNCHANGED <<session, faults>>
    ELSE /\ faults < MaxFaults
         /\ faults' = faults + 1
         /\ session' \in {session, Patched(w, status)}

(* workflowV2AutonomousLoopMaybeTerminalizeNode, once a result is recorded:*)
(* the result, or the worker's payload, says whether the stop condition of *)
(* the loop is satisfied.  Other nodes are left as they are.               *)
AfterResult(p) == IF MaxIterations > 0 THEN Goto(p, "end loop") ELSE Stop(p)

EndLoop(p) ==
    /\ At(p, "end loop")
    /\ \/ plan' = [plan EXCEPT !.node = "completed"]
       \/ UNCHANGED plan
    /\ Stop(p)
    /\ UNCHANGED <<clock, worker, session, job, review, bounds>>

(* workflowV2RestoreWorkerRunRow: no condition but the row's identity. *)
Restored(w, row) ==
    IF "absent" \in {row.status, worker[w].status}
    THEN worker ELSE [worker EXCEPT ![w] = row]

RestoreWorker(w, row) == worker' = Restored(w, row)
=============================================================================
