---------------------------- MODULE WorkerKernel ----------------------------
(***************************************************************************)
(* The v2 worker kernel: control loop ticks, the recording and running of  *)
(* adapter jobs, direct results and manager reviews, over one database,    *)
(* with processes that interleave at every statement and may die between   *)
(* two of them.                                                            *)
(***************************************************************************)
EXTENDS WorkerTick, AdapterRunner, WorkerReview

TypeOK ==
    /\ clock \in Nat
    /\ plan \in PlanRow
    /\ worker \in [Worker -> WorkerRow]
    /\ session \in [Worker -> SessionStatus]
    /\ job \in [JobId -> JobRow]
    /\ review \in [Manager -> Decision \cup {"none"}]
    /\ at \in [Process -> Locals]
    /\ faults \in Nat
    /\ crashes \in Nat

Init ==
    /\ clock = 1
    /\ plan = [status |-> "open", node |-> "open"]
    /\ worker = [w \in Worker |-> NoWorker]
    /\ session = [w \in Worker |-> "absent"]
    /\ job = [j \in JobId |-> NoJob]
    /\ review = [m \in Manager |-> "none"]
    /\ at = [p \in Process |-> Idle]
    /\ faults = 0
    /\ crashes = 0

(* workflow.v2.worker_spawn.create, one transaction.  Bound: a worker run  *)
(* identity is spawned once.                                               *)
Spawn(w) ==
    /\ worker[w].status = "absent"
    /\ plan.status = "open"
    /\ worker' = [worker EXCEPT ![w] = Unleased(NoWorker, "queued", 0)]
    /\ session' = Patched(w, "queued")
    /\ UNCHANGED <<clock, plan, job, review, at, bounds>>

(* An owner's intervention blocks the plan or resumes it; workers and jobs *)
(* keep their rows.                                                        *)
Intervene ==
    /\ PlanMayClose
    /\ \E status \in {"open", "blocked"} \ {plan.status} :
         plan' = [plan EXCEPT !.status = status]
    /\ UNCHANGED <<clock, worker, session, job, review, at, bounds>>

Crash(p) ==             \* the process dies, or a statement of it throws
    /\ ~At(p, "idle")
    /\ crashes < MaxCrashes
    /\ crashes' = crashes + 1
    /\ Stop(p)
    /\ UNCHANGED <<clock, tables, faults>>

TimePasses ==
    /\ clock < MaxTime
    /\ clock' = clock + 1
    /\ UNCHANGED <<tables, at, bounds>>

HandlerStep ==
    \/ \E t \in Ticker : TickStep(t)
    \/ \E c \in Recorder : RecordStep(c)
    \/ \E r \in Runner : RunnerStep(r)
    \/ \E b \in Reporter : ReportStep(b)
    \/ \E m \in Manager : ReviewStep(m)

Environment ==
    \/ \E w \in Worker : Spawn(w)
    \/ Intervene
    \/ \E p \in Process : Crash(p)

Next == HandlerStep \/ Environment \/ TimePasses

Spec == Init /\ [][Next]_vars

(* The run about progress.  Nothing in the repository calls the tick on a  *)
(* timer: agents and operators do, and the run assumes that they keep      *)
(* calling it and that the operating system runs a tick once called;       *)
(* nobody has to record, run or return anything.  Time passes only while   *)
(* some worker waits for its retry or for the end of its lease and there   *)
(* is nothing a tick started now would do; such moments may come again and *)
(* again without lasting.                                                  *)
Waits(w) ==
    \/ worker[w].status = "retry_scheduled" /\ worker[w].next > clock
    \/ worker[w].status = "running" /\ worker[w].until > clock

QuietTime ==
    /\ \A w \in Worker : ~Lapsed(w, clock) /\ ~MayClaimWorker(w, clock)
    /\ \E w \in Worker : Waits(w)
    /\ TimePasses

FairSpec ==
    /\ Init
    /\ [][HandlerStep \/ Environment \/ QuietTime]_vars
    /\ \A t \in Ticker : WF_vars(TickStep(t))
    /\ SF_vars(QuietTime)

-----------------------------------------------------------------------------
(* While the lease of an adapter job lasts, no process but its runner      *)
(* touches the job, except to cancel it with its worker's attempt or to    *)
(* delete it with a record that failed: neither the expiry of leases, with *)
(* an instant read earlier, nor a claim, nor a result returned by somebody *)
(* else (workflowV2ExpireAdapterJobLeases, workflowV2WorkerAdapterJobClaim,*)
(* workflowV2MarkAdapterJobTerminal).                                      *)
RunnerLeaseRespected ==
    [][\A j \in JobId :
          LET r == job[j].owner IN
          /\ job[j].status = "running"
          /\ job[j].until > clock
          /\ job'[j] # job[j]
          => \/ job'[j].owner = r
             \/ at'[r] # at[r]
             \/ job'[j].status \in {"cancelled", "absent"}]_vars

(* A claim never raises the number of jobs with a live lease above the     *)
(* slots of the backend and its provider, although the claim counts them   *)
(* with an instant it read before expiring, counting and selecting         *)
(* (workflowV2AdapterRunnerCapacity, workflowV2WorkerAdapterJobClaim).     *)
ClaimsWithinCapacity ==
    [][\A j \in JobId :
          job[j].status # "running" /\ job'[j].status = "running"
          => Cardinality(ActiveJobs(clock)') <= Slots]_vars

(* A result computed for one attempt of a worker never settles another     *)
(* attempt of it, however late it is returned (workflowV2WorkerResultSubmit*)
(* and Fail compare the lease, not the attempt).                           *)
ResultsFollowAttempts ==
    [][\A p \in Runner \cup Reporter :
          At(p, "settle") /\ at'[p].pc = "settle session"
          => worker[at[p].w].attempt = at[p].attempt]_vars

(* The result of a completed adapter job is kept: its worker never goes    *)
(* back to a state in which it is run again, although a result that fails  *)
(* half way is undone without a condition (worker first, adapter job last  *)
(* in workflowV2WorkerResultSubmit) and the lease of a job may outlive that*)
(* of its worker.  It holds where only runners return results and no       *)
(* session patch throws: a backend that reports without an adapter job, or *)
(* a claim whose session patch throws, may restore an older row.           *)
CompletedJobsKeepResult ==
    \A j \in JobId :
        job[j].status = "completed"
        => worker[j[1]].status \notin {"queued", "retry_scheduled", "running"}

(* As long as ticks are called, every worker is settled in the end: it     *)
(* submits a result, fails or times out, although handlers die, patches    *)
(* throw and results are undone (workflowV2ExpireWorkerLeases).            *)
WorkersSettle ==
    \A w \in Worker :
        worker[w].status \in {"queued", "retry_scheduled", "running"}
        ~> worker[w].status \notin {"queued", "retry_scheduled", "running"}
=============================================================================
