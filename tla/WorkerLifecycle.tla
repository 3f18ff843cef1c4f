-------------------------- MODULE WorkerLifecycle --------------------------
(***************************************************************************)
(* workflow.v2.worker_spawn.create, worker_handoff.record, worker_retire   *)
(* .record and worker_successor.create: the life of a worker run from its  *)
(* spawn to the successor that continues its work.                         *)
(*                                                                         *)
(* Each record action reads what its preview tests, reads the rows again   *)
(* to restore them, and then writes row by row, the worker under the       *)
(* condition that its status and pointers are those of the second read.    *)
(* When a write or the session patch throws, the rows are put back without *)
(* a condition.                                                            *)
(*                                                                         *)
(* Managers call these actions, one at a time.  A worker has one handoff,  *)
(* of the default id; "required" stands for "recommended" too.  All        *)
(* workers belong to the plan's one node.  A spawn called on its own names *)
(* no worker it supersedes.  The record of a handoff names no successor,   *)
(* though its input may: the code would write the name into the handoff as *)
(* it is, whether the successor exists, is ever made, or is another in the *)
(* end.  Bounds: MaxCalls calls of these actions, MaxThrows session        *)
(* patches of theirs that throw; worker run ids are numbers and are chosen *)
(* one after the other, so that they are ordered as created_at is; one     *)
(* whose row was deleted is not chosen again.                              *)
(***************************************************************************)
EXTENDS WorkerTables

CONSTANTS MaxCalls, MaxThrows

ASSUME LifecycleAssumption ==
    MaxCalls \in Nat /\ MaxThrows \in Nat /\ Worker \subseteq Nat \ {0}

VARIABLES
    handoff,   \* workflow_v2_worker_handoffs, by worker
    life,      \* where each manager is in a lifecycle action
    feedback,  \* workers whose outcome feedback was recorded on
    last,      \* the highest worker run id chosen so far
    calls,
    throws

lifeVars == <<handoff, life, feedback, last, calls, throws>>

HandoffRow == [status : {"absent", "required", "accepted", "superseded"},
               successor : Worker \cup {Nobody}]

NoHandoff == [status |-> "absent", successor |-> Nobody]

LifeLabel ==
    {"rest", "session", "create", "supersede", "raw", "paper", "gate",
     "write", "worker", "patch", "undo worker", "undo handoff",
     "undo spawn", "undo session"}

(* w is the worker at hand and s the one to spawn; raw and paper the rows  *)
(* to restore; fresh says that the session run has to be made, spawned     *)
(* that it and the worker were; accepted, that the handoff is or will be.  *)
Frame == [act : {"none", "spawn", "handoff", "retire", "successor"},
          pc : LifeLabel, w : Worker, s : Worker, raw : WorkerRow,
          paper : HandoffRow, fresh : BOOLEAN, spawned : BOOLEAN,
          accepted : BOOLEAN]

Rest == [act |-> "none", pc |-> "rest", w |-> Idle.w, s |-> Idle.w,
         raw |-> NoWorker, paper |-> NoHandoff, fresh |-> FALSE,
         spawned |-> FALSE, accepted |-> FALSE]

Present(w) == worker[w].status # "absent"

In(m, pc) == life[m].pc = pc

Call(m, frame) == life' = [life EXCEPT ![m] = frame]

Step(m, pc) == Call(m, [life[m] EXCEPT !.pc = pc])

Return(m) == Call(m, Rest)

Begin(m, frame) ==
    /\ In(m, "rest")
    /\ calls < MaxCalls
    /\ calls' = calls + 1
    /\ Call(m, frame)

LifecycleType ==
    /\ handoff \in [Worker -> HandoffRow]
    /\ life \in [Manager -> Frame]
    /\ feedback \subseteq Worker
    /\ last \in Nat
    /\ calls \in Nat
    /\ throws \in Nat

LifecycleInit ==
    /\ handoff = [w \in Worker |-> NoHandoff]
    /\ life = [m \in Manager |-> Rest]
    /\ feedback = {}
    /\ last = 0
    /\ calls = 0
    /\ throws = 0

-----------------------------------------------------------------------------
(* Spawning: the gates, the session run, and one transaction.              *)

Iteration == {w \in Worker : Present(w)}

OpenStatus == {"queued", "retry_scheduled", "running"}

(* An id in use, or one that a spawn under way has chosen, or the next.    *)
Candidate(s) ==
    \/ Present(s)
    \/ \E m \in Manager : life[m].act \in {"spawn", "successor"} /\ life[m].s = s
    \/ s = last + 1

Choose(s) == last' = IF s > last THEN s ELSE last

(* An information item with tool or environment feedback on the worker.    *)
(* One recorded before the worker completed is stale.                      *)
RecordFeedback(w) ==
    /\ MaxIterations > 0
    /\ Present(w) /\ worker[w].status \notin OpenStatus
    /\ w \notin feedback
    /\ feedback' = feedback \cup {w}
    /\ UNCHANGED <<vars, handoff, life, last, calls, throws>>

Latest(w) == w \in Iteration /\ \A v \in Iteration : v <= w

(* workflowV2AutonomousLoopSpawnGate                                       *)
LoopAdmitsUnfed ==   \* faulty for IterationsInTurn: feedback not looked at
    MaxIterations > 0 =>
        /\ plan.node # "completed"
        /\ Cardinality(Iteration) < MaxIterations

LoopAdmits ==
    MaxIterations > 0 =>
        /\ plan.node # "completed"
        /\ Cardinality(Iteration) < MaxIterations
        /\ \A w \in Worker :
              Latest(w) => worker[w].status \notin OpenStatus /\ w \in feedback

SpawnAllowed == plan.status = "open" /\ LoopAdmits

StartSpawn(m, w) ==
    /\ Candidate(w) /\ SpawnAllowed
    /\ Begin(m, [Rest EXCEPT !.act = "spawn", !.pc = "session", !.w = w, !.s = w])
    /\ Choose(w)
    /\ UNCHANGED <<vars, handoff, feedback, throws>>

(* Where an action ends whose spawn throws.                                *)
SpawnFails(m) == IF life[m].act = "spawn" THEN Return(m) ELSE Step(m, "undo worker")

(* The upsert of workflowV2WorkerSpawnRunUpsertSql leaves nothing of an    *)
(* older row of the same id.                                               *)
NewWorker(f) ==
    [NoWorker EXCEPT !.status = "queued",
                     !.supersedes = IF f.act = "successor" THEN f.w ELSE Nobody,
                     !.info = f.act = "successor"]

(* A session run is made with its worker and keeps the worker's input,     *)
(* which names the worker superseded (workflowV2WorkerSessionRunInput).    *)
SameInput(f) ==
    Present(f.s) => worker[f.s].supersedes = NewWorker(f).supersedes

(* workflowV2WorkerSpawnSessionRunPlan: a session run of the same id must  *)
(* be queued and of the same input.                                        *)
ReadSession(m) ==
    /\ In(m, "session")
    /\ LET f == life[m] IN
       IF \/ session[f.s] = "absent"
          \/ session[f.s] = "queued" /\ SameInput(f)
       THEN Call(m, [f EXCEPT !.pc = "create",
                              !.fresh = session[f.s] = "absent"])
       ELSE SpawnFails(m)
    /\ UNCHANGED <<vars, handoff, feedback, last, calls, throws>>

CreateWorker(m) ==
    /\ In(m, "create")
    /\ LET f == life[m] IN
       IF f.fresh /\ session[f.s] # "absent"
       THEN SpawnFails(m) /\ UNCHANGED <<worker, session>>
       ELSE /\ worker' = [worker EXCEPT ![f.s] = NewWorker(f)]
            /\ session' = IF f.fresh THEN Patched(f.s, "queued") ELSE session
            /\ IF f.act = "spawn" THEN Return(m)
               ELSE Call(m, [f EXCEPT !.pc = "supersede", !.spawned = TRUE])
    /\ feedback' = IF worker' = worker THEN feedback ELSE feedback \ {life[m].s}
    /\ UNCHANGED <<clock, plan, job, review, at, bounds, handoff, last, calls, throws>>

-----------------------------------------------------------------------------
(* What the actions share.                                                 *)

MayHandOff(w) == worker[w].status \notin {"absent", "cancelled", "successor_spawned"}

MayRetire(w, unattended) ==
    /\ worker[w].status \notin {"absent", "cancelled", "successor_spawned", "accepted"}
    /\ unattended \/ handoff[w].status = "accepted"

MaySucceed(w, s) ==
    /\ handoff[w].status = "accepted"
    /\ worker[w].status \in {"handoff_required", "retired", "failed", "timed_out",
                             "rejected", "revise_required"}
    /\ worker[w].successor = Nobody
    /\ s # w /\ ~Present(s) /\ Candidate(s)
    /\ SpawnAllowed

(* rawRow.  The handoff is read next, except by a retirement.              *)
ReadWorker(m) ==
    /\ In(m, "raw")
    /\ Call(m, [life[m] EXCEPT !.raw = worker[life[m].w],
                 !.pc = IF life[m].act = "retire" THEN "worker" ELSE "paper"])
    /\ UNCHANGED <<vars, handoff, feedback, last, calls, throws>>

ReadHandoff(m) ==
    /\ In(m, "paper")
    /\ Call(m, [life[m] EXCEPT !.paper = handoff[life[m].w],
                 !.pc = IF life[m].act = "handoff" THEN "write" ELSE "gate"])
    /\ UNCHANGED <<vars, handoff, feedback, last, calls, throws>>

(* What the UPDATE of the worker makes of its row.                         *)
Closed(f, r) ==
    CASE f.act = "handoff" ->
            [Unleased(r, "handoff_required", 0) EXCEPT !.info = TRUE]
      [] f.act = "retire" ->
            [Unleased(r, "retired", 0) EXCEPT !.info = r.info \/ f.accepted]
      [] OTHER ->
            [Unleased(r, "successor_spawned", 0) EXCEPT !.info = TRUE,
                                                        !.successor = f.s]

(* WHERE status, handoff_info_id and successor_worker_run_id are as read.  *)
AsRead(f) ==
    LET r == worker[f.w] IN
    /\ r.status = f.raw.status
    /\ r.info = f.raw.info
    /\ r.successor = f.raw.successor

UpdateWorker(m) ==
    /\ In(m, "worker")
    /\ LET f == life[m] IN
       IF AsRead(f) /\ Present(f.w)
       THEN /\ worker' = [worker EXCEPT ![f.w] = Closed(f, worker[f.w])]
            /\ Step(m, "patch")
       ELSE /\ IF f.act = "retire" THEN Return(m) ELSE Step(m, "undo worker")
            /\ UNCHANGED worker
    /\ UNCHANGED <<clock, plan, session, job, review, at, bounds, handoff, feedback, last, calls, throws>>

LastStatus(f) ==
    IF f.act = "retire" /\ ~f.accepted THEN "failed" ELSE "completed"

PatchSession(m) ==
    /\ In(m, "patch")
    /\ LET w == life[m].w
           status == LastStatus(life[m])
       IN  \/ /\ session[w] # "absent"
              /\ session' = Patched(w, status)
              /\ Return(m)
              /\ UNCHANGED throws
           \/ /\ session[w] = "absent" \/ throws < MaxThrows
              /\ throws' = IF session[w] = "absent" THEN throws ELSE throws + 1
              /\ session' \in {session, IF session[w] = "absent" THEN session
                                        ELSE Patched(w, status)}
              /\ Step(m, "undo worker")
    /\ UNCHANGED <<clock, plan, worker, job, review, at, bounds, handoff, feedback, last, calls>>

UndoLife(m) ==
    /\ In(m, "undo worker")
    /\ LET f == life[m] IN
       /\ RestoreWorker(f.w, f.raw)
       /\ IF f.act = "retire" THEN Return(m) ELSE Step(m, "undo handoff")
    /\ UNCHANGED <<clock, plan, session, job, review, at, bounds, handoff, feedback, last, calls, throws>>

KeepPaper(f) == handoff[f.w]   \* faulty for LineageAgrees: the handoff stays

(* workflowV2RestoreWorkerHandoffRow: the row as read, or none.            *)
Paper(f) == f.paper

UndoHandoff(m) ==
    /\ In(m, "undo handoff")
    /\ LET f == life[m] IN
       /\ handoff' = [handoff EXCEPT ![f.w] = Paper(f)]
       /\ IF f.spawned THEN Step(m, "undo spawn") ELSE Return(m)
    /\ UNCHANGED <<vars, feedback, last, calls, throws>>

-----------------------------------------------------------------------------
(* workflow.v2.worker_handoff.record                                       *)

StartHandoff(m, w) ==
    /\ MayHandOff(w)
    /\ \E accepted \in BOOLEAN :
         Begin(m, [Rest EXCEPT !.act = "handoff", !.pc = "raw", !.w = w,
                              !.accepted = accepted])
    /\ UNCHANGED <<vars, handoff, feedback, last, throws>>

WriteHandoff(m) ==
    /\ In(m, "write")
    /\ LET f == life[m]
           status == IF f.accepted THEN "accepted" ELSE "required"
       IN  handoff' = [handoff EXCEPT ![f.w] = [status |-> status, successor |-> Nobody]]
    /\ Step(m, "worker")
    /\ UNCHANGED <<vars, feedback, last, calls, throws>>

(* workflow.v2.worker_retire.record; unattended is allowWithoutHandoff.    *)
StartRetire(m, w, unattended) ==
    /\ MayRetire(w, unattended)
    /\ Begin(m, [Rest EXCEPT !.act = "retire", !.pc = "raw", !.w = w,
                            !.accepted = handoff[w].status = "accepted"])
    /\ UNCHANGED <<vars, handoff, feedback, last, throws>>

-----------------------------------------------------------------------------
(* workflow.v2.worker_successor.create                                     *)

StartSuccessor(m, w, s) ==
    /\ MaySucceed(w, s)
    /\ Begin(m, [Rest EXCEPT !.act = "successor", !.pc = "raw", !.w = w, !.s = s,
                            !.accepted = TRUE])
    /\ Choose(s)
    /\ UNCHANGED <<vars, handoff, feedback, throws>>

(* The spawn previews again.                                               *)
GateSuccessor(m) ==
    /\ In(m, "gate")
    /\ IF SpawnAllowed THEN Step(m, "session") ELSE Step(m, "undo worker")
    /\ UNCHANGED <<vars, handoff, feedback, last, calls, throws>>

SupersedeHandoff(m) ==
    /\ In(m, "supersede")
    /\ LET f == life[m] IN
       IF handoff[f.w] = f.paper /\ f.paper.status # "absent"
       THEN /\ handoff' = [handoff EXCEPT ![f.w] =
                            [status |-> "superseded", successor |-> f.s]]
            /\ Step(m, "worker")
       ELSE Step(m, "undo worker") /\ UNCHANGED handoff
    /\ UNCHANGED <<vars, feedback, last, calls, throws>>

Without(w) == [worker EXCEPT ![w] = NoWorker]

(* workflowV2CleanupWorkerSpawn deletes by id: the worker, then its        *)
(* session run.                                                            *)
CleanupWorker(m) ==
    /\ In(m, "undo spawn")
    /\ worker' = Without(life[m].s)
    /\ Step(m, "undo session")
    /\ UNCHANGED <<clock, plan, session, job, review, at, bounds, handoff, feedback, last, calls, throws>>

CleanupSession(m) ==
    /\ In(m, "undo session")
    /\ session' = Patched(life[m].s, "absent")
    /\ Return(m)
    /\ UNCHANGED <<clock, plan, worker, job, review, at, bounds, handoff, feedback, last, calls, throws>>

LifeStep(m) ==
    \/ \E w \in Worker :
         \/ StartSpawn(m, w)
         \/ StartHandoff(m, w)
         \/ \E unattended \in BOOLEAN : StartRetire(m, w, unattended)
         \/ \E s \in Worker : StartSuccessor(m, w, s)
    \/ ReadSession(m) \/ CreateWorker(m)
    \/ ReadWorker(m) \/ ReadHandoff(m) \/ UpdateWorker(m) \/ PatchSession(m)
    \/ UndoLife(m) \/ UndoHandoff(m)
    \/ WriteHandoff(m)
    \/ GateSuccessor(m) \/ SupersedeHandoff(m)
    \/ CleanupWorker(m) \/ CleanupSession(m)
=============================================================================
