---------------------------- MODULE KernelProofs ----------------------------
(***************************************************************************)
(* Theorems about the worker kernel, for any number of workers, ticks,     *)
(* recorders, runners, backends and managers, and any leases, delays and   *)
(* bounds.                                                                 *)
(***************************************************************************)
EXTENDS WorkerKernel, FiniteSetTheorems, TLAPS

LEMMA InOrder ==
  \A m, n \in Nat : n <= n /\ (m <= n => m <= n + 1)
  OBVIOUS

USE WorkerAssumption

(* What a process may remember at instant t: an instant that is past, and, *)
(* in a review that is being written, its outcome.                         *)
Sound(l, t) ==
    /\ l \in Locals
    /\ l.now <= t
    /\ l.pc \in {"review insert", "review worker"} => l.decision \in Decision

KernelInv == TypeOK /\ \A p \in Process : Sound(at[p], clock)

-----------------------------------------------------------------------------
(* Rows and local variables.                                               *)

LEMMA NoRowTyped ==
  /\ NoWorker \in WorkerRow
  /\ NoJob \in JobRow
  BY DEF NoWorker, NoJob, WorkerRow, JobRow, WorkerStatus, JobStatus, OpenJob

LEMMA Labels ==
  /\ {"expire", "expire session", "claim cas", "claim session", "insert",
      "load", "run", "raw", "settle", "fail guard", "review insert"} \subseteq Label
  /\ {"submit", "fail", "give up"} = ResultKind
  BY DEF Label, ResultKind

LEMMA IdleSound ==
  ASSUME NEW t \in Nat
  PROVE  Sound(Idle, t) /\ Idle.now = 0 /\ Idle.pc = "idle"
  <1>1. (CHOOSE w \in Worker : TRUE) \in Worker
    OBVIOUS
  <1>2. Idle \in Locals
    BY <1>1, NoRowTyped DEF Idle, Locals, Label, SessionStatus, ResultKind
  <1>3. Idle.now = 0 /\ Idle.pc = "idle"
    BY DEF Idle
  <1> QED BY <1>2, <1>3 DEF Sound

(* What the first step of a handler makes of the variables of an idle      *)
(* process.                                                                *)
LEMMA StartSound ==
  ASSUME NEW k \in Locals, NEW t \in Nat, k.now = t,
         k.pc \notin {"review insert", "review worker"}
  PROVE  Sound(k, t)
  <1>1. t <= t
    BY ONLY InOrder, t \in Nat
  <1> QED BY <1>1 DEF Sound

LEMMA ExpireSound ==
  ASSUME NEW t \in Nat
  PROVE  Sound([Idle EXCEPT !.pc = "expire", !.now = t], t)
  <1> DEFINE k == [Idle EXCEPT !.pc = "expire", !.now = t]
  <1>0. Idle \in Locals
    BY IdleSound DEF Sound
  <1>1. k \in Locals /\ k.pc = "expire" /\ k.now = t
    BY <1>0, Labels DEF Locals
  <1> QED BY <1>1, StartSound

LEMMA InsertSound ==
  ASSUME NEW t \in Nat, NEW w \in Worker, NEW r \in WorkerRow,
         NEW a \in 0..MaxAttempts
  PROVE  Sound([Idle EXCEPT !.pc = "insert", !.now = t, !.w = w,
                            !.attempt = a, !.held = r], t)
  <1> DEFINE k == [Idle EXCEPT !.pc = "insert", !.now = t, !.w = w,
                               !.attempt = a, !.held = r]
  <1>0. Idle \in Locals
    BY IdleSound DEF Sound
  <1>1. k \in Locals /\ k.pc = "insert" /\ k.now = t
    BY <1>0, Labels DEF Locals
  <1> QED BY <1>1, StartSound

LEMMA ReportSound ==
  ASSUME NEW t \in Nat, NEW w \in Worker, NEW r \in WorkerRow,
         NEW a \in 0..MaxAttempts, NEW kind \in {"submit", "fail"},
         NEW may \in BOOLEAN
  PROVE  Sound([Idle EXCEPT !.pc = "raw", !.now = t, !.w = w, !.attempt = a,
                            !.held = r, !.kind = kind, !.retry = may], t)
  <1> DEFINE k == [Idle EXCEPT !.pc = "raw", !.now = t, !.w = w, !.attempt = a,
                               !.held = r, !.kind = kind, !.retry = may]
  <1>0. Idle \in Locals
    BY IdleSound DEF Sound
  <1>1. k \in Locals /\ k.pc = "raw" /\ k.now = t
    BY <1>0, Labels DEF Locals
  <1> QED BY <1>1, StartSound

LEMMA ReviewSound ==
  ASSUME NEW t \in Nat, NEW w \in Worker, NEW r \in WorkerRow,
         NEW d \in Decision
  PROVE  Sound([Idle EXCEPT !.pc = "review insert", !.w = w, !.raw = r,
                            !.decision = d], t)
  <1> DEFINE k == [Idle EXCEPT !.pc = "review insert", !.w = w, !.raw = r,
                               !.decision = d]
  <1>0. Idle \in Locals /\ Idle.now = 0
    BY IdleSound DEF Sound
  <1>1. k \in Locals /\ k.now = 0 /\ k.decision = d
    BY <1>0, Labels DEF Locals
  <1> QED BY <1>1 DEF Sound

LEMMA UnleasedTyped ==
  ASSUME NEW r \in WorkerRow, NEW status \in WorkerStatus, NEW next \in Nat
  PROVE  Unleased(r, status, next) \in WorkerRow
  BY DEF Unleased, WorkerRow

LEMMA UnleasedJobTyped ==
  ASSUME NEW j \in JobRow, NEW status \in JobStatus, NEW next \in Nat
  PROVE  UnleasedJob(j, status, next) \in JobRow
  BY DEF UnleasedJob, JobRow

LEMMA ExpiredTyped ==
  ASSUME NEW r \in WorkerRow, NEW t \in Nat
  PROVE  Expired(r, t) \in WorkerRow
  BY UnleasedTyped DEF Expired, WorkerStatus

LEMMA ClaimedTyped ==
  ASSUME NEW r \in WorkerRow, NEW t \in Ticker, NEW now \in Nat,
         r.attempt < MaxAttempts
  PROVE  ClaimedWorker(r, t, now) \in WorkerRow
  <1>1. /\ "running" \in WorkerStatus
        /\ r.attempt + 1 \in 0..MaxAttempts
        /\ now + WorkerLease \in Nat /\ 0 \in Nat
        /\ t \in Ticker \cup {Nobody}
    BY DEF WorkerRow, WorkerStatus
  <1> QED BY <1>1 DEF ClaimedWorker, WorkerRow

LEMMA SettledTyped ==
  ASSUME NEW p, at[p] \in Locals, NEW r \in WorkerRow
  PROVE  Settled(p, r) \in WorkerRow
  <1>1. at[p].now + WorkerDelay \in Nat /\ 0 \in Nat
    BY DEF Locals
  <1>2. {"submitted_for_review", "retry_scheduled", "failed"} \subseteq WorkerStatus
    BY DEF WorkerStatus
  <1>3. /\ Unleased(r, "submitted_for_review", 0) \in WorkerRow
        /\ Unleased(r, "retry_scheduled", at[p].now + WorkerDelay) \in WorkerRow
        /\ Unleased(r, "failed", 0) \in WorkerRow
    BY <1>1, <1>2, UnleasedTyped
  <1> QED BY <1>3 DEF Settled

LEMMA CancelledTyped ==
  ASSUME NEW j \in JobRow
  PROVE  Cancelled(j) \in JobRow
  BY UnleasedJobTyped DEF Cancelled, JobStatus

LEMMA ExpiredJobTyped ==
  ASSUME NEW j \in JobRow, NEW t \in Nat
  PROVE  ExpiredJob(j, t) \in JobRow
  BY UnleasedJobTyped DEF ExpiredJob, JobStatus, OpenJob

LEMMA ClaimedJobTyped ==
  ASSUME NEW j \in JobRow, NEW r \in Runner, NEW t \in Nat
  PROVE  ClaimedJob(j, r, t) \in JobRow
  <1>1. /\ "running" \in JobStatus
        /\ j.tries + 1 \in Nat /\ t + JobLease \in Nat /\ 0 \in Nat
        /\ r \in Runner \cup {Nobody}
    BY DEF JobRow, JobStatus, OpenJob
  <1> QED BY <1>1 DEF ClaimedJob, JobRow

LEMMA RestoredTyped ==
  ASSUME TypeOK, NEW w \in Worker, NEW r \in WorkerRow
  PROVE  Restored(w, r) \in [Worker -> WorkerRow]
  BY DEF Restored, TypeOK

(* A process moves within its handler, or changes what it remembers.       *)
LEMMA BecomeSound ==
  ASSUME KernelInv, NEW p \in Process, NEW l, Sound(l, clock), Become(p, l)
  PROVE  /\ at' \in [Process -> Locals]
         /\ \A q \in Process : Sound(at'[q], clock)
  <1>1. at' = [at EXCEPT ![p] = l] /\ at \in [Process -> Locals] /\ l \in Locals
    BY DEF Become, KernelInv, TypeOK, Sound
  <1>2. at' \in [Process -> Locals]
    BY <1>1
  <1>3. ASSUME NEW q \in Process PROVE Sound(at'[q], clock)
    <2>1. at'[q] = l \/ at'[q] = at[q]
      BY <1>1
    <2> QED BY <2>1 DEF KernelInv
  <1> QED BY <1>2, <1>3

LEMMA StopSound ==
  ASSUME KernelInv, NEW p \in Process, Stop(p)
  PROVE  /\ at' \in [Process -> Locals]
         /\ \A q \in Process : Sound(at'[q], clock)
  BY IdleSound, BecomeSound DEF Stop, KernelInv, TypeOK

LEMMA GotoSound ==
  ASSUME KernelInv, NEW p \in Process, NEW pc \in Label, Goto(p, pc),
         \/ pc \notin {"review insert", "review worker"}
         \/ at[p].decision \in Decision
  PROVE  /\ at' \in [Process -> Locals]
         /\ \A q \in Process : Sound(at'[q], clock)
  <1> DEFINE l == [at[p] EXCEPT !.pc = pc]
  <1>1. Sound(at[p], clock)
    BY DEF KernelInv
  <1>2. /\ l \in Locals /\ l.now = at[p].now /\ l.pc = pc
        /\ l.decision = at[p].decision
    BY <1>1 DEF Sound, Locals
  <1>3. Sound(l, clock)
    BY <1>1, <1>2 DEF Sound
  <1> QED BY <1>3, BecomeSound DEF Goto

LEMMA Remembered ==
  ASSUME KernelInv, NEW p \in Process
  PROVE  /\ clock \in Nat
         /\ at[p] \in Locals
         /\ at[p].now \in Nat /\ at[p].now <= clock
         /\ at[p].w \in Worker /\ at[p].attempt \in 0..MaxAttempts
         /\ at[p].raw \in WorkerRow /\ at[p].held \in WorkerRow
         /\ at[p].sess \in SessionStatus
         /\ at[p].until \in Nat
         /\ worker[at[p].w] \in WorkerRow
         /\ session[at[p].w] \in SessionStatus
  <1>1. Sound(at[p], clock) /\ TypeOK
    BY DEF KernelInv
  <1> QED BY <1>1 DEF Sound, Locals, TypeOK

LEMMA PatchTyped ==
  ASSUME TypeOK, NEW w \in Worker, NEW status \in SessionStatus,
         PatchSucceeds(w, status) \/ PatchThrows(w, status)
  PROVE  session' \in [Worker -> SessionStatus] /\ faults' \in Nat
  BY DEF TypeOK, PatchSucceeds, PatchThrows, Patched

(* What is to be shown of a step in which time does not pass.              *)
LEMMA Assembled ==
  ASSUME KernelInv, clock' = clock, plan' \in PlanRow,
         worker' \in [Worker -> WorkerRow],
         session' \in [Worker -> SessionStatus],
         job' \in [JobId -> JobRow],
         review' \in [Manager -> Decision \cup {"none"}],
         at' \in [Process -> Locals],
         \A q \in Process : Sound(at'[q], clock),
         faults' \in Nat, crashes' \in Nat
  PROVE  KernelInv'
  <1>1. TypeOK'
    BY DEF TypeOK, KernelInv
  <1>2. ASSUME NEW q \in Process PROVE Sound(at'[q], clock')
    OBVIOUS
  <1> QED BY <1>1, <1>2 DEF KernelInv

-----------------------------------------------------------------------------
(* A tick.                                                                 *)

LEMMA TickInv ==
  ASSUME KernelInv, NEW t \in Ticker, TickStep(t)
  PROVE  KernelInv'
  <1> t \in Process
    BY DEF Process
  <1>r. /\ at[t] \in Locals /\ at[t].now \in Nat /\ at[t].now <= clock
        /\ at[t].w \in Worker /\ worker[at[t].w] \in WorkerRow
        /\ at[t].raw \in WorkerRow /\ at[t].held \in WorkerRow
    BY Remembered
  <1>0. /\ TypeOK /\ clock \in Nat /\ plan \in PlanRow
        /\ worker \in [Worker -> WorkerRow]
        /\ session \in [Worker -> SessionStatus]
        /\ job \in [JobId -> JobRow]
        /\ review \in [Manager -> Decision \cup {"none"}]
        /\ faults \in Nat /\ crashes \in Nat
    BY DEF KernelInv, TypeOK
  <1>1. CASE StartTick(t)
    <2> DEFINE l == [Idle EXCEPT !.pc = "expire", !.now = clock]
    <2>1. Sound(l, clock)
      BY <1>0, ExpireSound
    <2>2. at' \in [Process -> Locals] /\ \A q \in Process : Sound(at'[q], clock)
      BY <2>1, <1>1, BecomeSound DEF StartTick
    <2> QED BY <1>0, <1>r, <2>2, <1>1, Assembled DEF StartTick, tables, bounds
  <1>2. ASSUME NEW w \in Worker, ExpireWorker(t, w) PROVE KernelInv'
    <2> DEFINE l == [at[t] EXCEPT !.pc = "expire session", !.w = w, !.raw = worker[w]]
    <2>1. Sound(l, clock)
      BY <1>0, <1>r DEF Sound, Locals, Label
    <2>2. at' \in [Process -> Locals] /\ \A q \in Process : Sound(at'[q], clock)
      BY <2>1, <1>2, BecomeSound DEF ExpireWorker
    <2>3. Expired(worker[w], at[t].now) \in WorkerRow
      BY <1>0, <1>r, ExpiredTyped
    <2>4. worker' \in [Worker -> WorkerRow]
      BY <1>0, <1>r, <1>2, <2>3 DEF ExpireWorker
    <2> QED BY <1>0, <1>r, <2>2, <2>4, <1>2, Assembled DEF ExpireWorker, bounds
  <1>3. CASE ExpireSession(t)
    <2>1. at' \in [Process -> Locals] /\ \A q \in Process : Sound(at'[q], clock)
      BY <1>3, GotoSound DEF ExpireSession, Label
    <2>2. session' \in [Worker -> SessionStatus] /\ faults' \in Nat
      BY <1>0, <1>r, <1>3, PatchTyped DEF ExpireSession, SessionStatus
    <2> QED BY <1>0, <1>r, <2>1, <2>2, <1>3, Assembled DEF ExpireSession
  <1>4. CASE ExpireJobs(t)
    <2>1. at' \in [Process -> Locals] /\ \A q \in Process : Sound(at'[q], clock)
      BY <1>4, GotoSound DEF ExpireJobs, Label
    <2>2. job' \in [JobId -> JobRow]
      BY <1>0, <1>r, <1>4, CancelledTyped DEF ExpireJobs
    <2> QED BY <1>0, <1>r, <2>1, <2>2, <1>4, Assembled DEF ExpireJobs, bounds
  <1>5. CASE ExpireUndo(t) \/ ClaimUndo(t) \/ ExecuteUndo(t)
    <2>1. at' \in [Process -> Locals] /\ \A q \in Process : Sound(at'[q], clock)
      BY <1>5, GotoSound, StopSound DEF ExpireUndo, ClaimUndo, ExecuteUndo, Label
    <2>2. worker' \in [Worker -> WorkerRow]
      <3>1. \/ worker' = Restored(at[t].w, at[t].raw)
            \/ worker' = Restored(at[t].w, at[t].held)
        BY <1>5 DEF ExpireUndo, ClaimUndo, ExecuteUndo, RestoreWorker
      <3>2. /\ Restored(at[t].w, at[t].raw) \in [Worker -> WorkerRow]
            /\ Restored(at[t].w, at[t].held) \in [Worker -> WorkerRow]
        BY <1>0, <1>r, RestoredTyped
      <3> QED BY <3>1, <3>2
    <2>3. UNCHANGED <<clock, plan, session, job, review, bounds>>
      BY <1>5 DEF ExpireUndo, ClaimUndo, ExecuteUndo
    <2> QED BY <1>0, <1>r, <2>1, <2>2, <2>3, Assembled DEF bounds
  <1>6. CASE ExpireDone(t)
    <2>1. at' \in [Process -> Locals] /\ \A q \in Process : Sound(at'[q], clock)
      BY <1>6, GotoSound DEF ExpireDone, Label
    <2> QED BY <1>0, <1>r, <2>1, <1>6, Assembled DEF ExpireDone, tables, bounds
  <1>7. CASE ClaimSelect(t)
    <2>1. ASSUME NEW w \in Worker
          PROVE  Sound([at[t] EXCEPT !.pc = "claim cas", !.w = w, !.raw = worker[w]], clock)
      BY <1>0, <1>r DEF Sound, Locals, Label
    <2>2. at' \in [Process -> Locals] /\ \A q \in Process : Sound(at'[q], clock)
      BY <2>1, <1>7, BecomeSound, StopSound DEF ClaimSelect
    <2> QED BY <1>0, <1>r, <2>2, <1>7, Assembled DEF ClaimSelect, tables, bounds
  <1>8. CASE ClaimCas(t)
    <2>1. at' \in [Process -> Locals] /\ \A q \in Process : Sound(at'[q], clock)
      BY <1>8, GotoSound, StopSound DEF ClaimCas, Label
    <2>2. worker' \in [Worker -> WorkerRow]
      <3> DEFINE r == worker[at[t].w]
      <3>1. \/ worker' = worker
            \/ /\ r.attempt < MaxAttempts
               /\ worker' = [worker EXCEPT ![at[t].w] = ClaimedWorker(r, t, at[t].now)]
        BY <1>8 DEF ClaimCas, MayClaimWorker
      <3>2. r.attempt < MaxAttempts => ClaimedWorker(r, t, at[t].now) \in WorkerRow
        BY <1>r, ClaimedTyped
      <3> QED BY <1>0, <1>r, <3>1, <3>2
    <2> QED BY <1>0, <1>r, <2>1, <2>2, <1>8, Assembled DEF ClaimCas, bounds
  <1>9. CASE ClaimReread(t)
    <2>1. Sound([at[t] EXCEPT !.pc = "claim session", !.held = worker[at[t].w]], clock)
      BY <1>0, <1>r DEF Sound, Locals, Label
    <2>2. at' \in [Process -> Locals] /\ \A q \in Process : Sound(at'[q], clock)
      BY <2>1, <1>9, BecomeSound, StopSound DEF ClaimReread
    <2> QED BY <1>0, <1>r, <2>2, <1>9, Assembled DEF ClaimReread, tables, bounds
  <1>10. CASE ClaimSession(t)
    <2>1. at' \in [Process -> Locals] /\ \A q \in Process : Sound(at'[q], clock)
      BY <1>10, GotoSound, StopSound DEF ClaimSession, Label
    <2>2. session' \in [Worker -> SessionStatus] /\ faults' \in Nat
      BY <1>0, <1>r, <1>10, PatchTyped DEF ClaimSession, SessionStatus
    <2> QED BY <1>0, <1>r, <2>1, <2>2, <1>10, Assembled DEF ClaimSession
  <1>11. CASE Execute(t)
    <2>1. at' \in [Process -> Locals] /\ \A q \in Process : Sound(at'[q], clock)
      BY <1>11, GotoSound, StopSound DEF Execute, Label
    <2>2. Submitted(worker[at[t].w]) \in WorkerRow
      BY <1>0, <1>r, UnleasedTyped DEF Submitted, WorkerRow, WorkerStatus
    <2>3. worker' \in [Worker -> WorkerRow]
      BY <1>0, <1>r, <1>11, <2>2 DEF Execute
    <2> QED BY <1>0, <1>r, <2>1, <2>3, <1>11, Assembled DEF Execute, bounds
  <1>12. CASE ExecuteSession(t)
    <2>1. at' \in [Process -> Locals] /\ \A q \in Process : Sound(at'[q], clock)
      BY <1>12, GotoSound, StopSound DEF ExecuteSession, AfterResult, Label
    <2>2. session' \in [Worker -> SessionStatus] /\ faults' \in Nat
      BY <1>0, <1>r, <1>12, PatchTyped DEF ExecuteSession, SessionStatus
    <2> QED BY <1>0, <1>r, <2>1, <2>2, <1>12, Assembled DEF ExecuteSession
  <1>13. CASE EndLoop(t)
    <2>1. at' \in [Process -> Locals] /\ \A q \in Process : Sound(at'[q], clock)
      BY <1>13, StopSound DEF EndLoop
    <2>2. plan' \in PlanRow
      BY <1>0, <1>r, <1>13 DEF EndLoop, PlanRow
    <2> QED BY <1>0, <1>r, <2>1, <2>2, <1>13, Assembled DEF EndLoop, bounds
  <1> QED BY <1>1, <1>2, <1>3, <1>4, <1>5, <1>6, <1>7, <1>8, <1>9, <1>10, <1>11,
             <1>12, <1>13 DEF TickStep

-----------------------------------------------------------------------------
(* The recording of an adapter job, a review.                              *)

LEMMA RecordInv ==
  ASSUME KernelInv, NEW c \in Recorder, RecordStep(c)
  PROVE  KernelInv'
  <1> c \in Process
    BY DEF Process
  <1>r. /\ at[c] \in Locals /\ at[c].w \in Worker
        /\ at[c].attempt \in 0..MaxAttempts
    BY Remembered
  <1>0. /\ TypeOK /\ clock \in Nat /\ plan \in PlanRow
        /\ worker \in [Worker -> WorkerRow]
        /\ session \in [Worker -> SessionStatus]
        /\ job \in [JobId -> JobRow]
        /\ review \in [Manager -> Decision \cup {"none"}]
        /\ faults \in Nat /\ crashes \in Nat
    BY DEF KernelInv, TypeOK
  <1>1. ASSUME NEW w \in Worker, StartRecord(c, w) PROVE KernelInv'
    <2> DEFINE l == [Idle EXCEPT !.pc = "insert", !.now = clock, !.w = w,
                                 !.attempt = worker[w].attempt,
                                 !.held = worker[w]]
    <2>2. worker[w] \in WorkerRow /\ worker[w].attempt \in 0..MaxAttempts
      BY <1>0 DEF WorkerRow
    <2>3. Sound(l, clock)
      BY <1>0, <2>2, InsertSound
    <2>4. at' \in [Process -> Locals] /\ \A q \in Process : Sound(at'[q], clock)
      BY <2>3, <1>1, BecomeSound DEF StartRecord
    <2> QED BY <1>0, <2>4, <1>1, Assembled DEF StartRecord, tables, bounds
  <1>2. CASE InsertJob(c)
    <2>1. at' \in [Process -> Locals] /\ \A q \in Process : Sound(at'[q], clock)
      BY <1>2, GotoSound, StopSound DEF InsertJob, Label
    <2>2. [NoJob EXCEPT !.status = "queued"] \in JobRow
      BY NoRowTyped DEF JobRow, JobStatus, OpenJob
    <2>3. job' \in [JobId -> JobRow]
      BY <1>0, <1>2, <2>2 DEF InsertJob
    <2> QED BY <1>0, <2>1, <2>3, <1>2, Assembled DEF InsertJob, bounds
  <1>3. CASE BindJob(c)
    <2>1. at' \in [Process -> Locals] /\ \A q \in Process : Sound(at'[q], clock)
      BY <1>3, GotoSound, StopSound DEF BindJob, Label
    <2> QED BY <1>0, <2>1, <1>3, Assembled DEF BindJob, tables, bounds
  <1>4. CASE DeleteJob(c)
    <2>1. at' \in [Process -> Locals] /\ \A q \in Process : Sound(at'[q], clock)
      BY <1>4, StopSound DEF DeleteJob
    <2>2. job' \in [JobId -> JobRow]
      BY <1>0, <1>4, NoRowTyped DEF DeleteJob
    <2> QED BY <1>0, <2>1, <2>2, <1>4, Assembled DEF DeleteJob, bounds
  <1> QED BY <1>1, <1>2, <1>3, <1>4 DEF RecordStep

LEMMA ReviewInv ==
  ASSUME KernelInv, NEW m \in Manager, ReviewStep(m)
  PROVE  KernelInv'
  <1> m \in Process
    BY DEF Process
  <1>r. /\ at[m] \in Locals /\ at[m].w \in Worker
        /\ at[m].raw \in WorkerRow /\ worker[at[m].w] \in WorkerRow
    BY Remembered
  <1>d. At(m, "review insert") \/ At(m, "review worker") => at[m].decision \in Decision
    BY DEF At, KernelInv, Sound
  <1>0. /\ TypeOK /\ clock \in Nat /\ plan \in PlanRow
        /\ worker \in [Worker -> WorkerRow]
        /\ session \in [Worker -> SessionStatus]
        /\ job \in [JobId -> JobRow]
        /\ review \in [Manager -> Decision \cup {"none"}]
        /\ faults \in Nat /\ crashes \in Nat
    BY DEF KernelInv, TypeOK
  <1>1. ASSUME NEW w \in Worker, StartReview(m, w) PROVE KernelInv'
    <2>2. ASSUME NEW d \in Decision
          PROVE  Sound([Idle EXCEPT !.pc = "review insert", !.w = w,
                                    !.raw = worker[w], !.decision = d], clock)
      BY <1>0, ReviewSound
    <2>3. at' \in [Process -> Locals] /\ \A q \in Process : Sound(at'[q], clock)
      BY <2>2, <1>1, BecomeSound DEF StartReview
    <2> QED BY <1>0, <2>3, <1>1, Assembled DEF StartReview, tables, bounds
  <1>2. CASE InsertReview(m)
    <2>1. at' \in [Process -> Locals] /\ \A q \in Process : Sound(at'[q], clock)
      BY <1>2, <1>d, GotoSound DEF InsertReview, Label
    <2>2. review' \in [Manager -> Decision \cup {"none"}]
      BY <1>0, <1>2, <1>d DEF InsertReview
    <2> QED BY <1>0, <2>1, <2>2, <1>2, Assembled DEF InsertReview, bounds
  <1>3. CASE ReviewWorker(m)
    <2>1. at' \in [Process -> Locals] /\ \A q \in Process : Sound(at'[q], clock)
      BY <1>3, GotoSound DEF ReviewWorker, Label
    <2>2. Unleased(worker[at[m].w], at[m].decision, 0) \in WorkerRow
      BY <1>3, <1>r, <1>d, UnleasedTyped DEF ReviewWorker, WorkerStatus
    <2>3. worker' \in [Worker -> WorkerRow]
      BY <1>0, <1>3, <2>2 DEF ReviewWorker
    <2> QED BY <1>0, <2>1, <2>3, <1>3, Assembled DEF ReviewWorker, bounds
  <1>4. CASE ReviewSession(m)
    <2>1. at' \in [Process -> Locals] /\ \A q \in Process : Sound(at'[q], clock)
      BY <1>4, GotoSound, StopSound DEF ReviewSession, Label
    <2>2. session' \in [Worker -> SessionStatus] /\ faults' \in Nat
      BY <1>0, <1>r, <1>4, PatchTyped DEF ReviewSession, SessionStatus
    <2> QED BY <1>0, <2>1, <2>2, <1>4, Assembled DEF ReviewSession
  <1>5. CASE ReviewUndo(m)
    <2>1. at' \in [Process -> Locals] /\ \A q \in Process : Sound(at'[q], clock)
      BY <1>5, GotoSound DEF ReviewUndo, Label
    <2>2. worker' \in [Worker -> WorkerRow]
      BY <1>0, <1>r, <1>5, RestoredTyped DEF ReviewUndo, RestoreWorker
    <2> QED BY <1>0, <2>1, <2>2, <1>5, Assembled DEF ReviewUndo, bounds
  <1>6. CASE ReviewDelete(m)
    <2>1. at' \in [Process -> Locals] /\ \A q \in Process : Sound(at'[q], clock)
      BY <1>6, StopSound DEF ReviewDelete
    <2>2. review' \in [Manager -> Decision \cup {"none"}]
      BY <1>0, <1>6 DEF ReviewDelete
    <2> QED BY <1>0, <2>1, <2>2, <1>6, Assembled DEF ReviewDelete, bounds
  <1> QED BY <1>1, <1>2, <1>3, <1>4, <1>5, <1>6 DEF ReviewStep

-----------------------------------------------------------------------------
(* A result.                                                               *)

LEMMA ThrownSound ==
  ASSUME KernelInv, NEW p \in Process, Thrown(p)
  PROVE  /\ at' \in [Process -> Locals]
         /\ \A q \in Process : Sound(at'[q], clock)
  <1>1. Sound([at[p] EXCEPT !.pc = "fail guard", !.kind = "give up", !.retry = FALSE], clock)
    BY Remembered, Labels DEF Sound, Locals
  <1> QED BY <1>1, BecomeSound, StopSound DEF Thrown

LEMMA ResultInv ==
  ASSUME KernelInv, NEW p \in Runner \cup Reporter, ResultStep(p)
  PROVE  KernelInv'
  <1> p \in Process
    BY DEF Process
  <1>r. /\ at[p] \in Locals /\ at[p].w \in Worker /\ at[p].now <= clock
        /\ at[p].raw \in WorkerRow /\ worker[at[p].w] \in WorkerRow
        /\ session[at[p].w] \in SessionStatus /\ at[p].sess \in SessionStatus
    BY Remembered
  <1>0. /\ TypeOK /\ clock \in Nat /\ plan \in PlanRow
        /\ worker \in [Worker -> WorkerRow]
        /\ session \in [Worker -> SessionStatus]
        /\ job \in [JobId -> JobRow]
        /\ review \in [Manager -> Decision \cup {"none"}]
        /\ faults \in Nat /\ crashes \in Nat
    BY DEF KernelInv, TypeOK
  <1>1. CASE ReadRaw(p)
    <2>1. Sound([at[p] EXCEPT !.pc = "settle", !.raw = worker[at[p].w],
                              !.sess = session[at[p].w]], clock)
      BY <1>0, <1>r DEF Sound, Locals, Label
    <2>2. at' \in [Process -> Locals] /\ \A q \in Process : Sound(at'[q], clock)
      BY <2>1, <1>1, BecomeSound DEF ReadRaw
    <2> QED BY <1>0, <2>2, <1>1, Assembled DEF ReadRaw, tables, bounds
  <1>2. CASE Settle(p)
    <2>1. at' \in [Process -> Locals] /\ \A q \in Process : Sound(at'[q], clock)
      BY <1>2, GotoSound, ThrownSound DEF Settle, Label
    <2>2. Settled(p, worker[at[p].w]) \in WorkerRow
      BY <1>r, SettledTyped
    <2>3. worker' \in [Worker -> WorkerRow]
      BY <1>0, <1>2, <2>2 DEF Settle
    <2> QED BY <1>0, <2>1, <2>3, <1>2, Assembled DEF Settle, bounds
  <1>3. CASE SettleSession(p)
    <2>1. at' \in [Process -> Locals] /\ \A q \in Process : Sound(at'[q], clock)
      BY <1>3, GotoSound DEF SettleSession, Label
    <2>2. PICK status \in SessionStatus :
             PatchSucceeds(at[p].w, status) \/ PatchThrows(at[p].w, status)
      BY <1>3 DEF SettleSession, SessionStatus
    <2>3. session' \in [Worker -> SessionStatus] /\ faults' \in Nat
      BY <1>0, <1>r, <2>2, PatchTyped
    <2> QED BY <1>0, <2>1, <2>3, <1>3, Assembled DEF SettleSession
  <1>4. CASE SettleJob(p)
    <2>1. at' \in [Process -> Locals] /\ \A q \in Process : Sound(at'[q], clock)
      BY <1>4, GotoSound, StopSound DEF SettleJob, Recorded, AfterResult, Label
    <2>2. ASSUME NEW j \in JobRow PROVE JobClosed(p, j) \in JobRow
      BY UnleasedJobTyped DEF JobClosed, JobStatus
    <2>3. job' \in [JobId -> JobRow]
      <3> DEFINE j == <<at[p].w, at[p].attempt>>
      <3>1. job' = job \/ job' = [job EXCEPT ![j] = JobClosed(p, job[j])]
        BY <1>4 DEF SettleJob
      <3>2. j \in JobId => JobClosed(p, job[j]) \in JobRow
        BY <1>0, <2>2
      <3> QED BY <1>0, <3>1, <3>2
    <2> QED BY <1>0, <2>1, <2>3, <1>4, Assembled DEF SettleJob, bounds
  <1>5. CASE UndoWorker(p)
    <2>1. at' \in [Process -> Locals] /\ \A q \in Process : Sound(at'[q], clock)
      BY <1>5, GotoSound DEF UndoWorker, Label
    <2>2. worker' \in [Worker -> WorkerRow]
      BY <1>0, <1>r, <1>5, RestoredTyped DEF UndoWorker, RestoreWorker
    <2> QED BY <1>0, <2>1, <2>2, <1>5, Assembled DEF UndoWorker, bounds
  <1>6. CASE UndoSession(p)
    <2>1. at' \in [Process -> Locals] /\ \A q \in Process : Sound(at'[q], clock)
      BY <1>6, ThrownSound DEF UndoSession
    <2>2. session' \in [Worker -> SessionStatus]
      BY <1>0, <1>r, <1>6 DEF UndoSession, Patched
    <2> QED BY <1>0, <2>1, <2>2, <1>6, Assembled DEF UndoSession, bounds
  <1>7. CASE EndLoop(p)
    <2>1. at' \in [Process -> Locals] /\ \A q \in Process : Sound(at'[q], clock)
      BY <1>7, StopSound DEF EndLoop
    <2>2. plan' \in PlanRow
      BY <1>0, <1>7 DEF EndLoop, PlanRow
    <2> QED BY <1>0, <2>1, <2>2, <1>7, Assembled DEF EndLoop, bounds
  <1> QED BY <1>1, <1>2, <1>3, <1>4, <1>5, <1>6, <1>7 DEF ResultStep

LEMMA ReportInv ==
  ASSUME KernelInv, NEW b \in Reporter, ReportStep(b)
  PROVE  KernelInv'
  <1> b \in Process
    BY DEF Process
  <1>0. /\ TypeOK /\ clock \in Nat /\ plan \in PlanRow
        /\ worker \in [Worker -> WorkerRow]
        /\ session \in [Worker -> SessionStatus]
        /\ job \in [JobId -> JobRow]
        /\ review \in [Manager -> Decision \cup {"none"}]
        /\ faults \in Nat /\ crashes \in Nat
    BY DEF KernelInv, TypeOK
  <1>1. ASSUME NEW w \in Worker, StartReport(b, w) PROVE KernelInv'
    <2>2. worker[w] \in WorkerRow /\ worker[w].attempt \in 0..MaxAttempts
      BY <1>0 DEF WorkerRow
    <2>3. ASSUME NEW kind \in {"submit", "fail"}, NEW may \in BOOLEAN
          PROVE  Sound([Idle EXCEPT !.pc = "raw", !.now = clock, !.w = w,
                                    !.attempt = worker[w].attempt,
                                    !.held = worker[w], !.kind = kind,
                                    !.retry = may], clock)
      BY <1>0, <2>2, ReportSound
    <2>4. at' \in [Process -> Locals] /\ \A q \in Process : Sound(at'[q], clock)
      BY <2>3, <1>1, BecomeSound DEF StartReport
    <2> QED BY <1>0, <2>4, <1>1, Assembled DEF StartReport, tables, bounds
  <1> QED BY <1>1, ResultInv DEF ReportStep

-----------------------------------------------------------------------------
(* A runner.                                                               *)

LEMMA RunnerInv ==
  ASSUME KernelInv, NEW r \in Runner, RunnerStep(r)
  PROVE  KernelInv'
  <1> r \in Process
    BY DEF Process
  <1>r. /\ at[r] \in Locals /\ at[r].w \in Worker /\ at[r].now \in Nat
        /\ at[r].now <= clock /\ worker[at[r].w] \in WorkerRow
    BY Remembered
  <1>0. /\ TypeOK /\ clock \in Nat /\ plan \in PlanRow
        /\ worker \in [Worker -> WorkerRow]
        /\ session \in [Worker -> SessionStatus]
        /\ job \in [JobId -> JobRow]
        /\ review \in [Manager -> Decision \cup {"none"}]
        /\ faults \in Nat /\ crashes \in Nat
    BY DEF KernelInv, TypeOK
  <1>n. ASSUME NEW t \in at[r].now..clock
        PROVE  t \in Nat /\ t <= clock
    BY <1>0, <1>r
  <1>1. CASE StartDrain(r)
    <2>1. Sound([Idle EXCEPT !.pc = "expire", !.now = clock], clock)
      BY <1>0, ExpireSound
    <2>2. at' \in [Process -> Locals] /\ \A q \in Process : Sound(at'[q], clock)
      BY <2>1, <1>1, BecomeSound DEF StartDrain
    <2> QED BY <1>0, <2>2, <1>1, Assembled DEF StartDrain, tables, bounds
  <1>2. ASSUME NEW j \in JobId, ExpireJob(r, j) PROVE KernelInv'
    <2>1. ExpiredJob(job[j], at[r].now) \in JobRow
      BY <1>0, <1>r, ExpiredJobTyped
    <2>2. job' \in [JobId -> JobRow]
      BY <1>0, <1>2, <2>1 DEF ExpireJob
    <2>3. at' \in [Process -> Locals] /\ \A q \in Process : Sound(at'[q], clock)
      BY <1>2 DEF ExpireJob, KernelInv, TypeOK
    <2> QED BY <1>0, <2>2, <2>3, <1>2, Assembled DEF ExpireJob, bounds
  <1>3. CASE JobsExpired(r)
    <2>1. at' \in [Process -> Locals] /\ \A q \in Process : Sound(at'[q], clock)
      BY <1>3, GotoSound DEF JobsExpired, Label
    <2> QED BY <1>0, <2>1, <1>3, Assembled DEF JobsExpired, tables, bounds
  <1>4. CASE ClaimJob(r)
    <2>1. ASSUME NEW j \in JobId
          PROVE  Sound([at[r] EXCEPT !.pc = "load", !.w = j[1], !.attempt = j[2],
                                     !.until = at[r].now + JobLease], clock)
      <3>1. j[1] \in Worker /\ j[2] \in 0..MaxAttempts /\ at[r].now + JobLease \in Nat
        BY <1>r DEF JobId, Attempt
      <3> QED BY <3>1, <1>r, Labels DEF Sound, Locals
    <2>2. at' \in [Process -> Locals] /\ \A q \in Process : Sound(at'[q], clock)
      BY <2>1, <1>4, BecomeSound, StopSound DEF ClaimJob
    <2>3. ASSUME NEW j \in JobId PROVE ClaimedJob(job[j], r, at[r].now) \in JobRow
      BY <1>0, <1>r, ClaimedJobTyped
    <2>4. job' \in [JobId -> JobRow]
      BY <1>0, <1>4, <2>3 DEF ClaimJob
    <2> QED BY <1>0, <2>2, <2>4, <1>4, Assembled DEF ClaimJob, bounds
  <1>5. CASE LoadWorker(r)
    <2>1. Sound([at[r] EXCEPT !.pc = "run", !.held = worker[at[r].w]], clock)
      BY <1>r, Labels DEF Sound, Locals
    <2>2. at' \in [Process -> Locals] /\ \A q \in Process : Sound(at'[q], clock)
      BY <2>1, <1>5, BecomeSound, ThrownSound DEF LoadWorker
    <2> QED BY <1>0, <2>2, <1>5, Assembled DEF LoadWorker, tables, bounds
  <1>6. CASE Heartbeat(r)
    <2> DEFINE j == <<at[r].w, at[r].attempt>>
    <2>0. At(r, "run")
      BY <1>6 DEF Heartbeat
    <2>1. PICK t \in at[r].now..clock :
             /\ job' = [job EXCEPT ![j] = [job[j] EXCEPT !.until = t + JobLease]]
             /\ \E known \in {at[r].until, t + JobLease} :
                  Become(r, [at[r] EXCEPT !.until = known])
      BY <1>6 DEF Heartbeat
    <2>2. t + JobLease \in Nat
      BY <1>n
    <2>3. job' \in [JobId -> JobRow]
      BY <1>0, <2>1, <2>2 DEF JobRow
    <2>4. ASSUME NEW known \in {at[r].until, t + JobLease}
          PROVE  Sound([at[r] EXCEPT !.until = known], clock)
      BY <1>r, <2>0, <2>2 DEF Sound, Locals, At
    <2>5. at' \in [Process -> Locals] /\ \A q \in Process : Sound(at'[q], clock)
      BY <2>1, <2>4, BecomeSound
    <2> QED BY <1>0, <2>3, <2>5, <1>6, Assembled DEF Heartbeat, bounds
  <1>7. CASE HandBack(r)
    <2> DEFINE j == <<at[r].w, at[r].attempt>>
    <2>1. PICK t \in at[r].now..clock :
             \/ /\ job' = [job EXCEPT ![j] =
                             UnleasedJob(job[j], "retry_scheduled", t + JobDelay)]
                /\ Stop(r)
             \/ Thrown(r) /\ job' = job
      BY <1>7 DEF HandBack
    <2>2. t + JobDelay \in Nat /\ "retry_scheduled" \in JobStatus
      BY <1>n DEF JobStatus, OpenJob
    <2>3. j \in JobId => UnleasedJob(job[j], "retry_scheduled", t + JobDelay) \in JobRow
      BY <1>0, <2>2, UnleasedJobTyped
    <2>4. job' \in [JobId -> JobRow]
      BY <1>0, <2>1, <2>3
    <2>5. at' \in [Process -> Locals] /\ \A q \in Process : Sound(at'[q], clock)
      BY <2>1, StopSound, ThrownSound
    <2> QED BY <1>0, <2>4, <2>5, <1>7, Assembled DEF HandBack, bounds
  <1>8. CASE ReturnResult(r)
    <2>1. ASSUME NEW t \in at[r].now..clock
          PROVE  /\ Sound([at[r] EXCEPT !.pc = "raw", !.now = t, !.kind = "submit"], clock)
                 /\ Sound([at[r] EXCEPT !.pc = "fail guard", !.now = t, !.kind = "fail"], clock)
                 /\ \A may \in BOOLEAN :
                      Sound([at[r] EXCEPT !.pc = "raw", !.now = t, !.kind = "fail",
                                          !.retry = may], clock)
      BY <1>r, <1>n, Labels DEF Sound, Locals
    <2>2. at' \in [Process -> Locals] /\ \A q \in Process : Sound(at'[q], clock)
      BY <2>1, <1>8, BecomeSound DEF ReturnResult
    <2> QED BY <1>0, <2>2, <1>8, Assembled DEF ReturnResult, tables, bounds
  <1>9. CASE FailGuard(r)
    <2>1. Sound([at[r] EXCEPT !.pc = "raw", !.held = worker[at[r].w]], clock)
      BY <1>r, Labels DEF Sound, Locals
    <2>2. at' \in [Process -> Locals] /\ \A q \in Process : Sound(at'[q], clock)
      BY <2>1, <1>9, BecomeSound, StopSound, ThrownSound DEF FailGuard
    <2> QED BY <1>0, <2>2, <1>9, Assembled DEF FailGuard, tables, bounds
  <1> QED BY <1>1, <1>2, <1>3, <1>4, <1>5, <1>6, <1>7, <1>8, <1>9, ResultInv
          DEF RunnerStep

LEMMA OutsideInv ==
  ASSUME KernelInv, Environment \/ TimePasses \/ UNCHANGED vars
  PROVE  KernelInv'
  <1>0. /\ TypeOK /\ clock \in Nat /\ plan \in PlanRow
        /\ worker \in [Worker -> WorkerRow]
        /\ session \in [Worker -> SessionStatus]
        /\ job \in [JobId -> JobRow]
        /\ review \in [Manager -> Decision \cup {"none"}]
        /\ at \in [Process -> Locals]
        /\ \A q \in Process : Sound(at[q], clock)
        /\ faults \in Nat /\ crashes \in Nat
    BY DEF KernelInv, TypeOK
  <1>1. ASSUME NEW w \in Worker, Spawn(w) PROVE KernelInv'
    <2>1. Unleased(NoWorker, "queued", 0) \in WorkerRow
      BY NoRowTyped, UnleasedTyped DEF WorkerStatus
    <2>2. worker' \in [Worker -> WorkerRow] /\ session' \in [Worker -> SessionStatus]
      BY <1>0, <1>1, <2>1 DEF Spawn, Patched, SessionStatus
    <2> QED BY <1>0, <1>1, <2>2, Assembled DEF Spawn, bounds
  <1>2. CASE Intervene
    <2>1. plan' \in PlanRow
      BY <1>0, <1>2 DEF Intervene, PlanRow
    <2> QED BY <1>0, <1>2, <2>1, Assembled DEF Intervene, bounds
  <1>3. ASSUME NEW p \in Process, Crash(p) PROVE KernelInv'
    <2>1. at' \in [Process -> Locals] /\ \A q \in Process : Sound(at'[q], clock)
      BY <1>3, StopSound DEF Crash
    <2> QED BY <1>0, <1>3, <2>1, Assembled DEF Crash, tables
  <1>4. CASE TimePasses
    <2>1. TypeOK'
      BY <1>0, <1>4 DEF TypeOK, TimePasses, tables, bounds
    <2>2. ASSUME NEW q \in Process PROVE Sound(at[q], clock + 1)
      <3>1. Sound(at[q], clock)
        BY <1>0
      <3>2. at[q].now \in Nat
        BY <3>1 DEF Sound, Locals
      <3>3. at[q].now <= clock + 1
        <4>1. at[q].now <= clock /\ clock \in Nat
          BY <3>1, <1>0 DEF Sound
        <4> QED BY ONLY <4>1, <3>2, InOrder
      <3> QED BY <3>1, <3>3 DEF Sound
    <2> QED BY <1>4, <2>1, <2>2 DEF KernelInv, TimePasses
  <1>5. CASE UNCHANGED vars
    BY <1>0, <1>5, Assembled DEF vars, tables, bounds
  <1> QED BY <1>1, <1>2, <1>3, <1>4, <1>5 DEF Environment

LEMMA InitInv == Init => KernelInv
  <1> SUFFICES ASSUME Init PROVE KernelInv
    OBVIOUS
  <1>1. Sound(Idle, clock) /\ Idle \in Locals
    BY IdleSound DEF Init, Sound
  <1>2. TypeOK
    BY <1>1, NoRowTyped DEF Init, TypeOK, PlanRow, SessionStatus
  <1> QED BY <1>1, <1>2 DEF Init, KernelInv

LEMMA KernelStepInv ==
  ASSUME KernelInv, [Next]_vars
  PROVE  KernelInv'
  BY TickInv, RecordInv, RunnerInv, ReportInv, ReviewInv, OutsideInv
  DEF Next, HandlerStep

LEMMA KernelInvariance == Spec => []KernelInv
  BY InitInv, KernelStepInv, PTL DEF Spec

(* Every reachable state of the kernel is well typed: in particular no     *)
(* worker is claimed beyond its attempts and no row restored after a       *)
(* failure is anything but a worker's row, whatever dies or throws         *)
(* (workflowV2ClaimWorkerRuns, workflowV2RestoreWorkerRunRow).             *)
THEOREM TypeCorrect == Spec => []TypeOK
  BY KernelInvariance, PTL DEF KernelInv

-----------------------------------------------------------------------------
(* The steps that write an adapter job.                                    *)

JobStep ==
    \/ \E t \in Ticker : ExpireJobs(t)
    \/ \E c \in Recorder : InsertJob(c) \/ DeleteJob(c)
    \/ \E r \in Runner :
          \/ \E j \in JobId : ExpireJob(r, j)
          \/ ClaimJob(r) \/ Heartbeat(r) \/ HandBack(r) \/ SettleJob(r)

LEMMA TickOnJobs ==
  ASSUME NEW t \in Ticker, TickStep(t)
  PROVE  UNCHANGED job \/ JobStep
  BY DEF TickStep, StartTick, ExpireWorker, ExpireSession, ExpireUndo,
     ExpireDone, ClaimSelect, ClaimCas, ClaimReread, ClaimSession, ClaimUndo,
     Execute, ExecuteSession, ExecuteUndo, EndLoop, JobStep, tables

LEMMA ResultOnJobs ==
  ASSUME NEW p \in Runner \cup Reporter, ResultStep(p)
  PROVE  UNCHANGED job \/ (p \in Runner /\ SettleJob(p))
  BY DEF ResultStep, ReadRaw, Settle, SettleSession, SettleJob, UndoWorker,
     UndoSession, EndLoop, tables

LEMMA RunnerOnJobs ==
  ASSUME NEW r \in Runner, RunnerStep(r)
  PROVE  UNCHANGED job \/ JobStep
  BY ResultOnJobs DEF RunnerStep, StartDrain, JobsExpired, LoadWorker,
     ReturnResult, FailGuard, JobStep, tables

LEMMA OthersOnJobs ==
  ASSUME \/ \E c \in Recorder : RecordStep(c)
         \/ \E b \in Reporter : ReportStep(b)
         \/ \E m \in Manager : ReviewStep(m)
         \/ Environment \/ TimePasses \/ UNCHANGED vars
  PROVE  UNCHANGED job \/ JobStep
  <1>1. ASSUME NEW c \in Recorder, RecordStep(c) PROVE UNCHANGED job \/ JobStep
    BY <1>1 DEF RecordStep, StartRecord, BindJob, JobStep, tables
  <1>2. ASSUME NEW b \in Reporter, ReportStep(b) PROVE UNCHANGED job \/ JobStep
    BY <1>2, ResultOnJobs DEF ReportStep, StartReport, JobStep, tables
  <1>3. ASSUME NEW m \in Manager, ReviewStep(m) PROVE UNCHANGED job
    BY <1>3 DEF ReviewStep, StartReview, InsertReview, ReviewWorker,
       ReviewSession, ReviewUndo, ReviewDelete, tables
  <1>4. CASE Environment \/ TimePasses \/ UNCHANGED vars
    BY <1>4 DEF Environment, Spawn, Intervene, Crash, TimePasses, vars, tables
  <1> QED BY <1>1, <1>2, <1>3, <1>4

LEMMA StepsOnJobs ==
  ASSUME [Next]_vars
  PROVE  UNCHANGED job \/ JobStep
  BY TickOnJobs, RunnerOnJobs, OthersOnJobs DEF Next, HandlerStep

(* No step but a claim makes a job run, and none but its runner's, its     *)
(* expiry, its cancellation and its deletion ends its run.                 *)
LEMMA RunStays ==
  ASSUME KernelInv, [Next]_vars, NEW j \in JobId, job[j].status = "running",
         job[j].until > clock, job'[j] # job[j]
  PROVE  \/ job'[j].owner = job[j].owner
         \/ at'[job[j].owner] # at[job[j].owner]
         \/ job'[j].status \in {"cancelled", "absent"}
  <1>0. /\ job \in [JobId -> JobRow] /\ at \in [Process -> Locals]
        /\ clock \in Nat /\ job[j] \in JobRow
    BY DEF KernelInv, TypeOK
  <1>1. JobStep
    BY StepsOnJobs
  <1>2. ASSUME NEW t \in Ticker, ExpireJobs(t)
        PROVE  job'[j].status = "cancelled"
    <2>1. job'[j] = Cancelled(job[j])
      BY <1>0, <1>2 DEF ExpireJobs
    <2> QED BY <1>0, <2>1 DEF Cancelled, UnleasedJob, OpenJob, JobRow
  <1>3. ASSUME NEW c \in Recorder, InsertJob(c) PROVE FALSE
    BY <1>0, <1>3 DEF InsertJob
  <1>4. ASSUME NEW c \in Recorder, DeleteJob(c) PROVE job'[j].status = "absent"
    BY <1>0, <1>4 DEF DeleteJob, NoJob
  <1>5. ASSUME NEW r \in Runner, NEW k \in JobId, ExpireJob(r, k) PROVE FALSE
    <2>1. k = j
      BY <1>0, <1>5 DEF ExpireJob
    <2>2. job[j].until <= at[r].now
      BY <1>5, <2>1 DEF ExpireJob, JobLapsed
    <2>3. at[r].now <= clock /\ at[r].now \in Nat
      BY Remembered DEF Process
    <2> QED BY <1>0, <2>2, <2>3 DEF JobRow
  <1>6. ASSUME NEW r \in Runner, ClaimJob(r) PROVE FALSE
    <2>1. PICK k \in JobId :
             /\ job[k].status # "running"
             /\ job' = [job EXCEPT ![k] = ClaimedJob(job[k], r, at[r].now)]
      BY <1>0, <1>6 DEF ClaimJob, MayClaimJob, JobDue
    <2> QED BY <1>0, <2>1
  <1>7. ASSUME NEW r \in Runner, Heartbeat(r) PROVE job'[j].owner = job[j].owner
    <2>1. PICK u : job' = [job EXCEPT ![<<at[r].w, at[r].attempt>>] =
                             [job[<<at[r].w, at[r].attempt>>] EXCEPT !.until = u]]
      BY <1>7 DEF Heartbeat
    <2>2. job'[j] = [job[j] EXCEPT !.until = u]
      BY <1>0, <2>1
    <2> QED BY <1>0, <2>2 DEF JobRow
  <1>8. ASSUME NEW r \in Runner, HandBack(r) \/ SettleJob(r)
        PROVE  at'[job[j].owner] # at[job[j].owner]
    <2>0. r \in Process /\ Idle.pc = "idle"
      BY IdleSound, <1>0 DEF Process
    <2>1. /\ job[j].owner = r
          /\ at[r].pc # "idle" /\ at[r].pc # "end loop"
          /\ Stop(r) \/ Recorded(r)
      BY <1>0, <1>8 DEF HandBack, SettleJob, HoldsJob, JobHeld, At
    <2>2. at'[r].pc = "idle" \/ at'[r].pc = "end loop"
      <3>1. \/ at' = [at EXCEPT ![r] = Idle]
            \/ at' = [at EXCEPT ![r] = [at[r] EXCEPT !.pc = "end loop"]]
        BY <2>1 DEF Stop, Recorded, AfterResult, Goto, Become
      <3>2. \/ at'[r] = Idle
            \/ at'[r] = [at[r] EXCEPT !.pc = "end loop"]
        BY <1>0, <2>0, <3>1
      <3>3. at[r] \in Locals
        BY <1>0, <2>0
      <3> QED BY <2>0, <3>2, <3>3 DEF Locals
    <2> QED BY <2>1, <2>2
  <1> QED BY <1>1, <1>2, <1>3, <1>4, <1>5, <1>6, <1>7, <1>8 DEF JobStep

(* While the lease of an adapter job lasts, only its runner, the end of    *)
(* its worker's attempt or a record that failed touches it.  The instants  *)
(* that handlers compare leases with were read earlier, never later, than  *)
(* they act (KernelInv), so that no lease that lasts looks lapsed to them. *)
THEOREM RunnerLeaseRespectedHolds == Spec => RunnerLeaseRespected
  <1>1. ASSUME KernelInv, [Next]_vars
        PROVE  [\A j \in JobId :
                  LET r == job[j].owner IN
                  /\ job[j].status = "running"
                  /\ job[j].until > clock
                  /\ job'[j] # job[j]
                  => \/ job'[j].owner = r
                     \/ at'[r] # at[r]
                     \/ job'[j].status \in {"cancelled", "absent"}]_vars
    BY <1>1, RunStays
  <1> QED BY <1>1, KernelInvariance, PTL DEF Spec, RunnerLeaseRespected

-----------------------------------------------------------------------------
(* Slots.                                                                  *)

LEMMA JobsFinite ==
  /\ IsFiniteSet(JobId)
  /\ \A t : IsFiniteSet(ActiveJobs(t)) /\ Cardinality(ActiveJobs(t)) \in Nat
  <1>1. IsFiniteSet(Attempt)
    BY FS_Interval DEF Attempt
  <1>2. IsFiniteSet(JobId)
    BY <1>1, FS_Product DEF JobId
  <1>3. ASSUME NEW t PROVE IsFiniteSet(ActiveJobs(t))
    BY <1>2, FS_Subset DEF ActiveJobs
  <1> QED BY <1>2, <1>3, FS_CardinalityType

(* Whoever makes a job run had a slot at the instant it remembers.  The    *)
(* jobs that run now and ran then are no more than those that ran then.    *)
LEMMA ClaimCounted ==
  ASSUME KernelInv, [Next]_vars, NEW j \in JobId,
         job[j].status # "running", job'[j].status = "running"
  PROVE  Cardinality(ActiveJobs(clock)') <= Slots
  <1>0. /\ job \in [JobId -> JobRow] /\ clock \in Nat
        /\ \A k \in JobId : job[k] \in JobRow
    BY DEF KernelInv, TypeOK
  <1>1. JobStep
    BY StepsOnJobs
  <1>2. ASSUME NEW t \in Ticker, ExpireJobs(t) PROVE FALSE
    <2>1. job'[j] = Cancelled(job[j]) \/ job'[j] = job[j]
      BY <1>0, <1>2 DEF ExpireJobs
    <2> QED BY <1>0, <2>1 DEF Cancelled, UnleasedJob, JobRow
  <1>3. ASSUME NEW c \in Recorder, InsertJob(c) \/ DeleteJob(c) PROVE FALSE
    BY <1>0, <1>3 DEF InsertJob, DeleteJob, NoJob
  <1>4. ASSUME NEW r \in Runner, NEW k \in JobId, ExpireJob(r, k) PROVE FALSE
    BY <1>0, <1>4 DEF ExpireJob, JobLapsed
  <1>5. ASSUME NEW r \in Runner, Heartbeat(r) \/ HandBack(r) \/ SettleJob(r)
        PROVE FALSE
    <2>1. \A k \in JobId : job'[k] = job[k] \/ job[k].status = "running"
      BY <1>0, <1>5 DEF Heartbeat, HandBack, SettleJob, HoldsJob, JobHeld
    <2> QED BY <2>1
  <1>6. ASSUME NEW r \in Runner, ClaimJob(r)
        PROVE  Cardinality(ActiveJobs(clock)') <= Slots
    <2> DEFINE t == at[r].now
               A == ActiveJobs(t)
    <2>1. PICK k \in JobId :
             /\ MayClaimJob(k, t)
             /\ job' = [job EXCEPT ![k] = ClaimedJob(job[k], r, t)]
      BY <1>6 DEF ClaimJob
    <2>2. t \in Nat /\ t <= clock
      BY Remembered DEF Process
    <2>3. \A i \in JobId : i # k => job'[i] = job[i]
      BY <1>0, <2>1
    <2>4. clock' = clock
      BY <1>6 DEF ClaimJob
    <2>5. ActiveJobs(clock)' \subseteq A \cup {k}
      BY <1>0, <2>2, <2>3, <2>4 DEF ActiveJobs, JobRow
    <2>6. IsFiniteSet(A) /\ Cardinality(A) \in Nat /\ Cardinality(A) < Slots
      BY <2>1, JobsFinite DEF MayClaimJob, HasSlot
    <2>7. IsFiniteSet(A \cup {k}) /\ Cardinality(A \cup {k}) <= Cardinality(A) + 1
      <3>1. A \cup {k} = A \/ k \notin A
        OBVIOUS
      <3>2. \/ A \cup {k} = A
            \/ Cardinality(A \cup {k}) = Cardinality(A) + 1
        BY <2>6, <3>1, FS_AddElement
      <3>3. IsFiniteSet(A \cup {k})
        BY <2>6, FS_AddElement
      <3>4. Cardinality(A) \in Nat
        BY <2>6
      <3> HIDE DEF A
      <3>5. Cardinality(A \cup {k}) <= Cardinality(A) + 1
        BY ONLY <3>2, <3>4
      <3> QED BY <3>3, <3>5
    <2>8. Cardinality(ActiveJobs(clock)') <= Cardinality(A \cup {k})
      BY <2>5, <2>7, FS_Subset
    <2>9. Cardinality(A \cup {k}) \in Nat /\ Cardinality(ActiveJobs(clock)') \in Nat
      BY <2>5, <2>7, FS_Subset, FS_CardinalityType
    <2> HIDE DEF A
    <2> QED BY <2>6, <2>7, <2>8, <2>9
  <1> QED BY <1>1, <1>2, <1>3, <1>4, <1>5, <1>6 DEF JobStep

(* A claim never raises the number of jobs with a live lease above the     *)
(* slots, for any number of jobs and runners, although it counts them with *)
(* an instant it read before it expired, counted and selected              *)
(* (workflowV2AdapterRunnerCapacity, workflowV2WorkerAdapterJobClaim).     *)
THEOREM ClaimsWithinCapacityHolds == Spec => ClaimsWithinCapacity
  <1>1. ASSUME KernelInv, [Next]_vars
        PROVE  [\A j \in JobId :
                  job[j].status # "running" /\ job'[j].status = "running"
                  => Cardinality(ActiveJobs(clock)') <= Slots]_vars
    BY <1>1, ClaimCounted
  <1> QED BY <1>1, KernelInvariance, PTL DEF Spec, ClaimsWithinCapacity

-----------------------------------------------------------------------------
(* Results.  What follows is about runs in which only runners of adapter   *)
(* jobs return results, runners do not ask for a retry of the worker, and  *)
(* no session patch throws: a failure that may be retried puts the worker  *)
(* up for its next attempt while it is still being recorded, and a result, *)
(* a claim or an expiry that fails half way restores a row without a       *)
(* condition.                                                              *)

RunnersReport == Reporter = {} /\ Pulling = {} /\ MaxFaults = 0

LEMMA ReturnsPlainly ==
  ASSUME RunnersReport, NEW r \in Runner, ReturnResult(r)
  PROVE  \E t, kind :
           \/ Become(r, [at[r] EXCEPT !.pc = "raw", !.now = t, !.kind = kind])
           \/ Become(r, [at[r] EXCEPT !.pc = "fail guard", !.now = t, !.kind = kind])
  BY DEF RunnersReport, ReturnResult

MayRun == {"queued", "retry_scheduled", "running"}

Adrift == {"idle", "expire", "claim"}      \* has no worker at hand

Returning ==
    {"settle", "settle session", "settle job", "undo worker", "undo session"}

Reviewing ==
    {"review insert", "review worker", "review session", "review undo"}

(* The worker a process has at hand exists, and so does its session run:   *)
(* only a result is ever undone, and a review.                             *)
Sane(p) ==
    /\ at[p].pc \notin Adrift => worker[at[p].w].status # "absent"
    /\ at[p].pc \notin {"expire undo", "claim undo", "execute undo"}
    /\ at[p].pc \in Returning => at[p].sess # "absent"
    /\ at[p].pc \in Reviewing => at[p].raw.status = "submitted_for_review"
    /\ ~at[p].retry

Attended(w) == worker[w].status # "absent" => session[w] # "absent"

LiveInv ==
    /\ KernelInv
    /\ \A w \in Worker : Attended(w)
    /\ \A p \in Process : Sane(p)

(* What a step may do to a worker's row.                                   *)
Appears(w) ==
    /\ worker[w].status = "absent"
    /\ worker'[w].status = "queued"
    /\ session'[w] # "absent"

Lapses(w) ==
    \E t \in Nat :
        /\ Lapsed(w, t)
        /\ \/ worker'[w].status = "timed_out"
           \/ /\ worker'[w].status = "retry_scheduled"
              /\ worker'[w].next = t + WorkerDelay

Taken(w) ==
    \E t \in Nat :
        /\ MayClaimWorker(w, t)
        /\ worker'[w].status = "running"
        /\ worker'[w].until = t + WorkerLease

Closes(w) ==
    /\ worker[w].status # "absent"
    /\ worker'[w].status \notin MayRun \cup {"absent"}

Undone(w) == \E p \in Runner : at[p].w = w /\ UndoWorker(p)

Moves(w) ==
    \/ worker'[w] = worker[w] \/ Appears(w) \/ Lapses(w)
    \/ Taken(w) \/ Closes(w) \/ Undone(w)

LEMMA NoUndo ==
  ASSUME LiveInv, RunnersReport, NEW p \in Process, NEW status,
         at[p].pc \notin Adrift
  PROVE  ~PatchThrows(at[p].w, status)
  <1>1. at[p].w \in Worker
    BY Remembered DEF LiveInv
  <1>2. session[at[p].w] # "absent"
    BY <1>1 DEF LiveInv, Sane, Attended
  <1>3. faults \in Nat
    BY DEF LiveInv, KernelInv, TypeOK
  <1> QED BY <1>2, <1>3 DEF PatchThrows, RunnersReport

LEMMA TickMoves ==
  ASSUME LiveInv, RunnersReport, NEW t \in Ticker, TickStep(t), NEW w \in Worker
  PROVE  Moves(w)
  <1>r. /\ t \in Process /\ at[t].w \in Worker /\ at[t].now \in Nat
        /\ worker \in [Worker -> WorkerRow] /\ worker[w] \in WorkerRow
    BY Remembered DEF LiveInv, KernelInv, TypeOK, Process
  <1>1. ASSUME NEW x \in Worker, ExpireWorker(t, x), worker'[w] # worker[w]
        PROVE  Lapses(w)
    <2>1. x = w /\ worker'[w] = Expired(worker[w], at[t].now) /\ Lapsed(w, at[t].now)
      BY <1>r, <1>1 DEF ExpireWorker
    <2>2. \/ worker'[w] = Unleased(worker[w], "retry_scheduled", at[t].now + WorkerDelay)
          \/ worker'[w] = Unleased(worker[w], "timed_out", 0)
      BY <2>1 DEF Expired
    <2>3. \/ /\ worker'[w].status = "retry_scheduled"
             /\ worker'[w].next = at[t].now + WorkerDelay
          \/ worker'[w].status = "timed_out"
      BY <1>r, <2>2 DEF Unleased, WorkerRow
    <2> QED BY <1>r, <2>1, <2>3 DEF Lapses
  <1>2. ASSUME ClaimCas(t), worker'[w] # worker[w] PROVE Taken(w)
    <2>1. /\ at[t].w = w /\ MayClaimWorker(w, at[t].now)
          /\ worker'[w] = ClaimedWorker(worker[w], t, at[t].now)
      BY <1>r, <1>2 DEF ClaimCas
    <2>2. /\ worker'[w].status = "running"
          /\ worker'[w].until = at[t].now + WorkerLease
      BY <1>r, <2>1 DEF ClaimedWorker, WorkerRow
    <2> QED BY <1>r, <2>1, <2>2 DEF Taken
  <1>3. ASSUME Execute(t), worker'[w] # worker[w] PROVE Closes(w)
    <2>1. /\ worker[w].status = "running"
          /\ worker'[w] = Submitted(worker[w])
      BY <1>r, <1>3 DEF Execute, HoldsWorker
    <2>2. worker'[w].status = "submitted_for_review"
      BY <1>r, <2>1 DEF Submitted, Unleased, WorkerRow
    <2> QED BY <2>1, <2>2 DEF Closes, MayRun
  <1>4. ~ExpireUndo(t) /\ ~ClaimUndo(t) /\ ~ExecuteUndo(t)
    BY <1>r DEF LiveInv, Sane, ExpireUndo, ClaimUndo, ExecuteUndo, At
  <1>5. \/ worker' = worker \/ ClaimCas(t) \/ Execute(t)
        \/ \E x \in Worker : ExpireWorker(t, x)
    BY <1>4 DEF TickStep, StartTick, ExpireSession, ExpireJobs, ExpireDone,
       ClaimSelect, ClaimReread, ClaimSession, ExecuteSession, EndLoop, tables
  <1> QED BY <1>1, <1>2, <1>3, <1>5 DEF Moves

LEMMA ResultMoves ==
  ASSUME LiveInv, NEW p \in Runner, ResultStep(p), NEW w \in Worker
  PROVE  Moves(w)
  <1>r. /\ p \in Process /\ at[p].w \in Worker
        /\ worker \in [Worker -> WorkerRow] /\ worker[w] \in WorkerRow
    BY Remembered DEF LiveInv, KernelInv, TypeOK, Process
  <1>1. ASSUME Settle(p), worker'[w] # worker[w] PROVE Closes(w)
    <2>1. /\ worker[w].status = "running"
          /\ worker'[w] = Settled(p, worker[w])
      BY <1>r, <1>1 DEF Settle, MaySettle
    <2>2. ~at[p].retry
      BY <1>r DEF LiveInv, Sane
    <2>3. worker'[w].status \in {"submitted_for_review", "failed"}
      BY <1>r, <2>1, <2>2 DEF Settled, Unleased, WorkerRow
    <2> QED BY <2>1, <2>3 DEF Closes, MayRun
  <1>2. ASSUME UndoWorker(p), worker'[w] # worker[w] PROVE Undone(w)
    <2>1. at[p].w = w
      BY <1>r, <1>2 DEF UndoWorker, RestoreWorker, Restored
    <2> QED BY <2>1, <1>2 DEF Undone
  <1>3. worker' = worker \/ Settle(p) \/ UndoWorker(p)
    BY DEF ResultStep, ReadRaw, SettleSession, SettleJob, UndoSession, EndLoop, tables
  <1> QED BY <1>1, <1>2, <1>3 DEF Moves

LEMMA ReviewMoves ==
  ASSUME LiveInv, NEW m \in Manager, ReviewStep(m), NEW w \in Worker
  PROVE  Moves(w)
  <1>r. /\ m \in Process /\ at[m].w \in Worker
        /\ worker \in [Worker -> WorkerRow] /\ worker[w] \in WorkerRow
        /\ Sane(m) /\ Sound(at[m], clock)
    BY Remembered DEF LiveInv, KernelInv, TypeOK, Process
  <1>1. ASSUME ReviewWorker(m), worker'[w] # worker[w] PROVE Closes(w)
    <2>1. /\ worker[w].status = "submitted_for_review"
          /\ worker'[w] = Unleased(worker[w], at[m].decision, 0)
          /\ at[m].decision \in Decision
      BY <1>r, <1>1 DEF ReviewWorker, At, Sound
    <2>2. worker'[w].status \in Decision
      BY <1>r, <2>1 DEF Unleased, WorkerRow
    <2> QED BY <2>1, <2>2 DEF Closes, MayRun
  <1>2. ASSUME ReviewUndo(m), worker'[w] # worker[w] PROVE Closes(w)
    <2>1. /\ worker[w].status # "absent"
          /\ worker'[w] = at[m].raw
      BY <1>r, <1>2 DEF ReviewUndo, RestoreWorker, Restored
    <2>2. at[m].raw.status = "submitted_for_review"
      BY <1>r, <1>2 DEF ReviewUndo, At, Sane, Reviewing
    <2> QED BY <2>1, <2>2 DEF Closes, MayRun
  <1>3. worker' = worker \/ ReviewWorker(m) \/ ReviewUndo(m)
    BY DEF ReviewStep, StartReview, InsertReview, ReviewSession, ReviewDelete, tables
  <1> QED BY <1>1, <1>2, <1>3 DEF Moves

LEMMA WorkerMoves ==
  ASSUME LiveInv, RunnersReport, [Next]_vars, NEW w \in Worker
  PROVE  Moves(w)
  <1>1. ASSUME NEW c \in Recorder, RecordStep(c) PROVE worker' = worker
    BY <1>1 DEF RecordStep, StartRecord, InsertJob, BindJob, DeleteJob, tables
  <1>2. ASSUME NEW r \in Runner, RunnerStep(r) PROVE worker' = worker \/ ResultStep(r)
    BY <1>2 DEF RunnerStep, StartDrain, ExpireJob, JobsExpired, ClaimJob,
       LoadWorker, Heartbeat, HandBack, ReturnResult, FailGuard, tables
  <1>3. ASSUME NEW x \in Worker, Spawn(x) PROVE Moves(w)
    <2>1. /\ worker \in [Worker -> WorkerRow] /\ session \in [Worker -> SessionStatus]
      BY DEF LiveInv, KernelInv, TypeOK
    <2>2. CASE x = w
      <3>1. Unleased(NoWorker, "queued", 0).status = "queued"
        BY DEF Unleased, NoWorker
      <3>2. worker'[w].status = "queued" /\ session'[w] = "queued"
        BY <1>3, <2>1, <2>2, <3>1 DEF Spawn, Patched
      <3> QED BY <1>3, <2>2, <3>2 DEF Moves, Appears, Spawn
    <2>3. CASE x # w
      BY <1>3, <2>1, <2>3 DEF Spawn, Moves
    <2> QED BY <2>2, <2>3
  <1>4. CASE Intervene \/ (\E p \in Process : Crash(p)) \/ TimePasses \/ UNCHANGED vars
    BY <1>4 DEF Intervene, Crash, TimePasses, vars, tables, Moves
  <1> QED BY <1>1, <1>2, <1>3, <1>4, TickMoves, ResultMoves, ReviewMoves
          DEF Next, HandlerStep, Environment, RunnersReport, Moves

LEMMA PatchKeeps ==
  ASSUME KernelInv, NEW w \in Worker, session[w] # "absent",
         NEW x, NEW status, status # "absent",
         PatchSucceeds(x, status) \/ PatchThrows(x, status)
  PROVE  session'[w] # "absent"
  BY DEF KernelInv, TypeOK, PatchSucceeds, PatchThrows, Patched

LEMMA TickKeeps ==
  ASSUME KernelInv, NEW w \in Worker, session[w] # "absent",
         NEW t \in Ticker, TickStep(t)
  PROVE  session'[w] # "absent"
  <1>1. \/ session' = session
        \/ ExpireSession(t) \/ ClaimSession(t) \/ ExecuteSession(t)
    BY DEF TickStep, StartTick, ExpireWorker, ExpireJobs, ExpireUndo,
       ExpireDone, ClaimSelect, ClaimCas, ClaimReread, ClaimUndo, Execute,
       ExecuteUndo, EndLoop, tables
  <1>2. ASSUME ExpireSession(t) PROVE session'[w] # "absent"
    BY <1>2, PatchKeeps DEF ExpireSession
  <1>3. ASSUME ClaimSession(t) PROVE session'[w] # "absent"
    BY <1>3, PatchKeeps DEF ClaimSession
  <1>4. ASSUME ExecuteSession(t) PROVE session'[w] # "absent"
    BY <1>4, PatchKeeps DEF ExecuteSession
  <1> QED BY <1>1, <1>2, <1>3, <1>4

LEMMA ReviewKeeps ==
  ASSUME KernelInv, NEW w \in Worker, session[w] # "absent",
         NEW m \in Manager, ReviewStep(m)
  PROVE  session'[w] # "absent"
  <1>1. session' = session \/ ReviewSession(m)
    BY DEF ReviewStep, StartReview, InsertReview, ReviewWorker,
       ReviewUndo, ReviewDelete, tables
  <1> QED BY <1>1, PatchKeeps DEF ReviewSession

LEMMA SessionStays ==
  ASSUME LiveInv, [Next]_vars, NEW w \in Worker, session[w] # "absent"
  PROVE  session'[w] # "absent"
  <1>0. KernelInv /\ session \in [Worker -> SessionStatus]
    BY DEF LiveInv, KernelInv, TypeOK
  <1>1. ASSUME NEW x, NEW status, status # "absent",
               PatchSucceeds(x, status) \/ PatchThrows(x, status)
        PROVE  session'[w] # "absent"
    BY <1>0, <1>1, PatchKeeps
  <1>2. ASSUME NEW t \in Ticker, TickStep(t) PROVE session'[w] # "absent"
    BY <1>0, <1>2, TickKeeps
  <1>3. ASSUME NEW p \in Runner \cup Reporter, ResultStep(p) PROVE session'[w] # "absent"
    <2>1. session' = session \/ SettleSession(p) \/ UndoSession(p)
      BY <1>3 DEF ResultStep, ReadRaw, Settle, SettleJob, UndoWorker, EndLoop, tables
    <2>2. ASSUME SettleSession(p) PROVE session'[w] # "absent"
      <3>1. PICK status \in {"completed", "queued", "failed"} :
               PatchSucceeds(at[p].w, status) \/ PatchThrows(at[p].w, status)
        BY <2>2 DEF SettleSession
      <3> QED BY <3>1, <1>1
    <2>3. ASSUME UndoSession(p) PROVE session'[w] # "absent"
      <3>1. at[p].sess # "absent"
        BY <2>3 DEF UndoSession, At, LiveInv, Sane, Returning, Process
      <3> QED BY <1>0, <2>3, <3>1 DEF UndoSession, Patched
    <2> QED BY <2>1, <2>2, <2>3
  <1>4. ASSUME NEW m \in Manager, ReviewStep(m) PROVE session'[w] # "absent"
    BY <1>0, <1>4, ReviewKeeps
  <1>5. ASSUME NEW c \in Recorder, RecordStep(c) PROVE session' = session
    BY <1>5 DEF RecordStep, StartRecord, InsertJob, BindJob, DeleteJob, tables
  <1>6. ASSUME NEW r \in Runner, RunnerStep(r) PROVE session' = session \/ ResultStep(r)
    BY <1>6 DEF RunnerStep, StartDrain, ExpireJob, JobsExpired, ClaimJob,
       LoadWorker, Heartbeat, HandBack, ReturnResult, FailGuard, tables
  <1>7. ASSUME NEW b \in Reporter, ReportStep(b) PROVE session' = session \/ ResultStep(b)
    BY <1>7 DEF ReportStep, StartReport, tables
  <1>8. ASSUME NEW x \in Worker, Spawn(x) PROVE session'[w] # "absent"
    BY <1>0, <1>8 DEF Spawn, Patched
  <1>9. CASE Intervene \/ (\E p \in Process : Crash(p)) \/ TimePasses \/ UNCHANGED vars
    BY <1>9 DEF Intervene, Crash, TimePasses, vars, tables
  <1> QED BY <1>2, <1>3, <1>4, <1>5, <1>6, <1>7, <1>8, <1>9
          DEF Next, HandlerStep, Environment

(* Workers and their session runs are never lost.                          *)
LEMMA PresentStays ==
  ASSUME LiveInv, RunnersReport, [Next]_vars, NEW w \in Worker
  PROVE  /\ worker[w].status # "absent" => worker'[w].status # "absent"
         /\ Attended(w)'
  <1>1. CASE worker[w].status # "absent"
    <2>1. session'[w] # "absent"
      BY <1>1, SessionStays DEF LiveInv, Attended
    <2>2. CASE Undone(w)
      <3>1. PICK p \in Runner : at[p].w = w /\ UndoWorker(p)
        BY <2>2 DEF Undone
      <3>2. worker \in [Worker -> WorkerRow]
        BY DEF LiveInv, KernelInv, TypeOK
      <3>3. worker'[w] = worker[w] \/ worker'[w].status # "absent"
        BY <3>1, <3>2 DEF UndoWorker, RestoreWorker, Restored
      <3> QED BY <1>1, <2>1, <3>3 DEF Attended
    <2>3. CASE ~Undone(w)
      BY <1>1, <2>1, <2>3, WorkerMoves DEF Moves, Appears, Lapses, Taken, Closes, Attended
    <2> QED BY <2>2, <2>3
  <1>2. CASE worker[w].status = "absent"
    <2>1. worker'[w] = worker[w] \/ session'[w] # "absent"
      <3>1. CASE Undone(w)
        <4>1. worker \in [Worker -> WorkerRow]
          BY DEF LiveInv, KernelInv, TypeOK
        <4> QED BY <1>2, <3>1, <4>1 DEF Undone, UndoWorker, RestoreWorker, Restored
      <3>2. CASE ~Undone(w)
        BY <1>2, <3>2, WorkerMoves DEF Moves, Appears, Lapses, Lapsed, Taken,
           MayClaimWorker, Closes
      <3> QED BY <3>1, <3>2
    <2> QED BY <1>2, <2>1 DEF Attended
  <1> QED BY <1>1, <1>2

(* A step moves one process at most, which then takes a step of its kind.  *)
OwnStep(q) ==
    \/ q \in Ticker /\ TickStep(q)
    \/ q \in Recorder /\ RecordStep(q)
    \/ q \in Runner /\ RunnerStep(q)
    \/ q \in Reporter /\ ReportStep(q)
    \/ q \in Manager /\ ReviewStep(q)
    \/ Crash(q)

LEMMA BecomesAlone ==
  ASSUME KernelInv, NEW p \in Process, NEW l, Become(p, l),
         NEW q \in Process, q # p
  PROVE  at'[q] = at[q]
  BY DEF Become, KernelInv, TypeOK

LEMMA ThrownAlone ==
  ASSUME KernelInv, NEW p \in Process, Thrown(p) \/ Stop(p),
         NEW q \in Process, q # p
  PROVE  at'[q] = at[q]
  BY BecomesAlone DEF Thrown, Stop

LEMMA GoneAlone ==
  ASSUME KernelInv, NEW p \in Process, NEW pc, Goto(p, pc),
         NEW q \in Process, q # p
  PROVE  at'[q] = at[q]
  BY BecomesAlone DEF Goto

LEMMA TickAlone ==
  ASSUME KernelInv, NEW t \in Ticker, TickStep(t), NEW q \in Process, q # t
  PROVE  at'[q] = at[q]
  <1> t \in Process
    BY DEF Process
  <1> USE BecomesAlone, ThrownAlone, GoneAlone
  <1>1. CASE StartTick(t) \/ \E w \in Worker : ExpireWorker(t, w)
    BY <1>1 DEF StartTick, ExpireWorker
  <1>2. CASE ExpireSession(t) \/ ExpireJobs(t) \/ ExpireUndo(t) \/ ExpireDone(t)
    BY <1>2 DEF ExpireSession, ExpireJobs, ExpireUndo, ExpireDone
  <1>3. CASE ClaimSelect(t) \/ ClaimCas(t) \/ ClaimReread(t)
    BY <1>3 DEF ClaimSelect, ClaimCas, ClaimReread
  <1>4. CASE ClaimSession(t) \/ ClaimUndo(t) \/ Execute(t)
    BY <1>4 DEF ClaimSession, ClaimUndo, Execute
  <1>5. CASE ExecuteSession(t) \/ ExecuteUndo(t) \/ EndLoop(t)
    BY <1>5 DEF ExecuteSession, AfterResult, ExecuteUndo, EndLoop
  <1> QED BY <1>1, <1>2, <1>3, <1>4, <1>5 DEF TickStep

LEMMA ResultAlone ==
  ASSUME KernelInv, NEW p \in Runner \cup Reporter, ResultStep(p),
         NEW q \in Process, q # p
  PROVE  at'[q] = at[q]
  <1> p \in Process
    BY DEF Process
  <1> USE BecomesAlone, ThrownAlone, GoneAlone
  <1>1. CASE ReadRaw(p) \/ Settle(p) \/ SettleSession(p)
    BY <1>1 DEF ReadRaw, Settle, SettleSession
  <1>2. CASE SettleJob(p)
    BY <1>2 DEF SettleJob, Recorded, AfterResult
  <1>3. CASE UndoWorker(p) \/ UndoSession(p) \/ EndLoop(p)
    BY <1>3 DEF UndoWorker, UndoSession, EndLoop
  <1> QED BY <1>1, <1>2, <1>3 DEF ResultStep

LEMMA RunnerAlone ==
  ASSUME KernelInv, NEW r \in Runner, RunnerStep(r), NEW q \in Process, q # r
  PROVE  at'[q] = at[q]
  <1> r \in Process
    BY DEF Process
  <1> USE BecomesAlone, ThrownAlone, GoneAlone
  <1>1. CASE StartDrain(r) \/ (\E j \in JobId : ExpireJob(r, j)) \/ JobsExpired(r)
    BY <1>1 DEF StartDrain, ExpireJob, JobsExpired
  <1>2. CASE ClaimJob(r) \/ LoadWorker(r)
    BY <1>2 DEF ClaimJob, LoadWorker
  <1>3. CASE Heartbeat(r) \/ HandBack(r)
    BY <1>3 DEF Heartbeat, HandBack
  <1>4. CASE ReturnResult(r) \/ FailGuard(r)
    BY <1>4 DEF ReturnResult, FailGuard
  <1> QED BY <1>1, <1>2, <1>3, <1>4, ResultAlone DEF RunnerStep

LEMMA OthersAlone ==
  ASSUME KernelInv, NEW p \in Process,
         \/ p \in Recorder /\ RecordStep(p)
         \/ p \in Reporter /\ ReportStep(p)
         \/ p \in Manager /\ ReviewStep(p)
         \/ Crash(p),
         NEW q \in Process, q # p
  PROVE  at'[q] = at[q]
  <1> USE BecomesAlone, ThrownAlone, GoneAlone
  <1>1. CASE p \in Recorder /\ RecordStep(p)
    BY <1>1 DEF RecordStep, StartRecord, InsertJob, BindJob, DeleteJob
  <1>2. CASE p \in Reporter /\ ReportStep(p)
    BY <1>2, ResultAlone DEF ReportStep, StartReport
  <1>3. CASE p \in Manager /\ ReviewStep(p)
    <2>1. CASE (\E w \in Worker : StartReview(p, w)) \/ InsertReview(p) \/ ReviewWorker(p)
      BY <2>1 DEF StartReview, InsertReview, ReviewWorker
    <2>2. CASE ReviewSession(p) \/ ReviewUndo(p) \/ ReviewDelete(p)
      BY <2>2 DEF ReviewSession, ReviewUndo, ReviewDelete
    <2> QED BY <1>3, <2>1, <2>2 DEF ReviewStep
  <1>4. CASE Crash(p)
    BY <1>4 DEF Crash
  <1> QED BY <1>1, <1>2, <1>3, <1>4

LEMMA OneMoves ==
  ASSUME KernelInv, [Next]_vars, NEW q \in Process
  PROVE  at'[q] = at[q] \/ OwnStep(q)
  <1>1. ASSUME NEW t \in Ticker, TickStep(t) PROVE at'[q] = at[q] \/ OwnStep(q)
    BY <1>1, TickAlone DEF OwnStep
  <1>2. ASSUME NEW r \in Runner, RunnerStep(r) PROVE at'[q] = at[q] \/ OwnStep(q)
    BY <1>2, RunnerAlone DEF OwnStep
  <1>3. ASSUME NEW p \in Process,
               \/ p \in Recorder /\ RecordStep(p)
               \/ p \in Reporter /\ ReportStep(p)
               \/ p \in Manager /\ ReviewStep(p)
               \/ Crash(p)
        PROVE  at'[q] = at[q] \/ OwnStep(q)
    BY <1>3, OthersAlone DEF OwnStep
  <1>4. CASE (\E w \in Worker : Spawn(w)) \/ Intervene \/ TimePasses \/ UNCHANGED vars
    BY <1>4 DEF Spawn, Intervene, TimePasses, vars
  <1>5. CASE HandlerStep
    BY <1>5, <1>1, <1>2, <1>3 DEF HandlerStep, Process
  <1>6. CASE \E p \in Process : Crash(p)
    BY <1>6, <1>3
  <1> QED BY <1>4, <1>5, <1>6 DEF Next, Environment

LEMMA BecomeIs ==
  ASSUME KernelInv, NEW p \in Process, NEW l, Become(p, l)
  PROVE  at'[p] = l
  BY DEF Become, KernelInv, TypeOK

LEMMA GotoIs ==
  ASSUME KernelInv, NEW p \in Process, NEW pc, Goto(p, pc)
  PROVE  /\ at'[p].pc = pc /\ at'[p].w = at[p].w
         /\ at'[p].attempt = at[p].attempt /\ at'[p].held = at[p].held
         /\ at'[p].raw = at[p].raw /\ at'[p].sess = at[p].sess
         /\ at'[p].retry = at[p].retry
  <1>1. at'[p] = [at[p] EXCEPT !.pc = pc]
    BY BecomeIs DEF Goto
  <1>2. at[p] \in Locals
    BY DEF KernelInv, TypeOK
  <1> QED BY <1>1, <1>2 DEF Locals

LEMMA StopIs ==
  ASSUME KernelInv, NEW p \in Process, Stop(p)
  PROVE  at'[p] = Idle /\ at'[p].pc = "idle" /\ at'[p].retry = FALSE
  <1>1. at'[p] = Idle
    BY BecomeIs DEF Stop
  <1> QED BY <1>1 DEF Idle

LEMMA StopSane ==
  ASSUME KernelInv, NEW p \in Process, Stop(p)
  PROVE  Sane(p)'
  BY StopIs DEF Sane, Adrift, Returning, Reviewing

LEMMA GotoSane ==
  ASSUME LiveInv, RunnersReport, [Next]_vars, NEW p \in Process, NEW pc,
         Goto(p, pc),
         pc \notin {"expire undo", "claim undo", "execute undo"},
         pc \in Adrift \/ at[p].pc \notin Adrift,
         pc \in Returning => at[p].pc \in Returning,
         pc \in Reviewing => at[p].pc \in Reviewing
  PROVE  Sane(p)'
  <1>1. /\ at'[p].pc = pc /\ at'[p].w = at[p].w /\ at'[p].raw = at[p].raw
        /\ at'[p].sess = at[p].sess /\ at'[p].retry = at[p].retry
    BY GotoIs DEF LiveInv
  <1>2. Sane(p) /\ at[p].w \in Worker
    BY Remembered DEF LiveInv
  <1>3. worker[at[p].w].status # "absent" => worker'[at[p].w].status # "absent"
    BY <1>2, PresentStays
  <1> QED BY <1>1, <1>2, <1>3 DEF Sane

(* A process that takes up a worker which is there.                        *)
LEMMA BecomeSane ==
  ASSUME LiveInv, RunnersReport, [Next]_vars, NEW p \in Process, NEW l,
         Become(p, l), l.w \in Worker, worker[l.w].status # "absent", ~l.retry,
         l.pc \notin {"expire undo", "claim undo", "execute undo"} \cup Returning,
         l.pc \in Reviewing => l.raw.status = "submitted_for_review"
  PROVE  Sane(p)'
  <1>1. at'[p] = l
    BY BecomeIs DEF LiveInv
  <1>2. worker'[l.w].status # "absent"
    BY PresentStays
  <1> QED BY <1>1, <1>2 DEF Sane

LEMMA ThrownSane ==
  ASSUME LiveInv, RunnersReport, [Next]_vars, NEW p \in Process, Thrown(p),
         at[p].pc \notin Adrift
  PROVE  Sane(p)'
  <1> DEFINE l == [at[p] EXCEPT !.pc = "fail guard", !.kind = "give up", !.retry = FALSE]
  <1>1. /\ at[p] \in Locals /\ at[p].w \in Worker
        /\ worker[at[p].w].status # "absent" /\ ~at[p].retry
    BY Remembered DEF LiveInv, Sane
  <1>2. l.pc = "fail guard" /\ l.w = at[p].w /\ ~l.retry
    BY <1>1 DEF Locals
  <1>3. Stop(p) \/ Become(p, l)
    BY DEF Thrown
  <1>4. ASSUME Become(p, l) PROVE Sane(p)'
    <2> HIDE DEF l
    <2> QED BY <1>1, <1>2, <1>4, BecomeSane DEF Returning, Reviewing
  <1> QED BY <1>3, <1>4, StopSane DEF LiveInv

LEMMA TickSane ==
  ASSUME LiveInv, RunnersReport, [Next]_vars, NEW t \in Ticker, TickStep(t)
  PROVE  Sane(t)'
  <1> t \in Process
    BY DEF Process
  <1>r. /\ at[t] \in Locals /\ at[t].w \in Worker /\ ~at[t].retry
        /\ KernelInv /\ worker \in [Worker -> WorkerRow]
    BY Remembered DEF LiveInv, Sane, KernelInv, TypeOK
  <1> USE GotoSane, StopSane
  <1>1. CASE StartTick(t)
    <2>1. at'[t] = [Idle EXCEPT !.pc = "expire", !.now = clock]
      BY <1>1, <1>r, BecomeIs DEF StartTick
    <2>2. at'[t].pc = "expire" /\ at'[t].retry = FALSE
      BY <2>1 DEF Idle
    <2> QED BY <2>2 DEF Sane, Adrift, Returning, Reviewing
  <1>2. ASSUME NEW w \in Worker, ExpireWorker(t, w) PROVE Sane(t)'
    <2> DEFINE l == [at[t] EXCEPT !.pc = "expire session", !.w = w, !.raw = worker[w]]
    <2>1. l.pc = "expire session" /\ l.w = w /\ l.retry = at[t].retry
      BY <1>r DEF Locals
    <2>2. Become(t, l) /\ worker[w].status # "absent"
      BY <1>2 DEF ExpireWorker, Lapsed
    <2> HIDE DEF l
    <2> QED BY <1>r, <2>1, <2>2, BecomeSane DEF Returning, Reviewing
  <1>3. CASE ExpireSession(t)
    <2>1. ~PatchThrows(at[t].w, "queued") /\ ~PatchThrows(at[t].w, "failed")
      BY <1>3, NoUndo DEF ExpireSession, At, Adrift
    <2>2. Goto(t, "expire jobs") /\ at[t].pc = "expire session"
      BY <1>3, <2>1 DEF ExpireSession, At
    <2> QED BY <2>2 DEF Adrift, Returning, Reviewing
  <1>4. CASE ExpireJobs(t) \/ ExpireDone(t)
    <2>1. Goto(t, "expire") \/ Goto(t, "claim")
      BY <1>4 DEF ExpireJobs, ExpireDone
    <2> QED BY <2>1 DEF Adrift, Returning, Reviewing
  <1>5. ~ExpireUndo(t) /\ ~ClaimUndo(t) /\ ~ExecuteUndo(t)
    BY DEF LiveInv, Sane, ExpireUndo, ClaimUndo, ExecuteUndo, At
  <1>6. CASE ClaimSelect(t)
    <2>1. ASSUME NEW w \in Worker, MayClaimWorker(w, at[t].now),
                 Become(t, [at[t] EXCEPT !.pc = "claim cas", !.w = w, !.raw = worker[w]])
          PROVE  Sane(t)'
      <3> DEFINE l == [at[t] EXCEPT !.pc = "claim cas", !.w = w, !.raw = worker[w]]
      <3>1. l.pc = "claim cas" /\ l.w = w /\ l.retry = at[t].retry
        BY <1>r DEF Locals
      <3>2. Become(t, l) /\ worker[w].status # "absent"
        BY <2>1 DEF MayClaimWorker
      <3> HIDE DEF l
      <3> QED BY <1>r, <3>1, <3>2, BecomeSane DEF Returning, Reviewing
    <2> QED BY <1>6, <1>r, <2>1 DEF ClaimSelect
  <1>7. CASE ClaimCas(t)
    <2>1. Stop(t) \/ (Goto(t, "claim reread") /\ at[t].pc = "claim cas")
      BY <1>7 DEF ClaimCas, At
    <2> QED BY <1>r, <2>1 DEF Adrift, Returning, Reviewing
  <1>8. CASE ClaimReread(t)
    <2> DEFINE l == [at[t] EXCEPT !.pc = "claim session", !.held = worker[at[t].w]]
    <2>1. l.pc = "claim session" /\ l.w = at[t].w /\ l.retry = at[t].retry
      BY <1>r DEF Locals
    <2>2. Stop(t) \/ (Become(t, l) /\ worker[at[t].w].status # "absent")
      BY <1>8 DEF ClaimReread
    <2> HIDE DEF l
    <2> QED BY <1>r, <2>1, <2>2, BecomeSane DEF Returning, Reviewing
  <1>9. CASE ClaimSession(t)
    <2>1. ~PatchThrows(at[t].w, "running")
      BY <1>9, NoUndo DEF ClaimSession, At, Adrift
    <2>2. Stop(t) \/ (Goto(t, "execute") /\ at[t].pc = "claim session")
      BY <1>9, <2>1 DEF ClaimSession, At
    <2> QED BY <1>r, <2>2 DEF Adrift, Returning, Reviewing
  <1>10. CASE Execute(t)
    <2>1. Stop(t) \/ (Goto(t, "execute session") /\ at[t].pc = "execute")
      BY <1>10 DEF Execute, At
    <2> QED BY <1>r, <2>1 DEF Adrift, Returning, Reviewing
  <1>11. CASE ExecuteSession(t)
    <2>1. ~PatchThrows(at[t].w, "completed")
      BY <1>11, NoUndo DEF ExecuteSession, At, Adrift
    <2>2. Stop(t) \/ (Goto(t, "end loop") /\ at[t].pc = "execute session")
      BY <1>11, <2>1 DEF ExecuteSession, At, AfterResult
    <2> QED BY <1>r, <2>2 DEF Adrift, Returning, Reviewing
  <1>12. CASE EndLoop(t)
    BY <1>12, <1>r DEF EndLoop
  <1> QED BY <1>1, <1>2, <1>3, <1>4, <1>5, <1>6, <1>7, <1>8, <1>9, <1>10, <1>11,
             <1>12 DEF TickStep

LEMMA RecordSane ==
  ASSUME LiveInv, RunnersReport, [Next]_vars, NEW c \in Recorder, RecordStep(c)
  PROVE  Sane(c)'
  <1> c \in Process
    BY DEF Process
  <1>r. KernelInv
    BY DEF LiveInv
  <1> USE GotoSane, StopSane
  <1>1. ASSUME NEW w \in Worker, StartRecord(c, w) PROVE Sane(c)'
    <2> DEFINE l == [Idle EXCEPT !.pc = "insert", !.now = clock, !.w = w,
                                 !.attempt = worker[w].attempt, !.held = worker[w]]
    <2>1. l.pc = "insert" /\ l.w = w /\ l.retry = FALSE
      BY DEF Idle
    <2>2. Become(c, l) /\ worker[w].status # "absent"
      BY <1>1 DEF StartRecord
    <2> HIDE DEF l
    <2> QED BY <2>1, <2>2, BecomeSane DEF Returning, Reviewing
  <1>2. CASE InsertJob(c) \/ BindJob(c)
    <2>1. /\ at[c].pc \in {"insert", "bind"}
          /\ Stop(c) \/ Goto(c, "bind") \/ Goto(c, "delete")
      BY <1>2 DEF InsertJob, BindJob, At
    <2> QED BY <1>r, <2>1 DEF Adrift, Returning, Reviewing
  <1>3. CASE DeleteJob(c)
    BY <1>3, <1>r DEF DeleteJob
  <1> QED BY <1>1, <1>2, <1>3 DEF RecordStep

LEMMA ReviewSane ==
  ASSUME LiveInv, RunnersReport, [Next]_vars, NEW m \in Manager, ReviewStep(m)
  PROVE  Sane(m)'
  <1> m \in Process
    BY DEF Process
  <1>r. KernelInv
    BY DEF LiveInv
  <1> USE GotoSane, StopSane
  <1>1. ASSUME NEW w \in Worker, StartReview(m, w) PROVE Sane(m)'
    <2>1. PICK d \in Decision :
             Become(m, [Idle EXCEPT !.pc = "review insert", !.w = w,
                                    !.raw = worker[w], !.decision = d])
      BY <1>1 DEF StartReview
    <2> DEFINE l == [Idle EXCEPT !.pc = "review insert", !.w = w,
                                 !.raw = worker[w], !.decision = d]
    <2>2. l.pc = "review insert" /\ l.w = w /\ l.retry = FALSE /\ l.raw = worker[w]
      BY DEF Idle
    <2>3. worker[w].status = "submitted_for_review"
      BY <1>1 DEF StartReview
    <2> HIDE DEF l
    <2>4. Become(m, l)
      BY <2>1 DEF l
    <2> QED BY <2>2, <2>3, <2>4, BecomeSane DEF Returning, Reviewing
  <1>2. CASE InsertReview(m) \/ ReviewWorker(m)
    <2>1. /\ at[m].pc \in {"review insert", "review worker"}
          /\ \/ Goto(m, "review worker") \/ Goto(m, "review session")
             \/ Goto(m, "review undo")
      BY <1>2 DEF InsertReview, ReviewWorker, At
    <2> QED BY <2>1 DEF Adrift, Returning, Reviewing
  <1>3. CASE ReviewSession(m) \/ ReviewUndo(m)
    <2>1. /\ at[m].pc \in {"review session", "review undo"}
          /\ \/ Stop(m) \/ Goto(m, "review undo") \/ Goto(m, "review delete")
      BY <1>3 DEF ReviewSession, ReviewUndo, At
    <2> QED BY <1>r, <2>1 DEF Adrift, Returning, Reviewing
  <1>4. CASE ReviewDelete(m)
    BY <1>4, <1>r DEF ReviewDelete
  <1> QED BY <1>1, <1>2, <1>3, <1>4 DEF ReviewStep

LEMMA ResultSane ==
  ASSUME LiveInv, RunnersReport, [Next]_vars, NEW p \in Runner, ResultStep(p)
  PROVE  Sane(p)'
  <1> p \in Process
    BY DEF Process
  <1>r. /\ at[p] \in Locals /\ at[p].w \in Worker /\ ~at[p].retry
        /\ KernelInv /\ Sane(p)
    BY Remembered DEF LiveInv, Sane, KernelInv, TypeOK
  <1> USE GotoSane, StopSane, ThrownSane
  <1>1. CASE ReadRaw(p)
    <2> DEFINE l == [at[p] EXCEPT !.pc = "settle", !.raw = worker[at[p].w],
                                  !.sess = session[at[p].w]]
    <2>1. at'[p] = l /\ at[p].pc = "raw"
      BY <1>1, <1>r, BecomeIs DEF ReadRaw, At
    <2>2. /\ l.pc = "settle" /\ l.w = at[p].w /\ l.retry = at[p].retry
          /\ l.sess = session[at[p].w]
      BY <1>r DEF Locals
    <2>3. worker[at[p].w].status # "absent" /\ session[at[p].w] # "absent"
      BY <1>r, <2>1 DEF LiveInv, Sane, Attended, Adrift
    <2>4. worker'[at[p].w].status # "absent"
      BY <1>r, <2>3, PresentStays
    <2> HIDE DEF l
    <2> QED BY <1>r, <2>1, <2>2, <2>3, <2>4 DEF Sane, Reviewing
  <1>2. CASE Settle(p)
    <2>1. /\ at[p].pc = "settle"
          /\ Thrown(p) \/ Goto(p, "settle session")
      BY <1>2 DEF Settle, At
    <2> QED BY <2>1 DEF Adrift, Returning, Reviewing
  <1>3. CASE SettleSession(p)
    <2>1. /\ at[p].pc = "settle session"
          /\ Goto(p, "settle job") \/ Goto(p, "undo worker")
      BY <1>3 DEF SettleSession, At
    <2> QED BY <2>1 DEF Adrift, Returning, Reviewing
  <1>4. CASE SettleJob(p)
    <2>1. /\ at[p].pc = "settle job"
          /\ Stop(p) \/ Goto(p, "end loop") \/ Goto(p, "undo worker")
      BY <1>4 DEF SettleJob, At, Recorded, AfterResult
    <2> QED BY <1>r, <2>1 DEF Adrift, Returning, Reviewing
  <1>5. CASE UndoWorker(p)
    <2>1. at[p].pc = "undo worker" /\ Goto(p, "undo session")
      BY <1>5 DEF UndoWorker, At
    <2> QED BY <2>1 DEF Adrift, Returning, Reviewing
  <1>6. CASE UndoSession(p)
    <2>1. at[p].pc = "undo session" /\ Thrown(p)
      BY <1>6 DEF UndoSession, At
    <2> QED BY <2>1 DEF Adrift
  <1>7. CASE EndLoop(p)
    BY <1>7, <1>r DEF EndLoop
  <1> QED BY <1>1, <1>2, <1>3, <1>4, <1>5, <1>6, <1>7 DEF ResultStep

LEMMA RunnerSane ==
  ASSUME LiveInv, RunnersReport, [Next]_vars, NEW r \in Runner, RunnerStep(r)
  PROVE  Sane(r)'
  <1> r \in Process
    BY DEF Process
  <1>r. /\ at[r] \in Locals /\ at[r].w \in Worker /\ ~at[r].retry
        /\ KernelInv /\ Sane(r)
    BY Remembered DEF LiveInv, Sane, KernelInv, TypeOK
  <1> USE GotoSane, StopSane, ThrownSane
  <1>p. at[r].pc \notin Adrift => worker[at[r].w].status # "absent"
    BY <1>r DEF Sane
  <1>1. CASE StartDrain(r)
    <2>1. at'[r] = [Idle EXCEPT !.pc = "expire", !.now = clock]
      BY <1>1, <1>r, BecomeIs DEF StartDrain
    <2>2. at'[r].pc = "expire" /\ at'[r].retry = FALSE
      BY <2>1 DEF Idle
    <2> QED BY <2>2 DEF Sane, Adrift, Returning, Reviewing
  <1>2. ASSUME NEW j \in JobId, ExpireJob(r, j) PROVE Sane(r)'
    <2>1. at'[r] = at[r] /\ worker' = worker
      BY <1>2 DEF ExpireJob
    <2> QED BY <1>r, <2>1 DEF Sane
  <1>3. CASE JobsExpired(r)
    <2>1. Goto(r, "claim")
      BY <1>3 DEF JobsExpired
    <2> QED BY <2>1 DEF Adrift, Returning, Reviewing
  <1>4. CASE ClaimJob(r)
    <2>1. ASSUME NEW j \in JobId, MayClaimJob(j, at[r].now),
                 Become(r, [at[r] EXCEPT !.pc = "load", !.w = j[1], !.attempt = j[2],
                                         !.until = at[r].now + JobLease])
          PROVE  Sane(r)'
      <3> DEFINE l == [at[r] EXCEPT !.pc = "load", !.w = j[1], !.attempt = j[2],
                                    !.until = at[r].now + JobLease]
      <3>1. l.pc = "load" /\ l.w = j[1] /\ l.retry = at[r].retry
        BY <1>r DEF Locals
      <3>2. /\ Become(r, l) /\ worker[j[1]].status # "absent"
            /\ j[1] \in Worker
        BY <2>1 DEF MayClaimJob, JobDue, RunsAttempt, JobId
      <3> HIDE DEF l
      <3> QED BY <1>r, <3>1, <3>2, BecomeSane DEF Returning, Reviewing
    <2> QED BY <1>4, <1>r, <2>1 DEF ClaimJob
  <1>5. CASE LoadWorker(r)
    <2> DEFINE l == [at[r] EXCEPT !.pc = "run", !.held = worker[at[r].w]]
    <2>1. l.pc = "run" /\ l.w = at[r].w /\ l.retry = at[r].retry
      BY <1>r DEF Locals
    <2>2. at[r].pc = "load" /\ (Become(r, l) \/ Thrown(r))
      BY <1>5 DEF LoadWorker, At
    <2> HIDE DEF l
    <2> QED BY <1>r, <1>p, <2>1, <2>2, BecomeSane DEF Adrift, Returning, Reviewing
  <1>6. CASE Heartbeat(r)
    <2>1. PICK u : Become(r, [at[r] EXCEPT !.until = u])
      BY <1>6 DEF Heartbeat
    <2> DEFINE l == [at[r] EXCEPT !.until = u]
    <2>2. l.pc = at[r].pc /\ l.w = at[r].w /\ l.retry = at[r].retry
      BY <1>r DEF Locals
    <2>3. at[r].pc = "run"
      BY <1>6 DEF Heartbeat, At
    <2>4. Become(r, l)
      BY <2>1
    <2> HIDE DEF l
    <2> QED BY <1>r, <1>p, <2>2, <2>3, <2>4, BecomeSane DEF Adrift, Returning, Reviewing
  <1>7. CASE HandBack(r)
    <2>1. at[r].pc = "run" /\ (Stop(r) \/ Thrown(r))
      BY <1>7 DEF HandBack, At
    <2> QED BY <1>r, <2>1 DEF Adrift
  <1>8. CASE ReturnResult(r)
    <2>1. PICK t, kind :
             \/ Become(r, [at[r] EXCEPT !.pc = "raw", !.now = t, !.kind = kind])
             \/ Become(r, [at[r] EXCEPT !.pc = "fail guard", !.now = t, !.kind = kind])
      BY <1>8, ReturnsPlainly
    <2>2. at[r].pc = "run"
      BY <1>8 DEF ReturnResult, At
    <2> DEFINE k == [at[r] EXCEPT !.pc = "raw", !.now = t, !.kind = kind]
               l == [at[r] EXCEPT !.pc = "fail guard", !.now = t, !.kind = kind]
    <2>3. /\ k.pc = "raw" /\ k.w = at[r].w /\ k.retry = at[r].retry
          /\ l.pc = "fail guard" /\ l.w = at[r].w /\ l.retry = at[r].retry
      BY <1>r DEF Locals
    <2>4. Become(r, k) \/ Become(r, l)
      BY <2>1
    <2> HIDE DEF k, l
    <2> QED BY <1>r, <1>p, <2>2, <2>3, <2>4, BecomeSane DEF Adrift, Returning, Reviewing
  <1>9. CASE FailGuard(r)
    <2> DEFINE l == [at[r] EXCEPT !.pc = "raw", !.held = worker[at[r].w]]
    <2>1. l.pc = "raw" /\ l.w = at[r].w /\ l.retry = at[r].retry
      BY <1>r DEF Locals
    <2>2. at[r].pc = "fail guard" /\ (Become(r, l) \/ Thrown(r) \/ Stop(r))
      BY <1>9 DEF FailGuard, At
    <2> HIDE DEF l
    <2> QED BY <1>r, <1>p, <2>1, <2>2, BecomeSane DEF Adrift, Returning, Reviewing
  <1> QED BY <1>1, <1>2, <1>3, <1>4, <1>5, <1>6, <1>7, <1>8, <1>9, ResultSane
          DEF RunnerStep

LEMMA LiveStep ==
  ASSUME LiveInv, RunnersReport, [Next]_vars
  PROVE  LiveInv'
  <1>1. KernelInv'
    BY KernelStepInv DEF LiveInv
  <1>2. ASSUME NEW w \in Worker PROVE Attended(w)'
    BY PresentStays
  <1>3. ASSUME NEW p \in Process PROVE Sane(p)'
    <2>1. CASE at'[p] = at[p]
      <3>1. Sane(p) /\ at[p].w \in Worker
        BY Remembered DEF LiveInv
      <3>2. worker[at[p].w].status # "absent" => worker'[at[p].w].status # "absent"
        BY <3>1, PresentStays
      <3> QED BY <2>1, <3>1, <3>2 DEF Sane
    <2>2. CASE Crash(p)
      BY <2>2, StopSane DEF Crash, LiveInv
    <2> QED BY <2>1, <2>2, OneMoves, TickSane, RecordSane, RunnerSane, ReviewSane
            DEF OwnStep, RunnersReport, LiveInv
  <1> QED BY <1>1, <1>2, <1>3 DEF LiveInv

LEMMA LiveInit == Init => LiveInv
  <1> SUFFICES ASSUME Init PROVE LiveInv
    OBVIOUS
  <1>1. \A w \in Worker : Attended(w)
    BY DEF Init, Attended, NoWorker
  <1>2. ASSUME NEW p \in Process PROVE Sane(p)
    <2>1. at[p].pc = "idle" /\ at[p].retry = FALSE
      BY DEF Init, Idle
    <2> QED BY <2>1 DEF Sane, Adrift, Returning, Reviewing
  <1> QED BY <1>1, <1>2, InitInv DEF LiveInv

(* A runner whose result is in the worker's row, but not in its job yet.   *)
Recording == {"settle session", "settle job", "undo worker"}

Records(p) == at[p].pc \in Recording

Over(w) == worker[w].status \notin MayRun \cup {"absent"}

(* While a runner records the result of a worker, the worker is not run    *)
(* and nobody else records a result of it.                                 *)
Alone(p) ==
    Records(p) =>
        /\ Over(at[p].w)
        /\ \A q \in Runner : Records(q) /\ at[q].w = at[p].w => q = p

(* The worker of a completed job is over, and nobody records a result of   *)
(* it that could still be undone.                                          *)
Kept(j) ==
    job[j].status = "completed" =>
        /\ Over(j[1])
        /\ \A p \in Runner : Records(p) => at[p].w # j[1]

SettledInv ==
    /\ LiveInv
    /\ \A p \in Runner : Alone(p)
    /\ \A j \in JobId : Kept(j)

LEMMA RunnerMoves ==
  ASSUME KernelInv, [Next]_vars, NEW p \in Runner, at'[p] # at[p]
  PROVE  RunnerStep(p) \/ Crash(p)
  BY OneMoves DEF OwnStep, Process

LEMMA UndoLeaves ==
  ASSUME KernelInv, NEW p \in Runner, UndoWorker(p)
  PROVE  Records(p) /\ ~Records(p)' /\ at[p].pc = "undo worker"
  <1>1. at[p].pc = "undo worker" /\ at'[p].pc = "undo session"
    BY GotoIs DEF UndoWorker, At, Process
  <1> QED BY <1>1 DEF Records, Recording

LEMMA OverStays ==
  ASSUME LiveInv, RunnersReport, [Next]_vars, NEW w \in Worker, Over(w), ~Undone(w)
  PROVE  Over(w)'
  BY WorkerMoves DEF Moves, Appears, Lapses, Lapsed, Taken, MayClaimWorker,
     Closes, Over, MayRun

(* How a runner comes to record a result, and what it remembers then.      *)
LEMMA RecordsComes ==
  ASSUME KernelInv, [Next]_vars, NEW p \in Runner, Records(p)'
  PROVE  /\ at'[p].w = at[p].w /\ at'[p].raw = at[p].raw
         /\ at'[p].held = at[p].held /\ at'[p].attempt = at[p].attempt
         /\ Records(p) \/ (Settle(p) /\ MaySettle(p))
  <1> p \in Process
    BY DEF Process
  <1>0. at[p] \in Locals
    BY DEF KernelInv, TypeOK
  <1>1. CASE at'[p] = at[p]
    BY <1>1 DEF Records
  <1>2. CASE at'[p] # at[p]
    <2>1. ~Crash(p)
      <3>1. Crash(p) => at'[p].pc = "idle"
        BY StopIs DEF Crash
      <3> QED BY <3>1 DEF Records, Recording
    <2>2. ~StartDrain(p)
      <3>1. StartDrain(p) => at'[p] = [Idle EXCEPT !.pc = "expire", !.now = clock]
        BY BecomeIs DEF StartDrain
      <3>2. StartDrain(p) => at'[p].pc = "expire"
        BY <3>1 DEF Idle
      <3> QED BY <3>2 DEF Records, Recording
    <2>3. \A j \in JobId : ~ExpireJob(p, j)
      BY <1>2 DEF ExpireJob
    <2>4. ASSUME NEW pc \in Label, Goto(p, pc)
          PROVE  /\ at'[p].pc = pc /\ at'[p].w = at[p].w /\ at'[p].raw = at[p].raw
                 /\ at'[p].held = at[p].held /\ at'[p].attempt = at[p].attempt
      BY <2>4, GotoIs
    <2>5. Stop(p) => at'[p].pc = "idle"
      BY StopIs
    <2>6. Thrown(p) => at'[p].pc \in {"idle", "fail guard"}
      <3>1. ASSUME Become(p, [at[p] EXCEPT !.pc = "fail guard", !.kind = "give up", !.retry = FALSE])
            PROVE  at'[p].pc = "fail guard"
        <4>1. at'[p] = [at[p] EXCEPT !.pc = "fail guard", !.kind = "give up", !.retry = FALSE]
          BY <3>1, BecomeIs
        <4> QED BY <1>0, <4>1 DEF Locals
      <3> QED BY <2>5, <3>1 DEF Thrown
    <2>7. ~JobsExpired(p)
      <3>1. JobsExpired(p) => at'[p].pc = "claim"
        BY <2>4 DEF JobsExpired, Label
      <3> QED BY <3>1 DEF Records, Recording
    <2>8. ~ClaimJob(p)
      <3>1. ASSUME NEW l, Become(p, [at[p] EXCEPT !.pc = "load", !.w = l[1],
                                     !.attempt = l[2], !.until = at[p].now + JobLease])
            PROVE  at'[p].pc = "load"
        <4>1. at'[p] = [at[p] EXCEPT !.pc = "load", !.w = l[1],
                                     !.attempt = l[2], !.until = at[p].now + JobLease]
          BY <3>1, BecomeIs
        <4> QED BY <1>0, <4>1 DEF Locals
      <3>2. ClaimJob(p) => at'[p].pc \in {"load", "idle"}
        BY <2>5, <3>1 DEF ClaimJob
      <3> QED BY <3>2 DEF Records, Recording
    <2>9. ~LoadWorker(p) /\ ~FailGuard(p)
      <3>1. ASSUME NEW pc \in {"run", "raw"}, NEW held,
                   Become(p, [at[p] EXCEPT !.pc = pc, !.held = held])
            PROVE  at'[p].pc = pc
        <4>1. at'[p] = [at[p] EXCEPT !.pc = pc, !.held = held]
          BY <3>1, BecomeIs
        <4> QED BY <1>0, <4>1 DEF Locals
      <3>2. LoadWorker(p) \/ FailGuard(p) => at'[p].pc \in {"run", "raw", "idle", "fail guard"}
        BY <2>5, <2>6, <3>1 DEF LoadWorker, FailGuard
      <3> QED BY <3>2 DEF Records, Recording
    <2>10. ~Heartbeat(p)
      <3>1. ASSUME NEW u, Become(p, [at[p] EXCEPT !.until = u])
            PROVE  at'[p].pc = at[p].pc
        <4>1. at'[p] = [at[p] EXCEPT !.until = u]
          BY <3>1, BecomeIs
        <4> QED BY <1>0, <4>1 DEF Locals
      <3>2. Heartbeat(p) => at'[p].pc = "run"
        BY <3>1 DEF Heartbeat, At
      <3> QED BY <3>2 DEF Records, Recording
    <2>11. ~HandBack(p)
      <3>1. HandBack(p) => at'[p].pc \in {"idle", "fail guard"}
        BY <2>5, <2>6 DEF HandBack
      <3> QED BY <3>1 DEF Records, Recording
    <2>12. ~ReturnResult(p)
      <3>1. ASSUME NEW pc \in {"raw", "fail guard"}, NEW t, NEW kind,
                   Become(p, [at[p] EXCEPT !.pc = pc, !.now = t, !.kind = kind])
            PROVE  at'[p].pc = pc
        <4>1. at'[p] = [at[p] EXCEPT !.pc = pc, !.now = t, !.kind = kind]
          BY <3>1, BecomeIs
        <4> QED BY <1>0, <4>1 DEF Locals
      <3>2. ASSUME NEW t, NEW may,
                   Become(p, [at[p] EXCEPT !.pc = "raw", !.now = t, !.kind = "fail",
                                           !.retry = may])
            PROVE  at'[p].pc = "raw"
        <4>1. at'[p] = [at[p] EXCEPT !.pc = "raw", !.now = t, !.kind = "fail",
                                     !.retry = may]
          BY <3>2, BecomeIs
        <4> QED BY <1>0, <4>1 DEF Locals
      <3>3. ReturnResult(p) => at'[p].pc \in {"raw", "fail guard"}
        BY <3>1, <3>2 DEF ReturnResult
      <3> QED BY <3>3 DEF Records, Recording
    <2>13. ~ReadRaw(p)
      <3>1. ReadRaw(p) => at'[p] = [at[p] EXCEPT !.pc = "settle", !.raw = worker[at[p].w],
                                                  !.sess = session[at[p].w]]
        BY BecomeIs DEF ReadRaw
      <3>2. ReadRaw(p) => at'[p].pc = "settle"
        BY <1>0, <3>1 DEF Locals
      <3> QED BY <3>2 DEF Records, Recording
    <2>14. ~UndoWorker(p) /\ ~UndoSession(p) /\ ~EndLoop(p)
      <3>1. UndoWorker(p) => at'[p].pc = "undo session"
        BY <2>4 DEF UndoWorker, Label
      <3>2. UndoSession(p) \/ EndLoop(p) => at'[p].pc \in {"idle", "fail guard"}
        BY <2>5, <2>6 DEF UndoSession, EndLoop
      <3> QED BY <3>1, <3>2 DEF Records, Recording
    <2>15. Settle(p) \/ SettleSession(p) \/ SettleJob(p)
      BY <1>2, RunnerMoves, <2>1, <2>2, <2>3, <2>7, <2>8, <2>9, <2>10, <2>11,
         <2>12, <2>13, <2>14 DEF RunnerStep, ResultStep
    <2>16. CASE Settle(p)
      <3>1. MaySettle(p) /\ Goto(p, "settle session")
        BY <2>6, <2>16 DEF Settle, Records, Recording
      <3> QED BY <2>4, <2>16, <3>1 DEF Label
    <2>17. CASE SettleSession(p)
      <3>1. at[p].pc = "settle session" /\ (Goto(p, "settle job") \/ Goto(p, "undo worker"))
        BY <2>17 DEF SettleSession, At
      <3> QED BY <2>4, <3>1 DEF Label, Records, Recording
    <2>18. CASE SettleJob(p)
      <3>1. /\ at[p].pc = "settle job"
            /\ Stop(p) \/ Goto(p, "end loop") \/ Goto(p, "undo worker")
        BY <2>18 DEF SettleJob, At, Recorded, AfterResult
      <3> QED BY <2>4, <2>5, <3>1 DEF Label, Records, Recording
    <2> QED BY <2>15, <2>16, <2>17, <2>18
  <1> QED BY <1>1, <1>2

(* While p records a result of w, nobody undoes one of w but p.            *)
LEMMA NotUndone ==
  ASSUME SettledInv, NEW p \in Runner, Records(p), Records(p)'
  PROVE  ~Undone(at[p].w)
  <1> SUFFICES ASSUME NEW q \in Runner, at[q].w = at[p].w, UndoWorker(q)
               PROVE  FALSE
    BY DEF Undone
  <1>1. Records(q) /\ ~Records(q)'
    BY UndoLeaves DEF SettledInv, LiveInv
  <1>2. q = p
    BY <1>1 DEF SettledInv, Alone
  <1> QED BY <1>1, <1>2

LEMMA SettleMoves ==
  ASSUME LiveInv, NEW p \in Runner, Settle(p), MaySettle(p)
  PROVE  /\ worker[at[p].w].status = "running"
         /\ Over(at[p].w)'
         /\ \A q \in Runner : q # p => at'[q] = at[q]
  <1>r. /\ p \in Process /\ at[p].w \in Worker /\ KernelInv
        /\ worker \in [Worker -> WorkerRow] /\ worker[at[p].w] \in WorkerRow
    BY Remembered DEF LiveInv, KernelInv, TypeOK, Process
  <1>1. worker'[at[p].w] = Settled(p, worker[at[p].w])
    BY <1>r DEF Settle
  <1>2. ~at[p].retry
    BY <1>r DEF LiveInv, Sane
  <1>3. worker'[at[p].w].status \in {"submitted_for_review", "failed"}
    BY <1>r, <1>1, <1>2 DEF Settled, Unleased, WorkerRow
  <1>4. ASSUME NEW q \in Runner, q # p PROVE at'[q] = at[q]
    BY <1>r, <1>4, ResultAlone DEF ResultStep, Process
  <1>5. at'[p].w = at[p].w
    BY <1>r, GotoIs DEF Settle
  <1> QED BY <1>3, <1>4, <1>5 DEF MaySettle, Over, MayRun

LEMMA AloneStep ==
  ASSUME SettledInv, RunnersReport, [Next]_vars, NEW p \in Runner
  PROVE  Alone(p)'
  <1> SUFFICES ASSUME Records(p)'
               PROVE  /\ Over(at[p].w)'
                      /\ \A q \in Runner : Records(q)' /\ at'[q].w = at'[p].w => q = p
    BY DEF Alone
  <1>0. LiveInv /\ KernelInv /\ at[p].w \in Worker
    BY Remembered DEF SettledInv, LiveInv, Process
  <1>p. at'[p].w = at[p].w /\ (Records(p) \/ (Settle(p) /\ MaySettle(p)))
    BY <1>0, RecordsComes
  <1>1. CASE Records(p)
    <2>1. Over(at[p].w)
      BY <1>1 DEF SettledInv, Alone
    <2>2. Over(at[p].w)'
      <3>1. worker'[at[p].w].status \notin MayRun \cup {"absent"}
        <4> DEFINE w == at[p].w
        <4>1. ~Undone(w)
          BY <1>1, NotUndone
        <4>2. Over(w) /\ w \in Worker
          BY <1>0, <2>1
        <4> HIDE DEF w
        <4>3. worker'[w].status \notin MayRun \cup {"absent"}
          BY <1>0, <4>1, <4>2, WorkerMoves DEF Moves, Appears, Lapses, Lapsed, Taken,
             MayClaimWorker, Closes, Over, MayRun
        <4> QED BY <4>3 DEF w
      <3> QED BY <3>1, <1>p DEF Over
    <2>3. ASSUME NEW q \in Runner, Records(q)', at'[q].w = at'[p].w PROVE q = p
      <3>1. at'[q].w = at[q].w /\ (Records(q) \/ (Settle(q) /\ MaySettle(q)))
        BY <1>0, <2>3, RecordsComes
      <3>2. CASE Records(q)
        BY <1>1, <1>p, <2>3, <3>1, <3>2 DEF SettledInv, Alone
      <3>3. CASE MaySettle(q)
        BY <1>p, <2>1, <2>3, <3>1, <3>3 DEF MaySettle, Over, MayRun
      <3> QED BY <3>1, <3>2, <3>3
    <2> QED BY <1>p, <2>2, <2>3 DEF Over
  <1>2. CASE Settle(p) /\ MaySettle(p)
    <2>1. /\ worker[at[p].w].status = "running"
          /\ Over(at[p].w)'
          /\ \A q \in Runner : q # p => at'[q] = at[q]
      BY <1>0, <1>2, SettleMoves
    <2>2. ASSUME NEW q \in Runner, Records(q)', at'[q].w = at'[p].w, q # p PROVE FALSE
      <3>1. Records(q) /\ at[q].w = at[p].w
        BY <1>p, <2>1, <2>2 DEF Records
      <3>2. Over(at[p].w)
        BY <3>1 DEF SettledInv, Alone
      <3> QED BY <2>1, <3>2 DEF Over, MayRun
    <2> QED BY <1>p, <2>1, <2>2 DEF Over
  <1> QED BY <1>p, <1>1, <1>2

LEMMA CompletedBy ==
  ASSUME LiveInv, [Next]_vars, NEW j \in JobId,
         job[j].status # "completed", job'[j].status = "completed"
  PROVE  \E p \in Runner :
            /\ SettleJob(p) /\ Records(p) /\ ~Records(p)'
            /\ at[p].w = j[1]
  <1>0. /\ KernelInv /\ job \in [JobId -> JobRow] /\ job[j] \in JobRow
    BY DEF LiveInv, KernelInv, TypeOK
  <1>1. JobStep
    BY StepsOnJobs
  <1>2. ASSUME NEW t \in Ticker, ExpireJobs(t) PROVE FALSE
    <2>1. job'[j] = Cancelled(job[j]) \/ job'[j] = job[j]
      BY <1>0, <1>2 DEF ExpireJobs
    <2> QED BY <1>0, <2>1 DEF Cancelled, UnleasedJob, JobRow
  <1>3. ASSUME NEW c \in Recorder, InsertJob(c) \/ DeleteJob(c) PROVE FALSE
    BY <1>0, <1>3 DEF InsertJob, DeleteJob, NoJob
  <1>4. ASSUME NEW r \in Runner, NEW k \in JobId, ExpireJob(r, k) PROVE FALSE
    <2>1. job'[j] = ExpiredJob(job[j], at[r].now) \/ job'[j] = job[j]
      BY <1>0, <1>4 DEF ExpireJob
    <2> QED BY <1>0, <2>1 DEF ExpiredJob, UnleasedJob, JobRow
  <1>5. ASSUME NEW r \in Runner, ClaimJob(r) PROVE FALSE
    <2>1. job'[j] = ClaimedJob(job[j], r, at[r].now) \/ job'[j] = job[j]
      BY <1>0, <1>5 DEF ClaimJob
    <2> QED BY <1>0, <2>1 DEF ClaimedJob, JobRow
  <1>6. ASSUME NEW r \in Runner, Heartbeat(r) \/ HandBack(r) PROVE FALSE
    <2>1. \/ \E u : job'[j] = [job[j] EXCEPT !.until = u]
          \/ \E u : job'[j] = UnleasedJob(job[j], "retry_scheduled", u)
          \/ job'[j] = job[j]
      BY <1>0, <1>6 DEF Heartbeat, HandBack
    <2> QED BY <1>0, <2>1 DEF UnleasedJob, JobRow
  <1>7. ASSUME NEW p \in Runner, SettleJob(p)
        PROVE  /\ Records(p) /\ ~Records(p)' /\ at[p].w = j[1]
    <2> p \in Process
      BY DEF Process
    <2>1. j = <<at[p].w, at[p].attempt>>
      BY <1>0, <1>7 DEF SettleJob
    <2>2. at[p].pc = "settle job" /\ Recorded(p)
      BY <1>0, <1>7, <2>1 DEF SettleJob, At
    <2>3. at'[p].pc \in {"idle", "end loop"}
      <3>1. Goto(p, "end loop") \/ Stop(p)
        BY <2>2 DEF Recorded, AfterResult
      <3>2. Goto(p, "end loop") => at'[p].pc = "end loop"
        BY <1>0, GotoIs
      <3>3. Stop(p) => at'[p].pc = "idle"
        BY <1>0, StopIs
      <3> QED BY <3>1, <3>2, <3>3
    <2> QED BY <2>1, <2>2, <2>3 DEF Records, Recording
  <1> QED BY <1>1, <1>2, <1>3, <1>4, <1>5, <1>6, <1>7 DEF JobStep

LEMMA KeptStep ==
  ASSUME SettledInv, RunnersReport, [Next]_vars, NEW j \in JobId
  PROVE  Kept(j)'
  <1> SUFFICES ASSUME job'[j].status = "completed"
               PROVE  /\ Over(j[1])'
                      /\ \A p \in Runner : Records(p)' => at'[p].w # j[1]
    BY DEF Kept, Over
  <1>0. LiveInv /\ KernelInv /\ j[1] \in Worker
    BY DEF SettledInv, LiveInv, JobId
  <1>1. CASE job[j].status = "completed"
    <2>1. Over(j[1]) /\ \A p \in Runner : Records(p) => at[p].w # j[1]
      BY <1>1 DEF SettledInv, Kept
    <2>2. ~Undone(j[1])
      <3> SUFFICES ASSUME NEW q \in Runner, at[q].w = j[1], UndoWorker(q)
                   PROVE  FALSE
        BY DEF Undone
      <3> QED BY <1>0, <2>1, UndoLeaves
    <2>3. Over(j[1])'
      BY <1>0, <2>1, <2>2, OverStays
    <2>4. ASSUME NEW p \in Runner, Records(p)', at'[p].w = j[1] PROVE FALSE
      <3>1. at'[p].w = at[p].w /\ (Records(p) \/ MaySettle(p))
        BY <1>0, <2>4, RecordsComes
      <3> QED BY <2>1, <2>4, <3>1 DEF MaySettle, Over, MayRun
    <2> QED BY <2>3, <2>4
  <1>2. CASE job[j].status # "completed"
    <2>1. PICK p \in Runner :
             /\ SettleJob(p) /\ Records(p) /\ ~Records(p)'
             /\ at[p].w = j[1]
      BY <1>0, <1>2, CompletedBy
    <2>2. Over(j[1]) /\ \A q \in Runner : Records(q) /\ at[q].w = j[1] => q = p
      BY <2>1 DEF SettledInv, Alone
    <2>3. Over(j[1])'
      BY <2>1, <2>2 DEF SettleJob, Over
    <2>4. ASSUME NEW q \in Runner, Records(q)', at'[q].w = j[1] PROVE FALSE
      <3>1. q # p
        BY <2>1, <2>4
      <3>2. at'[q] = at[q]
        BY <1>0, <2>1, <3>1, ResultAlone DEF ResultStep, Process
      <3> QED BY <2>2, <2>4, <3>1, <3>2 DEF Records
    <2> QED BY <2>3, <2>4
  <1> QED BY <1>1, <1>2

LEMMA SettledStep ==
  ASSUME SettledInv, RunnersReport, [Next]_vars
  PROVE  SettledInv'
  <1>1. LiveInv'
    BY LiveStep DEF SettledInv
  <1> QED BY <1>1, AloneStep, KeptStep DEF SettledInv

LEMMA SettledInit == Init => SettledInv
  <1> SUFFICES ASSUME Init PROVE SettledInv
    OBVIOUS
  <1>1. \A p \in Runner : ~Records(p)
    BY DEF Init, Idle, Records, Recording, Process
  <1>2. \A j \in JobId : job[j].status = "absent"
    BY DEF Init, NoJob
  <1> QED BY <1>1, <1>2, LiveInit DEF SettledInv, Alone, Kept

(* The result of a completed adapter job is kept, for any number of        *)
(* workers, attempts and runners and whoever dies, where only runners      *)
(* return results and no session patch throws.  A result is undone without *)
(* a condition; it is safe because whoever records one keeps its worker    *)
(* over until the job, settled last, is settled too, so that two results   *)
(* of one worker are never recorded at a time (workflowV2WorkerResultSubmit,*)
(* workflowV2RestoreWorkerRunRow).                                         *)
THEOREM CompletedJobsKeepResultHolds ==
  RunnersReport => (Spec => []CompletedJobsKeepResult)
  <1> SUFFICES ASSUME RunnersReport PROVE Spec => []CompletedJobsKeepResult
    OBVIOUS
  <1>1. SettledInv /\ [Next]_vars => SettledInv'
    BY SettledStep
  <1>2. SettledInv => CompletedJobsKeepResult
    BY DEF SettledInv, Kept, Over, MayRun, CompletedJobsKeepResult
  <1> QED BY <1>1, <1>2, SettledInit, PTL DEF Spec

-----------------------------------------------------------------------------
(* Leases grow: a worker is put up for its next attempt only when its      *)
(* lease has ended, and not before the delay, so that the lease of the     *)
(* next attempt ends later.  Two attempts never have the same lease, which *)
(* is all that the UPDATE of a result compares.                            *)

(* A lease that lasts until u, of attempt a, is older than the row r's     *)
(* lease, or is that lease.                                                *)
NotAfter(u, a, r) == u < r.until \/ (u = r.until /\ a = r.attempt)

(* It is not after any lease that w has or may have again.                 *)
Behind(w, u, a) ==
    /\ worker[w].status \notin {"absent", "queued"}
    /\ worker[w].status = "running" => NotAfter(u, a, worker[w])
    /\ worker[w].status = "retry_scheduled" => u <= worker[w].next
    /\ \A p \in Runner :
          Records(p) /\ at[p].w = w /\ at[p].raw.status = "running"
          => NotAfter(u, a, at[p].raw)

NoAttempt == MaxAttempts + 1

(* What a runner has read of its worker.                                   *)
Holds(p) == at[p].pc \in {"run", "raw", "settle"} \cup Recording

LeaseKnown(p) ==
    Holds(p) =>
        /\ at[p].held.attempt = at[p].attempt
        /\ Behind(at[p].w, at[p].held.until, at[p].attempt)

SameLease(p) ==
    /\ at[p].raw.status = "running"
    /\ at[p].raw.until = at[p].held.until
    /\ at[p].raw.attempt = at[p].attempt

RowKnown(p) ==
    /\ at[p].pc = "settle" =>
          \/ at[p].raw.status \notin MayRun
          \/ SameLease(p)
          \/ Behind(at[p].w, at[p].held.until, NoAttempt)
    /\ Records(p) => at[p].raw.status \notin MayRun \/ SameLease(p)

LeasedInv ==
    /\ SettledInv
    /\ \A p \in Runner : LeaseKnown(p) /\ RowKnown(p)

(* A runner that is about to settle its worker holds its current lease.    *)
LEMMA SettlesCurrent ==
  ASSUME LeasedInv, NEW p \in Runner, at[p].pc = "settle", MaySettle(p)
  PROVE  /\ worker[at[p].w].attempt = at[p].attempt
         /\ worker[at[p].w].until = at[p].held.until
         /\ at[p].raw.status \notin MayRun \/ SameLease(p)
  <1>0. /\ at[p].held \in WorkerRow /\ worker[at[p].w] \in WorkerRow
        /\ worker[at[p].w].status = "running"
        /\ worker[at[p].w].until = at[p].held.until
    BY Remembered DEF LeasedInv, SettledInv, LiveInv, Process, MaySettle
  <1>1. NotAfter(at[p].held.until, at[p].attempt, worker[at[p].w])
    BY <1>0 DEF LeasedInv, LeaseKnown, Holds, Behind
  <1>2. worker[at[p].w].attempt = at[p].attempt
    BY <1>0, <1>1 DEF NotAfter, WorkerRow
  <1>3. ~Behind(at[p].w, at[p].held.until, NoAttempt)
    BY <1>0 DEF Behind, NotAfter, NoAttempt, WorkerRow
  <1> QED BY <1>0, <1>2, <1>3 DEF LeasedInv, RowKnown

LEMMA BehindStays ==
  ASSUME LeasedInv, RunnersReport, [Next]_vars, NEW w \in Worker,
         NEW u \in Nat, NEW a \in Nat, Behind(w, u, a)
  PROVE  Behind(w, u, a)'
  <1>0. /\ SettledInv /\ LiveInv /\ KernelInv
        /\ worker \in [Worker -> WorkerRow] /\ worker[w] \in WorkerRow
        /\ worker[w].status \notin {"absent", "queued"}
    BY DEF LeasedInv, SettledInv, LiveInv, KernelInv, TypeOK, Behind
  <1>1. /\ worker'[w].status \notin {"absent", "queued"}
        /\ worker'[w].status = "running" => NotAfter(u, a, worker'[w])
        /\ worker'[w].status = "retry_scheduled" => u <= worker'[w].next
    <2>1. CASE worker'[w] = worker[w]
      BY <2>1 DEF Behind
    <2>2. CASE Appears(w)
      BY <1>0, <2>2 DEF Appears
    <2>3. CASE Lapses(w)
      <3>1. PICK t \in Nat :
               /\ Lapsed(w, t)
               /\ \/ worker'[w].status = "timed_out"
                  \/ /\ worker'[w].status = "retry_scheduled"
                     /\ worker'[w].next = t + WorkerDelay
        BY <2>3 DEF Lapses
      <3>2. u <= worker[w].until /\ worker[w].until <= t /\ worker[w].until \in Nat
        BY <1>0, <3>1 DEF Lapsed, Behind, NotAfter, WorkerRow
      <3>3. u <= t + WorkerDelay
        BY <3>2
      <3> QED BY <3>1, <3>3
    <2>4. CASE Taken(w)
      <3>1. PICK t \in Nat :
               /\ MayClaimWorker(w, t)
               /\ worker'[w].status = "running"
               /\ worker'[w].until = t + WorkerLease
        BY <2>4 DEF Taken
      <3>2. u <= worker[w].next /\ worker[w].next <= t /\ worker[w].next \in Nat
        BY <1>0, <3>1 DEF MayClaimWorker, Behind, WorkerRow
      <3>3. u < t + WorkerLease
        BY <3>2
      <3> QED BY <3>1, <3>3 DEF NotAfter
    <2>5. CASE Closes(w)
      BY <2>5 DEF Closes, MayRun
    <2>6. CASE Undone(w)
      <3>1. PICK p \in Runner : at[p].w = w /\ UndoWorker(p)
        BY <2>6 DEF Undone
      <3>2. Records(p)
        BY <1>0, <3>1, UndoLeaves
      <3>3. \/ worker'[w] = worker[w]
            \/ at[p].raw.status # "absent" /\ worker'[w] = at[p].raw
        BY <1>0, <3>1 DEF UndoWorker, RestoreWorker, Restored
      <3>4. at[p].raw.status \notin MayRun \/ at[p].raw.status = "running"
        BY <3>2 DEF LeasedInv, RowKnown, SameLease
      <3>5. CASE worker'[w] = worker[w]
        BY <3>5, <2>1
      <3>6. CASE at[p].raw.status # "absent" /\ worker'[w] = at[p].raw
        BY <3>1, <3>2, <3>4, <3>6 DEF Behind, MayRun
      <3> QED BY <3>3, <3>5, <3>6
    <2> QED BY <1>0, <2>1, <2>2, <2>3, <2>4, <2>5, <2>6, WorkerMoves DEF Moves
  <1>2. ASSUME NEW p \in Runner, Records(p)', at'[p].w = w,
               at'[p].raw.status = "running"
        PROVE  NotAfter(u, a, at'[p].raw)
    <2>1. /\ at[p].w = w /\ at'[p].raw = at[p].raw
          /\ Records(p) \/ (Settle(p) /\ MaySettle(p))
      BY <1>0, <1>2, RecordsComes
    <2>2. CASE Records(p)
      BY <1>2, <2>1, <2>2 DEF Behind
    <2>3. CASE Settle(p) /\ MaySettle(p)
      <3>1. worker[w].status = "running"
        BY <2>1, <2>3 DEF MaySettle
      <3>2. at[p].pc = "settle"
        BY <2>3 DEF Settle, At
      <3>3. /\ worker[w].attempt = at[p].attempt
            /\ worker[w].until = at[p].held.until
            /\ SameLease(p)
        BY <1>2, <2>1, <2>3, <3>2, SettlesCurrent DEF MayRun
      <3>4. NotAfter(u, a, worker[w])
        BY <3>1 DEF Behind
      <3>5. NotAfter(u, a, at[p].raw)
        BY <3>3, <3>4 DEF NotAfter, SameLease
      <3> QED BY <2>1, <3>5
    <2> QED BY <2>1, <2>2, <2>3
  <1> QED BY <1>1, <1>2 DEF Behind, NotAfter, Records

(* How a runner comes to hold a lease, and to be about to settle.          *)
Keeps(p) ==
    /\ at'[p].w = at[p].w /\ at'[p].attempt = at[p].attempt
    /\ at'[p].held = at[p].held

Learns(p) ==
    /\ at'[p].w = at[p].w /\ at'[p].attempt = at[p].attempt
    /\ at'[p].held = worker[at[p].w]
    /\ worker[at[p].w].status = "running"
    /\ worker[at[p].w].attempt = at[p].attempt

LEMMA HoldsComes ==
  ASSUME KernelInv, [Next]_vars, NEW p \in Runner, Holds(p)'
  PROVE  \/ Holds(p) /\ Keeps(p) /\ (at'[p].pc = "settle" => at'[p] = at[p] \/ ReadRaw(p))
         \/ Learns(p) /\ at'[p].pc \in {"run", "raw"}
  <1> p \in Process
    BY DEF Process
  <1>0. at[p] \in Locals
    BY DEF KernelInv, TypeOK
  <1>1. CASE at'[p] = at[p]
    BY <1>1 DEF Holds, Keeps
  <1>2. CASE Records(p)'
    <2>1. Keeps(p) /\ (Records(p) \/ Settle(p))
      BY <1>2, RecordsComes DEF Keeps
    <2>2. Holds(p) /\ at'[p].pc # "settle"
      BY <1>2, <2>1 DEF Settle, At, Holds, Records, Recording
    <2> QED BY <2>1, <2>2
  <1>3. CASE at'[p] # at[p] /\ ~Records(p)'
    <2>0. at'[p].pc \in {"run", "raw", "settle"}
      BY <1>3 DEF Holds, Records
    <2>1. Stop(p) => at'[p].pc = "idle"
      BY StopIs
    <2>2. Thrown(p) => at'[p].pc \in {"idle", "fail guard"}
      <3>1. ASSUME Become(p, [at[p] EXCEPT !.pc = "fail guard", !.kind = "give up", !.retry = FALSE])
            PROVE  at'[p].pc = "fail guard"
        <4>1. at'[p] = [at[p] EXCEPT !.pc = "fail guard", !.kind = "give up", !.retry = FALSE]
          BY <3>1, BecomeIs
        <4> QED BY <1>0, <4>1 DEF Locals
      <3> QED BY <2>1, <3>1 DEF Thrown
    <2>3. ASSUME NEW pc, Goto(p, pc), pc \notin {"run", "raw", "settle"} PROVE FALSE
      BY <2>0, <2>3, GotoIs
    <2>4. ~Crash(p) /\ \A j \in JobId : ~ExpireJob(p, j)
      BY <1>3, <2>0, <2>1 DEF Crash, ExpireJob
    <2>5. ~StartDrain(p)
      <3>1. StartDrain(p) => at'[p] = [Idle EXCEPT !.pc = "expire", !.now = clock]
        BY BecomeIs DEF StartDrain
      <3>2. StartDrain(p) => at'[p].pc = "expire"
        BY <3>1 DEF Idle
      <3> QED BY <2>0, <3>2
    <2>6. ~JobsExpired(p) /\ ~SettleSession(p) /\ ~UndoWorker(p)
      BY <2>3 DEF JobsExpired, SettleSession, UndoWorker
    <2>7. ~HandBack(p) /\ ~UndoSession(p) /\ ~EndLoop(p)
      BY <2>0, <2>1, <2>2 DEF HandBack, UndoSession, EndLoop
    <2>8. ~Settle(p) /\ ~SettleJob(p)
      BY <2>0, <2>1, <2>2, <2>3 DEF Settle, SettleJob, Recorded, AfterResult
    <2>9. ~ClaimJob(p)
      <3>1. ASSUME NEW l, Become(p, [at[p] EXCEPT !.pc = "load", !.w = l[1],
                                     !.attempt = l[2], !.until = at[p].now + JobLease])
            PROVE  at'[p].pc = "load"
        <4>1. at'[p] = [at[p] EXCEPT !.pc = "load", !.w = l[1],
                                     !.attempt = l[2], !.until = at[p].now + JobLease]
          BY <3>1, BecomeIs
        <4> QED BY <1>0, <4>1 DEF Locals
      <3> QED BY <2>0, <2>1, <3>1 DEF ClaimJob
    <2>10. \/ LoadWorker(p) \/ FailGuard(p) \/ Heartbeat(p)
           \/ ReturnResult(p) \/ ReadRaw(p)
      BY <1>3, RunnerMoves, <2>4, <2>5, <2>6, <2>7, <2>8, <2>9 DEF RunnerStep, ResultStep
    <2>11. CASE LoadWorker(p) \/ FailGuard(p)
      <3>1. PICK pc \in {"run", "raw"} :
               /\ Become(p, [at[p] EXCEPT !.pc = pc, !.held = worker[at[p].w]])
               /\ worker[at[p].w].status = "running"
               /\ worker[at[p].w].attempt = at[p].attempt
        BY <2>0, <2>1, <2>2, <2>11 DEF LoadWorker, FailGuard, HoldsJob, RunsAttempt
      <3>2. at'[p] = [at[p] EXCEPT !.pc = pc, !.held = worker[at[p].w]]
        BY <3>1, BecomeIs
      <3>3. /\ at'[p].pc = pc /\ at'[p].held = worker[at[p].w]
            /\ at'[p].w = at[p].w /\ at'[p].attempt = at[p].attempt
        BY <1>0, <3>2 DEF Locals
      <3> QED BY <3>1, <3>3 DEF Learns
    <2>12. CASE Heartbeat(p)
      <3>1. PICK u : Become(p, [at[p] EXCEPT !.until = u])
        BY <2>12 DEF Heartbeat
      <3>2. at'[p] = [at[p] EXCEPT !.until = u]
        BY <3>1, BecomeIs
      <3>3. at'[p].pc = at[p].pc /\ Keeps(p)
        BY <1>0, <3>2 DEF Locals, Keeps
      <3>4. at[p].pc = "run"
        BY <2>12 DEF Heartbeat, At
      <3> QED BY <3>3, <3>4 DEF Holds
    <2>13. CASE ReturnResult(p)
      <3>1. PICK t, kind, may :
               \/ Become(p, [at[p] EXCEPT !.pc = "raw", !.now = t, !.kind = kind])
               \/ Become(p, [at[p] EXCEPT !.pc = "raw", !.now = t, !.kind = kind,
                                         !.retry = may])
               \/ Become(p, [at[p] EXCEPT !.pc = "fail guard", !.now = t,
                                         !.kind = kind])
        BY <2>13 DEF ReturnResult
      <3>2. \/ at'[p] = [at[p] EXCEPT !.pc = "raw", !.now = t, !.kind = kind]
            \/ at'[p] = [at[p] EXCEPT !.pc = "raw", !.now = t, !.kind = kind,
                                      !.retry = may]
            \/ at'[p] = [at[p] EXCEPT !.pc = "fail guard", !.now = t, !.kind = kind]
        BY <3>1, BecomeIs
      <3>3. at'[p].pc \in {"raw", "fail guard"} /\ Keeps(p)
        BY <1>0, <3>2 DEF Locals, Keeps
      <3>4. at[p].pc = "run"
        BY <2>13 DEF ReturnResult, At
      <3> QED BY <3>3, <3>4 DEF Holds
    <2>14. CASE ReadRaw(p)
      <3>1. at'[p] = [at[p] EXCEPT !.pc = "settle", !.raw = worker[at[p].w],
                                    !.sess = session[at[p].w]]
        BY <2>14, BecomeIs DEF ReadRaw
      <3>2. Keeps(p)
        BY <1>0, <3>1 DEF Locals, Keeps
      <3>3. at[p].pc = "raw"
        BY <2>14 DEF ReadRaw, At
      <3> QED BY <2>14, <3>2, <3>3 DEF Holds
    <2> QED BY <2>10, <2>11, <2>12, <2>13, <2>14
  <1> QED BY <1>1, <1>2, <1>3

(* The lease of a running worker is behind no other lease of it.           *)
LEMMA RunningBehind ==
  ASSUME SettledInv, NEW w \in Worker, worker[w].status = "running"
  PROVE  Behind(w, worker[w].until, worker[w].attempt)
  <1>1. \A p \in Runner : Records(p) => at[p].w # w
    BY DEF SettledInv, Alone, Over, MayRun
  <1> QED BY <1>1 DEF Behind, NotAfter

LEMMA LeaseKnownStep ==
  ASSUME LeasedInv, RunnersReport, [Next]_vars, NEW p \in Runner
  PROVE  LeaseKnown(p)'
  <1> SUFFICES ASSUME Holds(p)'
               PROVE  /\ at'[p].held.attempt = at'[p].attempt
                      /\ Behind(at[p].w, at[p].held.until, at[p].attempt)'
    BY DEF LeaseKnown
  <1>0. /\ SettledInv /\ KernelInv /\ at[p].w \in Worker
        /\ at[p].held \in WorkerRow /\ worker[at[p].w] \in WorkerRow
        /\ at[p].attempt \in Nat
    BY Remembered DEF LeasedInv, SettledInv, LiveInv, Process
  <1>1. PICK w, u, a : w = at'[p].w /\ u = at'[p].held.until /\ a = at'[p].attempt
    OBVIOUS
  <1>2. /\ w \in Worker /\ u \in Nat /\ a \in Nat
        /\ at'[p].held.attempt = a
        /\ Behind(w, u, a)
    <2>1. CASE Holds(p) /\ Keeps(p)
      <3>1. LeaseKnown(p)
        BY DEF LeasedInv
      <3>2. /\ w = at[p].w /\ u = at[p].held.until /\ a = at[p].attempt
            /\ at'[p].held = at[p].held
        BY <1>1, <2>1 DEF Keeps
      <3> QED BY <1>0, <2>1, <3>1, <3>2 DEF LeaseKnown, WorkerRow
    <2>2. CASE Learns(p)
      <3>1. Behind(at[p].w, worker[at[p].w].until, worker[at[p].w].attempt)
        BY <1>0, <2>2, RunningBehind DEF Learns
      <3>2. /\ w = at[p].w /\ u = worker[at[p].w].until /\ a = worker[at[p].w].attempt
            /\ at'[p].held.attempt = a /\ a = at[p].attempt
        BY <1>1, <2>2 DEF Learns
      <3> QED BY <1>0, <3>1, <3>2 DEF WorkerRow
    <2> QED BY <1>0, <2>1, <2>2, HoldsComes
  <1>3. Behind(w, u, a)'
    BY <1>2, BehindStays
  <1> QED BY <1>1, <1>2, <1>3 DEF Behind

LEMMA RowKnownStep ==
  ASSUME LeasedInv, RunnersReport, [Next]_vars, NEW p \in Runner
  PROVE  RowKnown(p)'
  <1>0. /\ SettledInv /\ KernelInv /\ at[p] \in Locals /\ at[p].w \in Worker
        /\ at[p].held \in WorkerRow /\ worker[at[p].w] \in WorkerRow
        /\ NoAttempt \in Nat /\ p \in Process
    BY Remembered DEF LeasedInv, SettledInv, LiveInv, Process, NoAttempt
  <1>k. LeaseKnown(p) /\ RowKnown(p)
    BY DEF LeasedInv
  <1>1. ASSUME at'[p].pc = "settle"
        PROVE  \/ at'[p].raw.status \notin MayRun
               \/ SameLease(p)'
               \/ Behind(at[p].w, at[p].held.until, NoAttempt)'
    <2>1. Holds(p) /\ Keeps(p) /\ (at'[p] = at[p] \/ ReadRaw(p))
      BY <1>0, <1>1, HoldsComes DEF Holds
    <2>2. PICK w, u : w = at'[p].w /\ u = at'[p].held.until
      OBVIOUS
    <2>3. /\ w = at[p].w /\ u = at[p].held.until /\ w \in Worker /\ u \in Nat
      BY <1>0, <2>1, <2>2 DEF Keeps, WorkerRow
    <2>4. Behind(w, u, at[p].attempt)
      BY <1>k, <2>1, <2>3 DEF LeaseKnown
    <2>5. \/ at'[p].raw.status \notin MayRun
          \/ SameLease(p)'
          \/ Behind(w, u, NoAttempt)
      <3>1. CASE at'[p] = at[p]
        BY <1>1, <1>k, <2>3, <3>1 DEF RowKnown, SameLease
      <3>2. CASE ReadRaw(p)
        <4>1. at'[p] = [at[p] EXCEPT !.pc = "settle", !.raw = worker[at[p].w],
                                      !.sess = session[at[p].w]]
          BY <1>0, <3>2, BecomeIs DEF ReadRaw
        <4>2. at'[p].raw = worker[w] /\ at'[p].held = at[p].held /\ at'[p].attempt = at[p].attempt
          BY <1>0, <2>3, <4>1 DEF Locals
        <4>3. CASE worker[w].status \notin MayRun
          BY <4>2, <4>3
        <4>4. CASE worker[w].status = "running"
          <5>1. NotAfter(u, at[p].attempt, worker[w])
            BY <2>4, <4>4 DEF Behind
          <5>2. CASE u = worker[w].until /\ at[p].attempt = worker[w].attempt
            BY <2>3, <4>2, <4>4, <5>2 DEF SameLease
          <5>3. CASE u < worker[w].until
            <6>1. \A q \in Runner : Records(q) => at[q].w # w
              BY <1>0, <4>4 DEF SettledInv, Alone, Over, MayRun
            <6>2. Behind(w, u, NoAttempt)
              BY <4>4, <5>3, <6>1 DEF Behind, NotAfter
            <6> QED BY <6>2
          <5> QED BY <5>1, <5>2, <5>3 DEF NotAfter
        <4>5. CASE worker[w].status = "retry_scheduled"
          <5>1. \A q \in Runner : Records(q) => at[q].w # w
            BY <1>0, <4>5 DEF SettledInv, Alone, Over, MayRun
          <5>2. Behind(w, u, NoAttempt)
            BY <2>4, <4>5, <5>1 DEF Behind
          <5> QED BY <5>2
        <4>6. worker[w].status # "queued"
          BY <2>4 DEF Behind
        <4> QED BY <4>3, <4>4, <4>5, <4>6 DEF MayRun
      <3> QED BY <2>1, <3>1, <3>2
    <2>6. Behind(w, u, NoAttempt) => Behind(w, u, NoAttempt)'
      BY <1>0, <2>3, BehindStays
    <2> QED BY <2>2, <2>5, <2>6 DEF Behind
  <1>2. ASSUME Records(p)'
        PROVE  at'[p].raw.status \notin MayRun \/ SameLease(p)'
    <2>1. /\ at'[p].w = at[p].w /\ at'[p].raw = at[p].raw
          /\ at'[p].held = at[p].held /\ at'[p].attempt = at[p].attempt
          /\ Records(p) \/ (Settle(p) /\ MaySettle(p))
      BY <1>0, <1>2, RecordsComes
    <2>2. at[p].raw.status \notin MayRun \/ SameLease(p)
      <3>1. CASE Records(p)
        BY <1>k, <3>1 DEF RowKnown
      <3>2. CASE Settle(p) /\ MaySettle(p)
        BY <3>2, SettlesCurrent DEF Settle, At
      <3> QED BY <2>1, <3>1, <3>2
    <2> QED BY <2>1, <2>2 DEF SameLease
  <1> QED BY <1>1, <1>2 DEF RowKnown

LEMMA LeasedInit == Init => LeasedInv
  <1> SUFFICES ASSUME Init PROVE LeasedInv
    OBVIOUS
  <1>1. \A p \in Runner : at[p].pc = "idle"
    BY DEF Init, Idle, Process
  <1> QED BY <1>1, SettledInit DEF LeasedInv, LeaseKnown, RowKnown, Holds,
             Records, Recording

(* A result computed for one attempt never settles another attempt, for    *)
(* any number of workers, attempts and runners, under the same conditions. *)
(* The UPDATE compares the lease of the worker, not its attempt: two       *)
(* attempts never have the same lease, because the next one is claimed     *)
(* after the delay that follows the end of the lease, or of the restored   *)
(* one (workflowV2WorkerResultSubmit, workflowV2ExpireWorkerLeases).       *)
THEOREM ResultsFollowAttemptsHolds ==
  RunnersReport => (Spec => ResultsFollowAttempts)
  <1> SUFFICES ASSUME RunnersReport PROVE Spec => ResultsFollowAttempts
    OBVIOUS
  <1>1. LeasedInv /\ [Next]_vars => LeasedInv'
    BY SettledStep, LeaseKnownStep, RowKnownStep DEF LeasedInv
  <1>2. ASSUME LeasedInv, [Next]_vars
        PROVE  [\A p \in Runner \cup Reporter :
                  At(p, "settle") /\ at'[p].pc = "settle session"
                  => worker[at[p].w].attempt = at[p].attempt]_vars
    <2> SUFFICES ASSUME NEW p \in Runner, At(p, "settle"), at'[p].pc = "settle session"
                 PROVE  worker[at[p].w].attempt = at[p].attempt
      BY DEF RunnersReport
    <2>1. Records(p)' /\ ~Records(p) /\ at[p].pc = "settle"
      BY DEF At, Records, Recording
    <2>2. MaySettle(p)
      BY <1>2, <2>1, RecordsComes DEF LeasedInv, SettledInv, LiveInv
    <2> QED BY <1>2, <2>1, <2>2, SettlesCurrent
  <1> QED BY <1>1, <1>2, LeasedInit, PTL DEF Spec, ResultsFollowAttempts

=============================================================================
