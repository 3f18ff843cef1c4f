--------------------------- MODULE DispatchBridge ---------------------------
(***************************************************************************)
(* Dispatches to agent runtimes: table mixed_meeting_dispatches and the    *)
(* terminal rows of runtime_runs.                                          *)
(*                                                                         *)
(* A drain (runtimeBridgeDrain) selects due dispatches, claims one, runs   *)
(* the agent and records how it ended.  A drain that dies leaves its       *)
(* dispatch "sent"; staleDispatchReconcile finds it when it is old enough  *)
(* and settles or requeues it.  Only the claim is conditional: every other *)
(* write (updateDispatch) names the dispatch alone, whatever its status.   *)
(*                                                                         *)
(* As in JobQueue, every sqlite() call is one atomic step.  updateDispatch *)
(* is one too: what it reads first is the payload it merges.               *)
(*                                                                         *)
(* Abstracted: the adapters, which differ in how they call the agent (a    *)
(* runtime that has none fails as a call that throws does); the message    *)
(* flow, the events and the ingested text; a started run, which nobody     *)
(* reads; updated_at, which is sent_at while a dispatch is "sent".         *)
(* Bound: a drain and a reconciliation handle one dispatch; with more, the *)
(* later ones wait between the SELECT and the next step, as they may here. *)
(***************************************************************************)
EXTENDS Integers, FiniteSets

CONSTANTS
    Dispatch,
    Drain,            \* processes that run runtime.bridge.drain
    Reconciler,       \* processes that run workflow.dispatch.reconcile
    Stoppable,        \* dispatches of a workflow a Human Gate button may end
    MaxAttempts,      \* max_attempts
    RunLimit,         \* longest time from a stamp "sent" to the run's end
    StaleAfter,       \* staleAfterMs
    Delay,            \* nextRetryAt
    MaxTime,          \* bound: last instant of the clock
    MaxFaults,        \* bound: calls that throw
    MaxCrashes,       \* bound: processes that die
    MaxRegistry,      \* bound: changes of an agent's registration
    MaxMishaps        \* bound: all three together

Process == Drain \cup Reconciler

ASSUME BridgeAssumption ==
    /\ Dispatch # {}
    /\ Stoppable \subseteq Dispatch
    /\ Drain \cap Reconciler = {}
    /\ MaxAttempts \in Nat \ {0}
    /\ RunLimit \in Nat
    /\ StaleAfter \in Nat
    /\ Delay \in Nat
    /\ MaxTime \in Nat
    /\ MaxFaults \in Nat
    /\ MaxCrashes \in Nat
    /\ MaxRegistry \in Nat
    /\ MaxMishaps \in Nat

VARIABLES
    clock,
    dispatch,   \* mixed_meeting_dispatches
    receipts,   \* the terminal rows of runtime_runs
    valid,      \* whether the registry and the prompt admit the dispatch
    at,         \* where each process is in its handler, and its variables
    begun,      \* how often the agent was run; for the properties only
    faults,
    crashes,
    registry

bounds == <<faults, crashes, registry>>
vars == <<clock, dispatch, receipts, valid, at, begun, bounds>>

-----------------------------------------------------------------------------
Status == {"absent", "queued", "sent", "acked", "failed", "cancelled"}
Outcome == {"acked", "failed", "retry_scheduled"}

DispatchRow == [status : Status, attempt : Nat, next : Nat, sent : Nat]

NoDispatch == [status |-> "absent", attempt |-> 0, next |-> 0, sent |-> 0]

Receipt == [status : Outcome, attempt : Nat, completed : Nat]

(* Where a drain is, and where a reconciliation is.                        *)
DrainPc == {"idle", "claim", "reject", "start", "run", "ack", "ack receipt",
            "ack flow", "fail", "fail receipt", "bridge error"}
ReconcilerPc == {"idle", "sync", "requeue", "stale receipt"}

(* since is when the process last stamped the dispatch "sent", done when   *)
(* the run ended, retry whether a failure may be retried, seen the receipt *)
(* found.                                                                  *)
Locals == [pc : DrainPc \cup ReconcilerPc, d : Dispatch, attempt : Nat,
           since : Nat, done : Nat, retry : BOOLEAN, seen : Receipt]

Idle == [pc |-> "idle", d |-> CHOOSE d \in Dispatch : TRUE, attempt |-> 0,
         since |-> 0, done |-> 0, retry |-> FALSE,
         seen |-> [status |-> "failed", attempt |-> 0, completed |-> 0]]

TypeOK ==
    /\ clock \in Nat
    /\ dispatch \in [Dispatch -> DispatchRow]
    /\ receipts \in [Dispatch -> SUBSET Receipt]
    /\ valid \in [Dispatch -> BOOLEAN]
    /\ at \in [Process -> Locals]
    /\ begun \in [Dispatch -> Nat]
    /\ faults \in Nat /\ crashes \in Nat /\ registry \in Nat

Init ==
    /\ clock = 1
    /\ dispatch = [d \in Dispatch |-> NoDispatch]
    /\ receipts = [d \in Dispatch |-> {}]
    /\ valid \in [Dispatch -> BOOLEAN]
    /\ at = [p \in Process |-> Idle]
    /\ begun = [d \in Dispatch |-> 0]
    /\ faults = 0 /\ crashes = 0 /\ registry = 0

MayHappen == faults + crashes + registry < MaxMishaps

At(p, label) == at[p].pc = label

Become(p, locals) == at' = [at EXCEPT ![p] = locals]

Goto(p, label) == Become(p, [at[p] EXCEPT !.pc = label])

Stop(p) == Become(p, Idle)

-----------------------------------------------------------------------------
(* What updateDispatch writes.                                             *)

Sent(r, attempt) ==
    [r EXCEPT !.status = "sent", !.attempt = attempt, !.next = 0, !.sent = clock]

Acked(r, attempt) ==
    [r EXCEPT !.status = "acked", !.attempt = attempt, !.next = 0, !.sent = 0]

Failed(r, attempt) ==
    [r EXCEPT !.status = "failed", !.attempt = attempt, !.next = 0, !.sent = 0]

Requeued(r, attempt) ==
    [r EXCEPT !.status = "queued", !.attempt = attempt, !.next = clock + Delay,
              !.sent = 0]

(* Faulty variant for RunsWithinBudget: off by one.                        *)
MayRetryOnceMore(attempt) == attempt <= MaxAttempts

MayRetry(attempt) == attempt < MaxAttempts

RequeuedOrFailed(r, attempt, retry) ==
    IF retry /\ MayRetry(attempt) THEN Requeued(r, attempt) ELSE Failed(r, attempt)

Write(d, row) == dispatch' = [dispatch EXCEPT ![d] = row]

(* Of the receipts only the latest are kept: no reader looks at others.    *)
AddReceipt(d, status, attempt, completed) ==
    LET new == [status |-> status, attempt |-> attempt, completed |-> completed]
        all == receipts[d] \cup {new} IN
    receipts' = [receipts EXCEPT ![d] =
                    {r \in all : \A s \in all : s.completed <= r.completed}]

(* Faulty variant for TypeOK: the status of the dispatch, not of the run.  *)
DispatchStatus(attempt, retry) ==
    IF retry /\ MayRetry(attempt) THEN "queued" ELSE "failed"

FailureStatus(attempt, retry) ==
    IF retry /\ MayRetry(attempt) THEN "retry_scheduled" ELSE "failed"

-----------------------------------------------------------------------------
(* dispatchPackageCreate: the INSERT; an idempotency key makes one row.    *)
Create(d) ==
    /\ dispatch[d].status = "absent"
    /\ Write(d, [NoDispatch EXCEPT !.status = "queued"])
    /\ UNCHANGED <<clock, receipts, valid, at, begun, bounds>>

(* The statement of the terminate button: queued dispatches only.          *)
CancelDispatches ==
    /\ \E d \in Stoppable : dispatch[d].status = "queued"
    /\ dispatch' = [d \in Dispatch |->
            IF d \in Stoppable /\ dispatch[d].status = "queued"
            THEN [dispatch[d] EXCEPT !.status = "cancelled"]
            ELSE dispatch[d]]
    /\ UNCHANGED <<clock, receipts, valid, at, begun, bounds>>

Register(d) ==          \* runtime_agents changes
    /\ registry < MaxRegistry /\ MayHappen
    /\ registry' = registry + 1
    /\ valid' = [valid EXCEPT ![d] = ~valid[d]]
    /\ UNCHANGED <<clock, dispatch, receipts, at, begun, faults, crashes>>

-----------------------------------------------------------------------------
(* runtimeBridgeDrain up to the claim.                                     *)

Due(d) == dispatch[d].status = "queued" /\ dispatch[d].next <= clock

SelectDispatch(p, d) ==
    /\ At(p, "idle")
    /\ Due(d)
    /\ Become(p, [Idle EXCEPT !.pc = IF valid[d] THEN "claim" ELSE "reject",
                              !.d = d, !.attempt = dispatch[d].attempt])
    /\ UNCHANGED <<clock, dispatch, receipts, valid, begun, bounds>>

(* failRuntimeBridgeRegistryDispatch, failRuntimeBridgeInvalidDispatch:    *)
(* without a claim.                                                        *)
Reject(p) ==
    /\ At(p, "reject")
    /\ LET d == at[p].d IN Write(d, Failed(dispatch[d], dispatch[d].attempt))
    /\ Become(p, [at[p] EXCEPT !.pc = "fail receipt", !.done = clock])
    /\ UNCHANGED <<clock, receipts, valid, begun, bounds>>

(* claimQueuedDispatch                                                     *)
(* Faulty variant for OneLiveRun and CancelledNotRun: no status.           *)
MayClaimSameAttempt(p) == dispatch[at[p].d].attempt = at[p].attempt

MayClaim(p) ==
    /\ dispatch[at[p].d].status = "queued"
    /\ dispatch[at[p].d].attempt = at[p].attempt

Claim(p) ==
    /\ At(p, "claim")
    /\ IF MayClaim(p)
       THEN /\ LET d == at[p].d IN Write(d, Sent(dispatch[d], at[p].attempt))
            /\ Become(p, [at[p] EXCEPT !.pc = "start", !.since = clock])
       ELSE Stop(p) /\ UNCHANGED dispatch
    /\ UNCHANGED <<clock, receipts, valid, begun, bounds>>

-----------------------------------------------------------------------------
(* The adapters: runHermesDispatch, runHermesAcpDispatch and               *)
(* runOpenClawDispatch.  A backend that is not there fails the claim.      *)
Unavailable(p) ==
    /\ At(p, "start")
    /\ Become(p, [at[p] EXCEPT !.pc = "fail", !.attempt = @ + 1,
                               !.retry = TRUE, !.done = clock])
    /\ UNCHANGED <<clock, dispatch, receipts, valid, begun, bounds>>

Start(p) ==             \* then the agent runs
    /\ At(p, "start")
    /\ LET d == at[p].d IN Write(d, Sent(dispatch[d], at[p].attempt + 1))
    /\ Become(p, [at[p] EXCEPT !.pc = "run", !.attempt = @ + 1, !.since = clock])
    /\ begun' = [begun EXCEPT ![at[p].d] = @ + 1]
    /\ UNCHANGED <<clock, receipts, valid, bounds>>

RunEnds(p) ==           \* text is ingested; or a failure, some retryable
    /\ At(p, "run")
    /\ \/ Become(p, [at[p] EXCEPT !.pc = "ack", !.done = clock])
       \/ \E retry \in BOOLEAN :
            Become(p, [at[p] EXCEPT !.pc = "fail", !.done = clock,
                                    !.retry = retry])
    /\ UNCHANGED <<clock, dispatch, receipts, valid, begun, bounds>>

Ack(p) ==
    /\ At(p, "ack")
    /\ LET d == at[p].d IN Write(d, Acked(dispatch[d], at[p].attempt))
    /\ Goto(p, "ack receipt")
    /\ UNCHANGED <<clock, receipts, valid, begun, bounds>>

AckReceipt(p) ==
    /\ At(p, "ack receipt")
    /\ AddReceipt(at[p].d, "acked", at[p].attempt, at[p].done)
    /\ Goto(p, "ack flow")
    /\ UNCHANGED <<clock, dispatch, valid, begun, bounds>>

Fail(p) ==
    /\ At(p, "fail")
    /\ LET d == at[p].d IN
       Write(d, RequeuedOrFailed(dispatch[d], at[p].attempt, at[p].retry))
    /\ Goto(p, "fail receipt")
    /\ UNCHANGED <<clock, receipts, valid, begun, bounds>>

FailReceipt(p) ==
    /\ At(p, "fail receipt")
    /\ AddReceipt(at[p].d, FailureStatus(at[p].attempt, at[p].retry),
                  at[p].attempt, at[p].done)
    /\ Stop(p)
    /\ UNCHANGED <<clock, dispatch, valid, begun, bounds>>

FinishDrain(p) ==       \* message flow and events of an acknowledgement
    /\ At(p, "ack flow")
    /\ Stop(p)
    /\ UNCHANGED <<clock, dispatch, receipts, valid, begun, bounds>>

(* A call throws.  The adapter's catch clause covers all that follows the  *)
(* agent's run, the acknowledgement included, and treats it as a failed    *)
(* run.  The clause of the drain covers what the adapter does before the   *)
(* run and in its own catch clause, where the receipt may be written yet.  *)
(* A rejection has neither.                                                *)
Throws(p) ==
    /\ faults < MaxFaults /\ MayHappen
    /\ faults' = faults + 1
    /\ \/ /\ at[p].pc \in {"ack", "ack receipt", "ack flow"}
          /\ \E retry \in BOOLEAN :
               Become(p, [at[p] EXCEPT !.pc = "fail", !.done = clock,
                                       !.retry = retry])
          /\ UNCHANGED receipts
       \/ /\ at[p].pc \in {"start", "run", "fail", "fail receipt"}
          /\ at[p].since > 0
          /\ Goto(p, "bridge error")
          /\ \/ UNCHANGED receipts
             \/ /\ At(p, "fail receipt")
                /\ AddReceipt(at[p].d, FailureStatus(at[p].attempt, at[p].retry),
                              at[p].attempt, at[p].done)
    /\ UNCHANGED <<clock, dispatch, valid, begun, crashes, registry>>

BridgeError(p) ==
    /\ At(p, "bridge error")
    /\ LET d == at[p].d IN Write(d, Failed(dispatch[d], dispatch[d].attempt))
    /\ Stop(p)
    /\ UNCHANGED <<clock, receipts, valid, begun, bounds>>

DrainStep(p) ==
    \/ \E d \in Dispatch : SelectDispatch(p, d)
    \/ Reject(p) \/ Claim(p) \/ Unavailable(p) \/ Start(p) \/ RunEnds(p)
    \/ Ack(p) \/ AckReceipt(p) \/ Fail(p) \/ FailReceipt(p)
    \/ FinishDrain(p) \/ BridgeError(p)

-----------------------------------------------------------------------------
(* staleDispatchReconcile                                                  *)

(* Faulty variant for AckOutlivesOldHolders: of any age.                   *)
IsSent(d) == dispatch[d].status = "sent"

(* Faulty variant for DispatchesSettle: nobody looks.                      *)
NeverStale(d) == FALSE

IsStale(d) == dispatch[d].status = "sent" /\ dispatch[d].sent + StaleAfter < clock

(* terminal_runtime_run_id: the latest receipt since the dispatch was sent *)
TerminalReceipts(d) ==
    LET since == {r \in receipts[d] : r.completed >= dispatch[d].sent} IN
    {r \in since : \A s \in since : s.completed <= r.completed}

Scan(q, d) ==
    /\ At(q, "idle")
    /\ IsStale(d)
    /\ \/ \E r \in TerminalReceipts(d) :
            Become(q, [Idle EXCEPT !.pc = "sync", !.d = d, !.seen = r,
                                   !.attempt = dispatch[d].attempt])
       \/ /\ TerminalReceipts(d) = {}
          /\ Become(q, [Idle EXCEPT !.pc = "requeue", !.d = d,
                                    !.attempt = dispatch[d].attempt + 1])
    /\ UNCHANGED <<clock, dispatch, receipts, valid, begun, bounds>>

Later(a, b) == IF a < b THEN b ELSE a

Sync(q) ==
    /\ At(q, "sync")
    /\ LET d == at[q].d
           r == at[q].seen IN
       IF r.status = "acked"
       THEN Write(d, Acked(dispatch[d], dispatch[d].attempt))
       ELSE Write(d, RequeuedOrFailed(dispatch[d],
                                      Later(at[q].attempt + 1, r.attempt),
                                      r.status = "retry_scheduled"))
    /\ Stop(q)
    /\ UNCHANGED <<clock, receipts, valid, begun, bounds>>

Requeue(q) ==
    /\ At(q, "requeue")
    /\ LET d == at[q].d IN
       Write(d, RequeuedOrFailed(dispatch[d], at[q].attempt, TRUE))
    /\ Become(q, [at[q] EXCEPT !.pc = "stale receipt", !.done = clock])
    /\ UNCHANGED <<clock, receipts, valid, begun, bounds>>

StaleReceipt(q) ==
    /\ At(q, "stale receipt")
    /\ AddReceipt(at[q].d, FailureStatus(at[q].attempt, TRUE), at[q].attempt,
                  at[q].done)
    /\ Stop(q)
    /\ UNCHANGED <<clock, dispatch, valid, begun, bounds>>

ReconcileStep(q) ==
    \/ \E d \in Dispatch : Scan(q, d)
    \/ Sync(q) \/ Requeue(q) \/ StaleReceipt(q)

-----------------------------------------------------------------------------
Crash(p) ==
    /\ ~At(p, "idle")
    /\ crashes < MaxCrashes /\ MayHappen
    /\ crashes' = crashes + 1
    /\ Stop(p)
    /\ UNCHANGED <<clock, dispatch, receipts, valid, begun, faults, registry>>

(* A drain that has claimed its dispatch and not yet recorded the end.  At *)
(* "bridge error" there is no run any more, and it may come late.          *)
Runs(p, d) ==
    /\ at[p].d = d
    /\ at[p].pc \in {"start", "run", "ack", "ack receipt", "ack flow", "fail"}

(* The agent's process is killed at its timeout, and the statements around *)
(* it take little time.                                                    *)
WithinLimit ==
    \A p \in Drain, d \in Dispatch : Runs(p, d) => clock < at[p].since + RunLimit

TimePasses ==
    /\ clock < MaxTime
    /\ WithinLimit
    /\ clock' = clock + 1
    /\ UNCHANGED <<dispatch, receipts, valid, at, begun, bounds>>

(* Time as the progress run needs it: it passes when no dispatch is due or *)
(* stale and one is only waiting to become so, and then it does pass.      *)
(* Statements take no time here; backends and agents do.                   *)
QuietTime ==
    /\ \A p \in Process : at[p].pc \in {"idle", "start", "run"}
    /\ \A d \in Dispatch : ~Due(d) /\ ~IsStale(d)
    /\ \E d \in Dispatch : dispatch[d].status \in {"queued", "sent"}
    /\ TimePasses

HandlerStep ==
    \/ \E p \in Drain : DrainStep(p)
    \/ \E q \in Reconciler : ReconcileStep(q)

Environment ==
    \/ \E d \in Dispatch : Create(d) \/ Register(d)
    \/ CancelDispatches
    \/ \E p \in Drain : Throws(p)
    \/ \E p \in Process : Crash(p)

Next == HandlerStep \/ Environment \/ TimePasses

Spec == Init /\ [][Next]_vars

(* The control loop starts drains and reconciliations on its timer, agents *)
(* are killed at their timeout, and time goes on.                          *)
FairSpec ==
    /\ Init
    /\ [][HandlerStep \/ Environment \/ QuietTime]_vars
    /\ \A p \in Drain : WF_vars(DrainStep(p))
    /\ \A q \in Reconciler : WF_vars(ReconcileStep(q))
    /\ WF_vars(QuietTime)

-----------------------------------------------------------------------------
(* No two drains have the same dispatch claimed or its agent running: the  *)
(* attempt in the claim, the stale window and the retry delay together     *)
(* keep a drain from a dispatch that another has not let go of.            *)
OneLiveRun ==
    \A d \in Dispatch : \A p, q \in Drain : Runs(p, d) /\ Runs(q, d) => p = q

(* What the terminate button has cancelled is not run, though drains       *)
(* select it before and claim it after.                                    *)
CancelledNotRun ==
    \A d \in Dispatch :
        dispatch[d].status = "cancelled" => \A p \in Drain : ~Runs(p, d)

(* An agent is asked at most max_attempts times for one dispatch, counting *)
(* the attempts of drains that died and those a reconciliation added.      *)
RunsWithinBudget == \A d \in Dispatch : begun[d] <= MaxAttempts

(* acked is terminal (DISPATCH_PACKAGE_LIFECYCLE_MAPPING) but for three    *)
(* writes: a drain whose own call throws after it acknowledged treats that *)
(* as a failed run, one that throws in or before recording an older run    *)
(* fails the dispatch without looking, and so does one that selected it    *)
(* before its registration was put right.  No claim, no stale window and   *)
(* no run that ends late takes an acknowledgement back.                    *)
OwnFailure(p, d) == Fail(p) /\ at[p].attempt = dispatch[d].attempt

AckOutlivesOldHolders ==
    [][\A d \in Dispatch :
         dispatch[d].status = "acked" /\ dispatch'[d].status # "acked"
         => \E p \in Drain :
               /\ at[p].d = d
               /\ \/ OwnFailure(p, d)
                  \/ (BridgeError(p) \/ Reject(p)) /\ dispatch'[d].status = "failed"]_vars

(* A dispatch that is queued or sent is in the end acknowledged, failed or *)
(* cancelled, though drains die, throw or come back late.                  *)
DispatchesSettle ==
    \A d \in Dispatch :
        dispatch[d].status \in {"queued", "sent"}
            ~> dispatch[d].status \in {"acked", "failed", "cancelled"}
=============================================================================
