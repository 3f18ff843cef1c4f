------------------------------ MODULE MessageFlow ------------------------------
(***************************************************************************)
(* A message to an agent and the way of its answer: the dispatch and the   *)
(* flow are created, a drain runs the agent and moves the flow along, the  *)
(* answer or a notice of failure becomes a row of telegram_outbox, and     *)
(* reconciliation picks up what was dropped.  Flows that ask for an        *)
(* acknowledgement have a first turn that only acknowledges and a          *)
(* continuation that answers.                                              *)
(*                                                                         *)
(* Claims, retries and stale windows of dispatches are taken apart in      *)
(* DispatchBridge; here a claim with the start of the run is one step, and *)
(* so is a dispatch found stale and written.  The windows after which      *)
(* reconciliation looks at a flow may have any length.                     *)
(***************************************************************************)
EXTENDS TelegramOutbox

IsAck(f, k) == f \in AckFirst /\ k = "first"

Attempts(k) == IF k = "semantic" THEN 1 ELSE MaxAttempts

(* meetingDispatch, then createDispatchMessageFlow; messageFlowSend does   *)
(* the same with a flow of its own.                                        *)
CreateTurn(s, f) ==
    /\ At(s, "idle")
    /\ turn[f].first.status = "absent" /\ MayBegin
    /\ PutTurn(f, "first", "queued", 0)
    /\ Become(s, [Idle EXCEPT !.pc = "create flow", !.m = f])
    /\ UNCHANGED <<clock, flow, incident, outbox, posted, bounds>>

CreateFlow(s) ==
    /\ At(s, "create flow")
    /\ flow' = [flow EXCEPT ![at[s].m].status = "route_registered"]
    /\ Stop(s)
    /\ UNCHANGED <<clock, turn, incident, outbox, posted, bounds>>

-----------------------------------------------------------------------------
(* A drain and its adapter                                                 *)

ClaimTurn(d, f, k) ==
    /\ At(d, "idle")
    /\ turn[f][k].status = "queued"
    /\ PutTurn(f, k, "sent", turn[f][k].attempt + 1)
    /\ Become(d, [Idle EXCEPT !.pc = "start", !.m = f, !.kind = k, !.trying = TRUE,
                              !.attempt = turn[f][k].attempt + 1])
    /\ UNCHANGED <<clock, flow, incident, outbox, posted, bounds>>

StartFlow(d) ==
    /\ At(d, "start")
    /\ ReadFlow(d, "start", IF at[d].kind = "semantic" THEN "semantic_dispatched"
                            ELSE "runtime_dispatched")
    /\ UNCHANGED <<clock, tables, bounds>>

(* Whoever created the dispatch has created the flow long before.          *)
RunEnds(d) ==
    /\ At(d, "run")
    /\ \A s \in Sender : ~(At(s, "create flow") /\ at[s].m = at[d].m)
    /\ \E end \in {"ack", "fail"} : Goto(d, end)
    /\ UNCHANGED <<clock, tables, bounds>>

AckTurn(d) ==
    /\ At(d, "ack")
    /\ LET f == at[d].m
           k == at[d].kind IN
       /\ PutTurn(f, k, "acked", at[d].attempt)
       /\ Become(d, [at[d] EXCEPT !.pc = IF IsAck(f, k) THEN "acknowledge" ELSE "finish",
                                  !.ok = TRUE])
    /\ UNCHANGED <<clock, flow, incident, outbox, posted, bounds>>

(* Faulty variant for NoticeIsLast: the flow is failed although a retry is *)
(* scheduled.                                                              *)
FinishAnyway(p, retry) == Become(p, [at[p] EXCEPT !.pc = "finish", !.ok = FALSE,
                                                  !.trying = FALSE])

AfterFailure(p, retry) ==
    IF retry THEN Stop(p)
    ELSE Become(p, [at[p] EXCEPT !.pc = "finish", !.ok = FALSE, !.trying = FALSE])

FailTurn(d) ==
    /\ At(d, "fail")
    /\ \E retryable \in BOOLEAN :
        LET retry == retryable /\ at[d].attempt < Attempts(at[d].kind) IN
        /\ PutTurn(at[d].m, at[d].kind, IF retry THEN "queued" ELSE "failed",
                   at[d].attempt)
        /\ AfterFailure(d, retry)
    /\ UNCHANGED <<clock, flow, incident, outbox, posted, bounds>>

(* acknowledgeMessageFlowRuntime                                           *)
Acknowledge(d) ==
    /\ At(d, "acknowledge")
    /\ ReadFlow(d, "acknowledge", "runtime_acknowledged")
    /\ UNCHANGED <<clock, tables, bounds>>

(* queueMessageFlowSemanticContinuation: the idempotency key makes one     *)
(* dispatch of the two that may be asked for; a failure is only logged.    *)
(* A contract without a continuation gets none.                            *)
QueueContinuation(p) ==
    /\ At(p, "continue")
    /\ LET f == at[p].m IN
       IF f \notin AckOnly /\ turn[f].semantic.status = "absent"
       THEN PutTurn(f, "semantic", "queued", 0)
       ELSE UNCHANGED turn
    /\ Goto(p, "record")
    /\ UNCHANGED <<clock, flow, incident, outbox, posted, bounds>>

Record(p) ==            \* the events that follow
    /\ At(p, "record")
    /\ Stop(p)
    /\ UNCHANGED <<clock, tables, bounds>>

ContinuationFails(p) ==
    /\ At(p, "continue") /\ at[p].m \notin AckOnly
    /\ MayThrow
    /\ faults' = faults + 1
    /\ Stop(p)
    /\ UNCHANGED <<clock, tables, texts, marks, crashes>>

(* finishMessageFlowRuntime                                                *)
FinishFlow(p) ==
    /\ At(p, "finish")
    /\ ReadFlow(p, "finish", IF at[p].ok THEN "runtime_completed" ELSE "runtime_failed")
    /\ UNCHANGED <<clock, tables, bounds>>

(* enqueueMessageFlowOutbound                                              *)
Outbound(p) ==
    /\ At(p, "outbound")
    /\ LET f == at[p].m IN
       IF f \in Silent
       THEN Stop(p) /\ UNCHANGED outbox
       ELSE IF outbox[f].status = "absent"
       THEN /\ PutMessage(f, Queued(IF at[p].to = "runtime_completed"
                                    THEN Output ELSE Notice))
            /\ Goto(p, "enqueue")
       ELSE Goto(p, "deliver") /\ UNCHANGED outbox
    /\ UNCHANGED <<clock, turn, flow, incident, posted, bounds>>

EnqueueFlow(p) ==
    /\ At(p, "enqueue")
    /\ ReadFlow(p, "enqueue", IF at[p].to = "runtime_failed" THEN "runtime_failed"
                              ELSE "outbound_queued")
    /\ UNCHANGED <<clock, tables, bounds>>

DeliverNow(p) ==
    /\ At(p, "deliver")
    /\ LET row == outbox[at[p].m] IN
       CASE row.status = "sent" ->
              Become(p, [at[p] EXCEPT !.pc = "sync", !.row = row, !.ok = TRUE])
         [] row.status = "queued" ->
              Become(p, [at[p] EXCEPT !.pc = "claim", !.row = row])
         [] OTHER -> Stop(p)
    /\ UNCHANGED <<clock, tables, bounds>>

(* A statement throws.  Within the try block around the run the catch      *)
(* clause treats it as a failed run; in the catch clause itself the drain  *)
(* fails the dispatch and the flow is left as it is.                       *)
TurnThrows(d) ==
    /\ MayThrow
    /\ at[d].pc \in {"ack", "acknowledge", "record", "finish", "outbound",
                     "enqueue", "deliver"}
    /\ faults' = faults + 1
    /\ IF at[d].trying
       THEN Goto(d, "fail") /\ UNCHANGED turn
       ELSE PutTurn(at[d].m, at[d].kind, "failed", at[d].attempt) /\ Stop(d)
    /\ UNCHANGED <<clock, flow, incident, outbox, posted, texts, marks, crashes>>

TurnStep(p) ==
    \/ StartFlow(p) \/ RunEnds(p) \/ AckTurn(p) \/ FailTurn(p) \/ Acknowledge(p)
    \/ QueueContinuation(p) \/ Record(p) \/ FinishFlow(p) \/ WriteFlow(p) \/ Outbound(p)
    \/ EnqueueFlow(p) \/ DeliverNow(p)

-----------------------------------------------------------------------------
(* Reconciliation                                                          *)

Runs(d, f, k) == at[d].pc # "idle" /\ at[d].m = f /\ at[d].kind = k

(* staleDispatchReconcile without a terminal receipt.                      *)
StaleTurn(q, f, k) ==
    /\ At(q, "idle")
    /\ turn[f][k].status = "sent"
    /\ LateTurns \/ \A d \in Drain : ~Runs(d, f, k)
    /\ LET attempt == turn[f][k].attempt + 1
           retry == attempt < Attempts(k) IN
       /\ PutTurn(f, k, IF retry THEN "queued" ELSE "failed", attempt)
       /\ IF retry THEN Stop(q)
          ELSE Become(q, [Idle EXCEPT !.pc = "finish", !.m = f, !.kind = k])
    /\ UNCHANGED <<clock, flow, incident, outbox, posted, bounds>>

(* The terminate button of a Human Gate cancels what the workflow has      *)
(* queued.                                                                 *)
CancelTurns ==
    /\ \E f \in Stoppable, k \in Kind : turn[f][k].status = "queued"
    /\ turn' = [f \in Flow |-> [k \in Kind |->
                 IF f \in Stoppable /\ turn[f][k].status = "queued"
                 THEN [turn[f][k] EXCEPT !.status = "cancelled"] ELSE turn[f][k]]]
    /\ UNCHANGED <<clock, flow, incident, outbox, posted, at, bounds>>

(* recoverAckedMessageFlowSemanticContinuations: the flows that were       *)
(* acknowledged longest ago, up to the limit, and one with a continuation, *)
(* whatever its status, is passed over.  For a contract without one it     *)
(* reads a field of null, which ends the reconciliation.                   *)
(* Faulty variant for ContinuationsFollow: none is found.                  *)
NeverAcknowledged(f) == FALSE

AcknowledgedOnly(f) ==
    /\ flow[f].status = "runtime_acknowledged"
    /\ ~flow[f].output /\ ~flow[f].receipt
    /\ turn[f].semantic.status = "absent" /\ f \notin AckOnly

Ahead(f) == {g \in Flow \ {f} : flow[g].status = "runtime_acknowledged"}

(* In the order of updated_at any of the flows ahead may come first, so f  *)
(* is sure to be looked at only then.                                      *)
Reached(f) == Ahead(f) \cap AckOnly = {} /\ Cardinality(Ahead(f)) < RecoverLimit

Recover(q, f) ==        \* a drain that lives is not that late
    /\ At(q, "idle")
    /\ \A d \in Drain : ~Runs(d, f, "first")
    /\ AcknowledgedOnly(f)
    /\ Become(q, [Idle EXCEPT !.pc = "continue", !.m = f])
    /\ UNCHANGED <<clock, tables, bounds>>

(* messageFlowReconcile                                                    *)
Stuck(f) ==
    /\ ~flow[f].receipt
    /\ \/ /\ flow[f].output /\ f \notin Silent
          /\ flow[f].status \notin {"telegram_sent", "telegram_failed"}
       \/ ~flow[f].output /\ flow[f].status = "runtime_failed" /\ flow[f].queued

ReconcileFlow(q, f) ==
    /\ At(q, "idle")
    /\ Stuck(f)
    /\ IF flow[f].queued /\ outbox[f].status \in {"sent", "failed"}
       THEN /\ Become(q, [Idle EXCEPT !.pc = "sync", !.m = f, !.row = outbox[f],
                                      !.ok = outbox[f].status = "sent"])
            /\ UNCHANGED incident
       ELSE incident' = incident \cup {f} /\ UNCHANGED at
    /\ UNCHANGED <<clock, turn, flow, outbox, posted, bounds>>
=============================================================================
