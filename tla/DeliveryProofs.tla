---------------------------- MODULE DeliveryProofs ----------------------------
(***************************************************************************)
(* Theorems about MessageDelivery for any number of flows, messages and    *)
(* processes, any number of parts, any lease and any bounds.               *)
(***************************************************************************)
EXTENDS MessageDelivery, TLAPS

-----------------------------------------------------------------------------
(* Types                                                                   *)

(* A process that is to write a flow knows which update it is in.          *)
Ready == {l \in Locals : l.pc = "write" => l.stage # ""}

Staged == at \in [Process -> Ready]

LEMMA IdleTyped ==
  /\ Idle \in Ready /\ Idle.pc = "idle" /\ Idle.since = 0
  /\ NoMessage \in MessageRow /\ Parts \in Nat
<1>1. Parts \in Nat /\ 0 \in 0..Parts
  BY DeliveryAssumption
<1>2. NoMessage \in MessageRow
  BY <1>1 DEF NoMessage, MessageRow, MessageStatus, Text, Output
<1>3. (CHOOSE m \in Message : TRUE) \in Message
  BY DeliveryAssumption
<1>4. "absent" \in FlowStatus
  BY DEF FlowStatus, Rank
<1>5. ASSUME NEW x \in Message
      PROVE  [pc |-> "idle", m |-> x, row |-> NoMessage, kind |-> "first", attempt |-> 0,
              trying |-> FALSE, to |-> "absent", stage |-> "", ok |-> FALSE, web |-> FALSE,
              since |-> 0] \in Ready
  BY <1>2, <1>4 DEF Ready, Locals, SenderPc, Kind, Stage
<1>6. QED
  BY <1>1, <1>2, <1>3, <1>5 DEF Idle

LEMMA GoesTyped ==
  ASSUME at \in [Process -> Ready], NEW p \in Process
  PROVE  /\ \A l \in Ready : Become(p, l) => at' \in [Process -> Ready]
         /\ \A pc \in (SenderPc \cup TurnPc) \ {"write"} : Goto(p, pc) => at' \in [Process -> Ready]
         /\ Stop(p) => at' \in [Process -> Ready]
<1>1. \A l \in Ready : Become(p, l) => at' \in [Process -> Ready]
  BY DEF Become
<1>2. ASSUME NEW pc \in (SenderPc \cup TurnPc) \ {"write"}
      PROVE  [at[p] EXCEPT !.pc = pc] \in Ready
  BY DEF Ready, Locals
<1>3. QED
  BY <1>1, <1>2, IdleTyped DEF Goto, Stop

LEMMA FlowStatuses ==
  FlowStatus = {"absent", "route_registered", "runtime_dispatched", "runtime_acknowledged",
                "semantic_dispatched", "runtime_failed", "runtime_completed",
                "outbound_queued", "telegram_failed", "telegram_sent"}
  BY DEF FlowStatus, Rank

LEMMA ReadFlowTyped ==
  ASSUME at \in [Process -> Ready], NEW p \in Process,
         NEW stage \in Stage \ {""}, NEW to \in FlowStatus, ReadFlow(p, stage, to)
  PROVE  at' \in [Process -> Ready]
<1>1. \A label \in {"run", "continue", "outbound", "deliver", "idle"} :
          Continue(p, label) => at' \in [Process -> Ready]
  BY GoesTyped DEF Continue, TurnPc, SenderPc
<1>2. Refused(stage) \in {"run", "continue", "outbound", "deliver", "idle"}
  BY DEF Refused, Onward, Stage
<1>3. [at[p] EXCEPT !.pc = "write", !.stage = stage, !.to = to] \in Ready
  <2>1. at[p] \in Locals
    BY DEF Ready
  <2>2. QED
    BY <2>1 DEF Ready, Locals, TurnPc
<1>4. QED
  BY <1>1, <1>2, <1>3, GoesTyped DEF ReadFlow

LEMMA PutTurnTyped ==
  ASSUME turn \in [Flow -> [Kind -> Turn]], NEW f, NEW k \in Kind,
         NEW status \in TurnStatus, NEW attempt \in Nat, PutTurn(f, k, status, attempt)
  PROVE  turn' \in [Flow -> [Kind -> Turn]]
<1>1. [status |-> status, attempt |-> attempt] \in Turn
  BY DEF Turn
<1>2. QED
  BY <1>1 DEF PutTurn

LEMMA QueuedTyped ==
  ASSUME NEW text \in Nat
  PROVE  Queued(text) \in MessageRow
  BY IdleTyped DEF Queued, MessageRow, MessageStatus, Text

LEMMA PutMessageTyped ==
  ASSUME outbox \in [Message -> MessageRow], NEW m \in Message, NEW row \in MessageRow,
         PutMessage(m, row)
  PROVE  outbox' \in [Message -> MessageRow]
  BY DEF PutMessage

LEMMA OutboxTypes ==
  ASSUME TypeOK, Staged, NEW p \in Process, OutboxStep(p) \/ WriteFlow(p)
  PROVE  TypeOK' /\ Staged'
<1> USE DEF bounds, tables
<1> at[p] \in Ready /\ at[p] \in Locals /\ at[p].m \in Message /\ at[p].row \in MessageRow /\ clock \in Nat
  BY DEF TypeOK, Staged, Ready, Locals
<1>1. /\ outbox[at[p].m] \in MessageRow /\ at[p].row.receipts \in 0..Parts
      /\ at[p].row.text \in Text
  BY DEF TypeOK, Staged, Ready, MessageRow
<1>2. ASSUME NEW status \in MessageStatus, Settle(p, status)
      PROVE  TypeOK' /\ Staged'
  <2>1. Settled(p, status) \in MessageRow
    BY <1>1 DEF Settled, MessageRow
  <2>2. outbox' \in [Message -> MessageRow]
    BY <1>2, <2>1, PutMessageTyped DEF Settle, TypeOK
  <2>3. [at[p] EXCEPT !.pc = "sync", !.ok = status = "sent"] \in Ready
    BY DEF Ready, Locals, TurnPc
  <2>4. at' \in [Process -> Ready]
    BY <1>2, <2>3, GoesTyped DEF Settle, TypeOK, Staged, Ready
  <2>5. QED
    BY <1>2, <2>2, <2>4 DEF Settle, TypeOK, Staged, Ready
<1>3. ASSUME Post(p), at[p].row.receipts < Parts
      PROVE  posted' \in [Message -> SUBSET (Text \X (1..Parts))]
  <2>1. <<at[p].row.text, at[p].row.receipts + 1>> \in Text \X (1..Parts)
    BY <1>1, <1>3, IdleTyped
  <2>2. QED
    BY <1>3, <2>1 DEF Post, TypeOK, Staged, Ready
<1>4. CASE ReplaceRequest(p)
  <2>1. texts + 2 \in Nat /\ texts + 1 \in Nat
    BY DEF TypeOK
  <2>2. outbox' \in [Message -> MessageRow]
    BY <1>4, <2>1, QueuedTyped, PutMessageTyped DEF ReplaceRequest, TypeOK
  <2>3. at' \in [Process -> Ready]
    BY <1>4, GoesTyped DEF ReplaceRequest, TypeOK, Staged, Ready
  <2>4. QED
    BY <1>4, <2>1, <2>2, <2>3 DEF ReplaceRequest, TypeOK, Staged, Ready
<1>5. CASE ClaimMessage(p)
  <2>1. CASE ~MayClaim(p)
    BY <1>5, <2>1, GoesTyped DEF ClaimMessage, TypeOK, Staged, Ready
  <2>2. CASE MayClaim(p)
    <3> DEFINE row == [at[p].row EXCEPT !.status = "delivering",
                                        !.text = outbox[at[p].m].text, !.stamp = clock]
    <3>1. row \in MessageRow
      BY <1>1 DEF MessageRow, MessageStatus
    <3>2. outbox' \in [Message -> MessageRow]
      BY <1>5, <2>2, <3>1, PutMessageTyped DEF ClaimMessage, TypeOK
    <3>3. [at[p].row EXCEPT !.status = "delivering"] \in MessageRow
      BY <1>1 DEF MessageRow, MessageStatus
    <3>4. [at[p] EXCEPT !.pc = "send", !.since = clock, !.row.status = "delivering",
                        !.web = at[p].m \in WebApp] \in Ready
      <4>1. ASSUME NEW web \in BOOLEAN, NEW r \in MessageRow
            PROVE  [at[p] EXCEPT !.pc = "send", !.since = clock, !.row = r, !.web = web] \in Ready
        BY DEF Ready, Locals, SenderPc
      <4>2. (at[p].m \in WebApp) \in BOOLEAN
        OBVIOUS
      <4>3. QED
        BY <3>3, <4>1, <4>2
    <3>5. at' \in [Process -> Ready]
      BY <1>5, <2>2, <3>4, GoesTyped DEF ClaimMessage, TypeOK, Staged, Ready
    <3>6. QED
      BY <1>5, <3>2, <3>5 DEF ClaimMessage, TypeOK, Staged, Ready
  <2>3. QED
    BY <2>1, <2>2
<1>6. CASE SendPart(p)
  <2>1. [at[p].row EXCEPT !.receipts = @ + 1] \in MessageRow
    BY <1>1, <1>6, IdleTyped DEF SendPart, MessageRow
  <2>2. [at[p] EXCEPT !.row.receipts = @ + 1, !.since = clock] \in Ready
    BY <2>1 DEF Ready, Locals
  <2>3. at' \in [Process -> Ready]
    BY <1>6, <2>2, GoesTyped DEF SendPart, TypeOK, Staged, Ready
  <2>4. QED
    BY <1>3, <1>6, <2>3 DEF SendPart, TypeOK, Staged, Ready
<1>7. CASE SendFails(p)
  <2>1. [at[p] EXCEPT !.web = FALSE, !.since = clock] \in Ready
    BY DEF Ready, Locals
  <2>2. at' \in [Process -> Ready]
    BY <1>7, <2>1, GoesTyped DEF SendFails, TypeOK, Staged, Ready, SenderPc
  <2>3. posted' \in [Message -> SUBSET (Text \X (1..Parts))]
    BY <1>3, <1>7 DEF SendFails, TypeOK
  <2>4. QED
    BY <1>7, <2>2, <2>3 DEF SendFails, TypeOK, Staged, Ready
<1>8. CASE SettleSent(p) \/ SettleFailed(p)
  BY <1>2, <1>8 DEF SettleSent, SettleFailed, MessageStatus
<1>9. CASE SyncDelivery(p)
  <2>1. DeliveryStatus(at[p].m, at[p].ok) \in FlowStatus
    BY FlowStatuses DEF DeliveryStatus
  <2>2. at' \in [Process -> Ready]
    BY <1>9, <2>1, ReadFlowTyped DEF SyncDelivery, TypeOK, Staged, Ready, Stage
  <2>3. QED
    BY <1>9, <2>2 DEF SyncDelivery, TypeOK, Staged, Ready
<1>10. CASE WriteFlow(p)
  <2>1. Onward(at[p].stage) \in (SenderPc \cup TurnPc) \ {"write"}
    <3>1. at[p].stage # ""
      BY <1>10 DEF Ready, WriteFlow, At
    <3>2. QED
      BY <3>1 DEF Onward, Locals, Stage, SenderPc, TurnPc
  <2>2. at' \in [Process -> Ready]
    BY <1>10, <2>1, GoesTyped DEF WriteFlow, Continue, TypeOK, Staged, Ready
  <2>3. flow' \in [Flow -> FlowRow]
    <3>1. ASSUME NEW f \in Flow PROVE Patched(flow[f], p) \in FlowRow
      <4>1. (at[p].ok /\ at[p].row.receipts > 0) \in BOOLEAN /\ (at[p].to = "runtime_completed") \in BOOLEAN
        OBVIOUS
      <4>2. flow[f] \in FlowRow /\ at[p].to \in FlowStatus
        BY DEF TypeOK, Staged, Ready, Locals
      <4>3. ASSUME NEW output \in BOOLEAN, NEW receipt \in BOOLEAN, NEW queued \in BOOLEAN
            PROVE  [flow[f] EXCEPT !.status = at[p].to, !.output = output, !.receipt = receipt,
                                   !.queued = queued] \in FlowRow
        BY <4>2 DEF FlowRow
      <4>4. (CASE at[p].stage = "finish" -> at[p].to = "runtime_completed"
               [] at[p].stage = "acknowledge" -> FALSE
               [] OTHER -> flow[f].output) \in BOOLEAN
        BY <4>2 DEF FlowRow
      <4>5. (CASE at[p].stage = "sync" -> at[p].ok /\ at[p].row.receipts > 0
               [] at[p].stage = "acknowledge" -> FALSE
               [] OTHER -> flow[f].receipt) \in BOOLEAN
        BY <4>2 DEF FlowRow
      <4>6. (flow[f].queued \/ at[p].stage \in {"enqueue", "sync"}) \in BOOLEAN
        OBVIOUS
      <4>7. QED
        BY <4>3, <4>4, <4>5, <4>6 DEF Patched
    <3>2. QED
      BY <1>10, <3>1 DEF WriteFlow, TypeOK, Staged, Ready
  <2>4. QED
    BY <1>10, <2>2, <2>3 DEF WriteFlow, TypeOK, Staged, Ready
<1>11. QED
  BY <1>4, <1>5, <1>6, <1>7, <1>8, <1>9, <1>10 DEF OutboxStep

LEMMA TurnTypes ==
  ASSUME TypeOK, Staged, NEW p \in Process, TurnStep(p)
  PROVE  TypeOK' /\ Staged'
<1> USE DEF bounds, tables
<1> at[p] \in Ready /\ at[p] \in Locals /\ at[p].m \in Message /\ clock \in Nat
  BY DEF TypeOK, Locals, Staged
<1>0. /\ at[p].kind \in Kind /\ at[p].attempt \in Nat /\ outbox[at[p].m] \in MessageRow
      /\ "semantic" \in Kind /\ 0 \in Nat
  BY DEF TypeOK, Locals, Kind
<1>1. CASE StartFlow(p)
  <2>1. (IF at[p].kind = "semantic" THEN "semantic_dispatched" ELSE "runtime_dispatched")
            \in FlowStatus
    BY FlowStatuses
  <2>2. at' \in [Process -> Ready]
    BY <1>1, <2>1, ReadFlowTyped DEF StartFlow, Staged, Stage
  <2>3. QED
    BY <1>1, <2>2 DEF StartFlow, TypeOK, Staged, Ready
<1>2. CASE RunEnds(p)
  <2>1. at' \in [Process -> Ready]
    BY <1>2, GoesTyped DEF RunEnds, Staged, TurnPc
  <2>2. QED
    BY <1>2, <2>1 DEF RunEnds, TypeOK, Staged, Ready
<1>3. CASE AckTurn(p)
  <2>1. ASSUME NEW pc \in {"acknowledge", "finish"}
        PROVE  [at[p] EXCEPT !.pc = pc, !.ok = TRUE] \in Ready
    BY DEF Ready, Locals, TurnPc
  <2>2. at' \in [Process -> Ready]
    BY <1>3, <2>1, GoesTyped DEF AckTurn, Staged
  <2>3. turn' \in [Flow -> [Kind -> Turn]]
    BY <1>0, <1>3, PutTurnTyped DEF AckTurn, TypeOK, TurnStatus
  <2>4. QED
    BY <1>3, <2>2, <2>3 DEF AckTurn, TypeOK, Staged, Ready
<1>4. CASE FailTurn(p)
  <2>1. [at[p] EXCEPT !.pc = "finish", !.ok = FALSE, !.trying = FALSE] \in Ready
    BY DEF Ready, Locals, TurnPc
  <2>2. at' \in [Process -> Ready]
    BY <1>4, <2>1, GoesTyped DEF FailTurn, AfterFailure, Staged
  <2>3. turn' \in [Flow -> [Kind -> Turn]]
    <3>1. \A retry : (IF retry THEN "queued" ELSE "failed") \in TurnStatus
      BY DEF TurnStatus
    <3>2. QED
      BY <1>0, <1>4, <3>1, PutTurnTyped DEF FailTurn, TypeOK
  <2>4. QED
    BY <1>4, <2>2, <2>3 DEF FailTurn, TypeOK, Staged, Ready
<1>5. CASE Acknowledge(p)
  <2>1. at' \in [Process -> Ready]
    BY <1>5, ReadFlowTyped, FlowStatuses DEF Acknowledge, Staged, Stage
  <2>2. QED
    BY <1>5, <2>1 DEF Acknowledge, TypeOK, Staged, Ready
<1>6. CASE QueueContinuation(p)
  <2>1. at' \in [Process -> Ready]
    BY <1>6, GoesTyped DEF QueueContinuation, Staged, TurnPc
  <2>2. turn' \in [Flow -> [Kind -> Turn]]
    BY <1>0, <1>6, PutTurnTyped DEF QueueContinuation, TypeOK, TurnStatus
  <2>3. QED
    BY <1>6, <2>1, <2>2 DEF QueueContinuation, TypeOK, Staged, Ready
<1>7. CASE Record(p)
  BY <1>7, GoesTyped DEF Record, TypeOK, Staged, Ready
<1>8. CASE FinishFlow(p)
  <2>1. (IF at[p].ok THEN "runtime_completed" ELSE "runtime_failed") \in FlowStatus
    BY FlowStatuses
  <2>2. at' \in [Process -> Ready]
    BY <1>8, <2>1, ReadFlowTyped DEF FinishFlow, Staged, Stage
  <2>3. QED
    BY <1>8, <2>2 DEF FinishFlow, TypeOK, Staged, Ready
<1>9. CASE WriteFlow(p)
  BY <1>9, OutboxTypes
<1>10. CASE Outbound(p)
  <2>1. at' \in [Process -> Ready]
    BY <1>10, GoesTyped DEF Outbound, Staged, TurnPc
  <2>2. outbox' \in [Message -> MessageRow]
    <3>1. (IF at[p].to = "runtime_completed" THEN Output ELSE Notice) \in Nat
      BY DEF Output, Notice
    <3>2. QED
      BY <1>10, <3>1, QueuedTyped, PutMessageTyped DEF Outbound, TypeOK
  <2>3. QED
    BY <1>10, <2>1, <2>2 DEF Outbound, TypeOK, Staged, Ready
<1>11. CASE EnqueueFlow(p)
  <2>1. (IF at[p].to = "runtime_failed" THEN "runtime_failed" ELSE "outbound_queued") \in FlowStatus
    BY FlowStatuses
  <2>2. at' \in [Process -> Ready]
    BY <1>11, <2>1, ReadFlowTyped DEF EnqueueFlow, Staged, Stage
  <2>3. QED
    BY <1>11, <2>2 DEF EnqueueFlow, TypeOK, Staged, Ready
<1>12. CASE DeliverNow(p)
  <2>1. [at[p] EXCEPT !.pc = "sync", !.row = outbox[at[p].m], !.ok = TRUE] \in Ready
    BY <1>0 DEF Ready, Locals, TurnPc
  <2>2. [at[p] EXCEPT !.pc = "claim", !.row = outbox[at[p].m]] \in Ready
    BY <1>0 DEF Ready, Locals, SenderPc
  <2>3. at' \in [Process -> Ready]
    BY <1>12, <2>1, <2>2, GoesTyped DEF DeliverNow, Staged
  <2>4. QED
    BY <1>12, <2>3 DEF DeliverNow, TypeOK, Staged, Ready
<1>13. QED
  BY <1>1, <1>2, <1>3, <1>4, <1>5, <1>6, <1>7, <1>8, <1>9, <1>10, <1>11, <1>12 DEF TurnStep

LEMMA SelectionTypes ==
  ASSUME TypeOK, Staged, NEW p \in Process,
         \/ \E m \in Message : SelectMessage(p, m)
         \/ CreateFlow(p)
         \/ \E f \in Flow, k \in Kind : ClaimTurn(p, f, k) \/ StaleTurn(p, f, k)
         \/ \E f \in Flow : Recover(p, f) \/ ReconcileFlow(p, f)
  PROVE  TypeOK' /\ Staged'
<1> USE DEF bounds, tables
<1>0. \A f \in Flow : f \in Message
  BY DEF Message
<1>1. CASE \E m \in Message : SelectMessage(p, m)
  <2> PICK m \in Message : SelectMessage(p, m)
    BY <1>1
  <2>1. outbox[m] \in MessageRow
    BY DEF TypeOK
  <2>2. [Idle EXCEPT !.pc = "claim", !.m = m, !.row = outbox[m]] \in Ready
    BY <2>1, IdleTyped DEF Ready, Locals, SenderPc
  <2>3. at' \in [Process -> Ready]
    BY <2>2, GoesTyped DEF SelectMessage, Staged
  <2>4. QED
    BY <2>3 DEF SelectMessage, TypeOK, Staged, Ready
<1>2. CASE CreateFlow(p)
  <2>1. at' \in [Process -> Ready]
    BY <1>2, GoesTyped DEF CreateFlow, Staged
  <2>2. flow' \in [Flow -> FlowRow]
    BY <1>2, FlowStatuses DEF CreateFlow, TypeOK, FlowRow
  <2>3. QED
    BY <1>2, <2>1, <2>2 DEF CreateFlow, TypeOK, Staged, Ready
<1>3. CASE \E f \in Flow, k \in Kind : ClaimTurn(p, f, k)
  <2> PICK f \in Flow, k \in Kind : ClaimTurn(p, f, k)
    BY <1>3
  <2>1. turn[f][k].attempt + 1 \in Nat
    BY DEF TypeOK, Turn
  <2>2. [Idle EXCEPT !.pc = "start", !.m = f, !.kind = k, !.trying = TRUE,
                     !.attempt = turn[f][k].attempt + 1] \in Ready
    BY <2>1, <1>0, IdleTyped DEF Ready, Locals, TurnPc
  <2>3. at' \in [Process -> Ready]
    BY <2>2, GoesTyped DEF ClaimTurn, Staged
  <2>4. turn' \in [Flow -> [Kind -> Turn]]
    BY <2>1, PutTurnTyped DEF ClaimTurn, TypeOK, TurnStatus
  <2>5. QED
    BY <2>3, <2>4 DEF ClaimTurn, TypeOK, Staged, Ready
<1>4. CASE \E f \in Flow, k \in Kind : StaleTurn(p, f, k)
  <2> PICK f \in Flow, k \in Kind : StaleTurn(p, f, k)
    BY <1>4
  <2>1. turn[f][k].attempt + 1 \in Nat
    BY DEF TypeOK, Turn
  <2>2. [Idle EXCEPT !.pc = "finish", !.m = f, !.kind = k] \in Ready
    BY <1>0, IdleTyped DEF Ready, Locals, TurnPc
  <2>3. at' \in [Process -> Ready]
    BY <2>2, GoesTyped DEF StaleTurn, Staged
  <2>4. turn' \in [Flow -> [Kind -> Turn]]
    <3>1. \A retry : (IF retry THEN "queued" ELSE "failed") \in TurnStatus
      BY DEF TurnStatus
    <3>2. QED
      BY <2>1, <3>1, PutTurnTyped DEF StaleTurn, TypeOK
  <2>5. QED
    BY <2>3, <2>4 DEF StaleTurn, TypeOK, Staged, Ready
<1>5. CASE \E f \in Flow : Recover(p, f)
  <2> PICK f \in Flow : Recover(p, f)
    BY <1>5
  <2>1. [Idle EXCEPT !.pc = "continue", !.m = f] \in Ready
    BY <1>0, IdleTyped DEF Ready, Locals, TurnPc
  <2>2. at' \in [Process -> Ready]
    BY <2>1, GoesTyped DEF Recover, Staged
  <2>3. QED
    BY <2>2 DEF Recover, TypeOK, Staged, Ready
<1>6. CASE \E f \in Flow : ReconcileFlow(p, f)
  <2> PICK f \in Flow : ReconcileFlow(p, f)
    BY <1>6
  <2>1. outbox[f] \in MessageRow /\ (outbox[f].status = "sent") \in BOOLEAN
    BY <1>0 DEF TypeOK
  <2>2. ASSUME NEW ok \in BOOLEAN
        PROVE  [Idle EXCEPT !.pc = "sync", !.m = f, !.row = outbox[f], !.ok = ok] \in Ready
    BY <1>0, <2>1, IdleTyped DEF Ready, Locals, TurnPc
  <2>3. at' \in [Process -> Ready]
    BY <2>1, <2>2, GoesTyped DEF ReconcileFlow, Staged
  <2>4. QED
    BY <2>3 DEF ReconcileFlow, TypeOK, Staged, Ready
<1>7. QED
  BY <1>1, <1>2, <1>3, <1>4, <1>5, <1>6

LEMMA EnvironmentTypes ==
  ASSUME TypeOK, Staged, Environment
  PROVE  TypeOK' /\ Staged'
<1> USE DEF bounds, tables
<1>0. /\ \A f \in Flow : f \in Message
      /\ \A p \in Sender \cup Drain : p \in Process
      /\ \A m \in Request \cup WebApp : m \in Message
  BY DEF Message, Process
<1>1. CASE \E m \in Message : EnqueueMessage(m)
  BY <1>1, QueuedTyped, PutMessageTyped DEF EnqueueMessage, TypeOK, Staged, Ready
<1>2. CASE \E s \in Sender : \E f \in Flow : CreateTurn(s, f)
  <2> PICK s \in Sender, f \in Flow : CreateTurn(s, f)
    BY <1>2
  <2>1. [Idle EXCEPT !.pc = "create flow", !.m = f] \in Ready
    BY <1>0, IdleTyped DEF Ready, Locals, SenderPc
  <2>2. at' \in [Process -> Ready]
    BY <1>0, <2>1, GoesTyped DEF CreateTurn, Staged
  <2>3. turn' \in [Flow -> [Kind -> Turn]]
    BY PutTurnTyped DEF CreateTurn, TypeOK, TurnStatus, Kind
  <2>4. QED
    BY <2>2, <2>3 DEF CreateTurn, TypeOK, Staged, Ready
<1>3. CASE \E s \in Sender : \E m \in Message : ReadRequest(s, m)
  <2> PICK s \in Sender, m \in Message : ReadRequest(s, m)
    BY <1>3
  <2>1. [Idle EXCEPT !.pc = "replace", !.m = m] \in Ready
    BY IdleTyped DEF Ready, Locals, SenderPc
  <2>2. at' \in [Process -> Ready]
    BY <1>0, <2>1, GoesTyped DEF ReadRequest, Staged
  <2>3. QED
    BY <2>2 DEF ReadRequest, TypeOK, Staged, Ready
<1>4. CASE \E s \in Sender : \E m \in Message : \E status \in MarkedAs : Mark(s, m, status)
  <2> PICK s \in Sender, m \in Message, status \in MarkedAs : Mark(s, m, status)
    BY <1>4
  <2>1. outbox[m] \in MessageRow /\ status \in MessageStatus /\ clock \in Nat
    BY DeliveryAssumption DEF TypeOK, MessageStatus
  <2>2. ASSUME NEW ok \in BOOLEAN
        PROVE  [Idle EXCEPT !.pc = "sync", !.m = m, !.row = outbox[m], !.ok = ok] \in Ready
    BY <2>1, IdleTyped DEF Ready, Locals, TurnPc
  <2>3. (status = "sent") \in BOOLEAN
    OBVIOUS
  <2>4. at' \in [Process -> Ready]
    BY <1>0, <2>2, <2>3, GoesTyped DEF Mark, Staged
  <2>5. outbox' \in [Message -> MessageRow]
    <3>1. [outbox[m] EXCEPT !.status = status,
                            !.stamp = IF status = "delivering" THEN clock ELSE 0] \in MessageRow
      BY <2>1 DEF MessageRow
    <3>2. QED
      BY <3>1, PutMessageTyped DEF Mark, TypeOK
  <2>6. posted' \in [Message -> SUBSET (Text \X (1..Parts))]
    <3>1. {outbox[m].text} \X (1..Parts) \subseteq Text \X (1..Parts)
      BY <2>1 DEF MessageRow
    <3>2. QED
      BY <3>1 DEF Mark, TypeOK
  <2>7. marks' \in Nat
    BY DEF Mark, TypeOK
  <2>8. QED
    BY <2>4, <2>5, <2>6, <2>7 DEF Mark, TypeOK, Staged, Ready
<1>5. CASE \E p \in Process : DeliveryThrows(p)
  <2> PICK p \in Process : DeliveryThrows(p)
    BY <1>5
  <2>1. at[p] \in Locals
    BY DEF TypeOK
  <2>2. [at[p] EXCEPT !.pc = "failed", !.ok = FALSE] \in Ready
    BY <2>1 DEF Ready, Locals, SenderPc
  <2>3. at' \in [Process -> Ready]
    BY <2>2, GoesTyped DEF DeliveryThrows, Staged
  <2>4. faults' \in Nat
    BY DEF DeliveryThrows, TypeOK
  <2>5. QED
    BY <2>3, <2>4 DEF DeliveryThrows, TypeOK, Staged, Ready
<1>6. CASE \E p \in Process : ContinuationFails(p) \/ Crash(p)
  <2> PICK p \in Process : ContinuationFails(p) \/ Crash(p)
    BY <1>6
  <2>1. at' \in [Process -> Ready]
    BY GoesTyped DEF ContinuationFails, Crash, Staged
  <2>2. faults' \in Nat /\ crashes' \in Nat
    BY DEF ContinuationFails, Crash, TypeOK
  <2>3. QED
    BY <2>1, <2>2 DEF ContinuationFails, Crash, TypeOK, Staged, Ready
<1>7. CASE \E d \in Drain : TurnThrows(d)
  <2> PICK d \in Drain : TurnThrows(d)
    BY <1>7
  <2>0. d \in Process /\ at[d].kind \in Kind /\ at[d].attempt \in Nat
    BY <1>0 DEF TypeOK, Locals
  <2>1. at' \in [Process -> Ready]
    BY <2>0, GoesTyped DEF TurnThrows, Staged, TurnPc
  <2>2. turn' \in [Flow -> [Kind -> Turn]]
    BY <2>0, PutTurnTyped DEF TurnThrows, TypeOK, TurnStatus
  <2>3. faults' \in Nat
    BY DEF TurnThrows, TypeOK
  <2>4. QED
    BY <2>1, <2>2, <2>3 DEF TurnThrows, TypeOK, Staged, Ready
<1>8. CASE CancelTurns
  <2>1. \A f \in Flow, k \in Kind :
            turn[f][k] \in Turn /\ [turn[f][k] EXCEPT !.status = "cancelled"] \in Turn
    <3>1. ASSUME NEW t \in Turn PROVE [t EXCEPT !.status = "cancelled"] \in Turn
      BY DEF Turn, TurnStatus
    <3>2. QED
      BY <3>1 DEF TypeOK
  <2>2. turn' \in [Flow -> [Kind -> Turn]]
    BY <1>8, <2>1 DEF CancelTurns
  <2>3. QED
    BY <1>8, <2>2 DEF CancelTurns, TypeOK, Staged, Ready
<1>9. QED
  BY <1>1, <1>2, <1>3, <1>4, <1>5, <1>6, <1>7, <1>8 DEF Environment

LEMMA InitTypes == Init => TypeOK /\ Staged
<1> SUFFICES ASSUME Init PROVE TypeOK /\ Staged
  OBVIOUS
<1>1. at \in [Process -> Ready]
  BY IdleTyped DEF Init
<1>2. NoFlow \in FlowRow
  BY FlowStatuses DEF NoFlow, FlowRow
<1>3. NoTurn \in Turn
  BY DEF NoTurn, Turn, TurnStatus
<1>4. QED
  BY <1>1, <1>2, <1>3, IdleTyped DEF Init, TypeOK, Staged, Ready

LEMMA NextTypes == TypeOK /\ Staged /\ [Next]_vars => TypeOK' /\ Staged'
<1> SUFFICES ASSUME TypeOK, Staged, [Next]_vars PROVE TypeOK' /\ Staged'
  OBVIOUS
<1> \A p \in Sender \cup Drain \cup Reconciler : p \in Process
  BY DEF Process
<1>1. CASE HandlerStep
  <2>1. CASE \E s \in Sender : SenderStep(s)
    BY <2>1, OutboxTypes, SelectionTypes DEF SenderStep
  <2>2. CASE \E d \in Drain : DrainStep(d)
    BY <2>2, OutboxTypes, TurnTypes, SelectionTypes DEF DrainStep
  <2>3. CASE \E q \in Reconciler : ReconcilerStep(q)
    BY <2>3, OutboxTypes, TurnTypes, SelectionTypes DEF ReconcilerStep
  <2>4. QED
    BY <1>1, <2>1, <2>2, <2>3 DEF HandlerStep
<1>2. CASE Environment
  BY <1>2, EnvironmentTypes
<1>3. CASE TimePasses
  BY <1>3 DEF TimePasses, TypeOK, Staged, bounds, tables
<1>4. CASE UNCHANGED vars
  BY <1>4 DEF vars, bounds, tables, TypeOK, Staged
<1>5. QED
  BY <1>1, <1>2, <1>3, <1>4 DEF Next

(* Every reachable state of flows and outbox is well typed: no receipt is  *)
(* counted beyond the parts, and no process writes a flow without knowing  *)
(* for which of its updates (DeliveryTables).                              *)
THEOREM TypeCorrect == Spec => []TypeOK
<1>1. Spec => [](TypeOK /\ Staged)
  BY InitTypes, NextTypes, PTL DEF Spec
<1>2. QED
  BY <1>1, PTL

-----------------------------------------------------------------------------
(* What is delivered                                                       *)

(* A Human Gate request is never asked again, or one process alone asks    *)
(* and delivers.                                                           *)
OneTextAtATime == MaxTexts <= 1 \/ \A s, t \in Sender : s = t

(* l holds a copy of a row that it will write back.                        *)
Carries(l) == l.pc = "claim" \/ l.since > 0

(* Who may be where.                                                       *)
Placed(p, l) ==
    /\ l.pc \in TurnPc => l.m \in Flow
    /\ l.since > 0 => \/ l.pc \in {"send", "failed", "sync"}
                      \/ l.pc = "write" /\ l.stage = "sync"
    /\ l.pc \in {"send", "failed"} => l.since > 0
    /\ l.pc = "replace" => l.m \in Request /\ MaxTexts > 1 /\ p \in Sender
    /\ Carries(l) /\ l.m \in Request => p \in Sender

(* The copy holds the text of the row, and its receipts are of that text.  *)
Agrees(l, row, parts) ==
    Carries(l) =>
        /\ row.status # "absent"
        /\ row.text = l.row.text
        /\ {row.text} \X (1..l.row.receipts) \subseteq parts

RowPosted(row, parts) ==
    /\ {row.text} \X (1..row.receipts) \subseteq parts
    /\ row.status = "sent" => {row.text} \X (1..Parts) \subseteq parts

DeliveryInv ==
    /\ clock > 0
    /\ \A p \in Process : Placed(p, at[p])
    /\ \A p \in Process : Agrees(at[p], outbox[at[p].m], posted[at[p].m])
    /\ \A m \in Message : RowPosted(outbox[m], posted[m])

(* One process moves and one row changes; nobody else carries the row      *)
(* unless its text stays.                                                  *)
LEMMA RowMoves ==
  ASSUME TypeOK, TypeOK', DeliveryInv, NEW p \in Process, NEW m \in Message,
         \A q \in Process : q # p => at'[q] = at[q],
         \A n \in Message : n # m => outbox'[n] = outbox[n] /\ posted'[n] = posted[n],
         posted[m] \subseteq posted'[m],
         UNCHANGED clock,
         Placed(p, at'[p]),
         Agrees(at'[p], outbox'[at'[p].m], posted'[at'[p].m]),
         RowPosted(outbox'[m], posted'[m]),
         \A q \in Process : q # p /\ at[q].m = m /\ Carries(at[q])
            => outbox'[m].status # "absent" /\ outbox'[m].text = outbox[m].text
  PROVE  DeliveryInv'
<1>1. \A q \in Process : at[q].m \in Message
  BY DEF TypeOK, Locals
<1>2. ASSUME NEW q \in Process PROVE Placed(q, at'[q])
  BY DEF DeliveryInv
<1>3. ASSUME NEW q \in Process PROVE Agrees(at'[q], outbox'[at'[q].m], posted'[at'[q].m])
  <2>1. CASE q = p
    BY <2>1
  <2>2. CASE q # p
    <3>1. at'[q] = at[q] /\ Agrees(at[q], outbox[at[q].m], posted[at[q].m])
      BY <2>2 DEF DeliveryInv
    <3>2. CASE at[q].m # m
      BY <1>1, <3>1, <3>2
    <3>3. CASE at[q].m = m
      BY <2>2, <3>1, <3>3 DEF Agrees
    <3>4. QED
      BY <3>2, <3>3
  <2>3. QED
    BY <2>1, <2>2
<1>4. ASSUME NEW n \in Message PROVE RowPosted(outbox'[n], posted'[n])
  BY DEF DeliveryInv
<1>5. QED
  BY <1>2, <1>3, <1>4 DEF DeliveryInv

(* One process moves and the tables of the outbox stay.                    *)
LEMMA ProcessMoves ==
  ASSUME TypeOK, DeliveryInv, NEW p \in Process,
         \A q \in Process : q # p => at'[q] = at[q],
         UNCHANGED <<outbox, posted, clock>>,
         Placed(p, at'[p]), Agrees(at'[p], outbox[at'[p].m], posted[at'[p].m])
  PROVE  DeliveryInv'
<1>1. ASSUME NEW q \in Process PROVE Placed(q, at'[q])
  BY DEF DeliveryInv
<1>2. ASSUME NEW q \in Process PROVE Agrees(at'[q], outbox'[at'[q].m], posted'[at'[q].m])
  BY DEF DeliveryInv
<1>3. QED
  BY <1>1, <1>2 DEF DeliveryInv

(* From one place in a turn, or in what follows it, to another.            *)
LEMMA Strolls ==
  ASSUME TypeOK, DeliveryInv, NEW p \in Process,
         \A q \in Process : q # p => at'[q] = at[q],
         UNCHANGED <<outbox, posted, clock>>,
         at[p].pc \in TurnPc,
         at'[p] = Idle \/ at'[p].pc \in TurnPc,
         \/ at'[p] = Idle
         \/ /\ at'[p].m = at[p].m /\ at'[p].row = at[p].row /\ at'[p].since = at[p].since
            /\ at[p].since > 0 => at'[p].pc = "write" /\ at'[p].stage = "sync"
  PROVE  DeliveryInv'
<1>1. CASE at'[p] = Idle
  <2>1. /\ Placed(p, at'[p])
        /\ Agrees(at'[p], outbox[at'[p].m], posted[at'[p].m])
    BY <1>1, IdleTyped DEF Placed, Agrees, Carries, TurnPc
  <2>2. QED
    BY <2>1, ProcessMoves
<1>2. CASE at'[p] # Idle
  <2>1. Placed(p, at[p]) /\ Agrees(at[p], outbox[at[p].m], posted[at[p].m])
    BY DEF DeliveryInv
  <2>2. at[p].pc # "claim" /\ at'[p].pc \notin {"claim", "send", "failed", "replace"}
    BY <1>2 DEF TurnPc
  <2>3. /\ Placed(p, at'[p])
        /\ Agrees(at'[p], outbox[at'[p].m], posted[at'[p].m])
    BY <1>2, <2>1, <2>2 DEF Placed, Agrees, Carries
  <2>4. QED
    BY <2>3, ProcessMoves
<1>3. QED
  BY <1>1, <1>2

(* A call of updateMessageFlow, up to its write.                           *)
LEMMA Reads ==
  ASSUME TypeOK, TypeOK', DeliveryInv, NEW p \in Process,
         NEW stage \in Stage \ {""}, NEW to, ReadFlow(p, stage, to),
         UNCHANGED <<outbox, posted, clock>>,
         at[p].pc \in TurnPc, at[p].since > 0 => stage = "sync"
  PROVE  DeliveryInv'
<1> DEFINE l == at'[p]
<1>1. /\ \A q \in Process : q # p => at'[q] = at[q]
      /\ at[p] \in Locals /\ l \in Locals
  BY DEF ReadFlow, Continue, Stop, Goto, Become, TypeOK
<1>2. \/ l = Idle
      \/ /\ l.m = at[p].m /\ l.row = at[p].row /\ l.since = at[p].since
         /\ l.pc \in TurnPc
         /\ at[p].since > 0 => l.pc = "write" /\ l.stage = "sync"
  <2>1. ASSUME NEW label \in {"run", "continue", "outbound", "deliver", "idle"}, Continue(p, label),
               label = "idle" \/ stage # "sync"
        PROVE  \/ l = Idle
               \/ /\ l.m = at[p].m /\ l.row = at[p].row /\ l.since = at[p].since
                  /\ l.pc \in TurnPc
                  /\ at[p].since > 0 => stage = "sync"
                  /\ stage # "sync"
    <3>1. CASE label = "idle"
      BY <2>1, <3>1 DEF Continue, Stop, Become, TypeOK
    <3>2. CASE label # "idle"
      <4>1. at'[p] = [at[p] EXCEPT !.pc = label] /\ stage # "sync"
        BY <2>1, <3>2 DEF Continue, Goto, Become, TypeOK
      <4>2. QED
        BY <1>1, <3>2, <4>1 DEF TurnPc, Locals
    <3>3. QED
      BY <3>1, <3>2
  <2>2. /\ Refused(stage) \in {"run", "continue", "outbound", "deliver", "idle"}
        /\ Refused(stage) = "idle" \/ stage # "sync"
    BY DEF Refused, Onward, Stage
  <2>3. CASE Become(p, [at[p] EXCEPT !.pc = "write", !.stage = stage, !.to = to])
    BY <1>1, <2>3 DEF Become, TypeOK, TurnPc, Locals
  <2>4. CASE Continue(p, Refused(stage))
    BY <1>1, <2>1, <2>2, <2>4
  <2>5. CASE Continue(p, IF stage = "start" THEN "run" ELSE "idle")
    BY <1>1, <2>1, <2>5
  <2>6. QED
    BY <2>3, <2>4, <2>5 DEF ReadFlow
<1>3. QED
  BY <1>1, <1>2, Strolls

(* A delivery of which the row is not replaced meanwhile.                  *)
LEMMA OutboxInv ==
  ASSUME TypeOK, TypeOK', Staged, DeliveryInv, OneTextAtATime, NEW p \in Process,
         OutboxStep(p) \/ WriteFlow(p)
  PROVE  DeliveryInv'
<1> DEFINE m == at[p].m  row == outbox[m]  l == at'[p]
<1> USE DEF bounds, tables
<1> /\ at[p] \in Locals /\ l \in Locals /\ m \in Message /\ row \in MessageRow
    /\ outbox'[m] \in MessageRow /\ at[p].row \in MessageRow
    /\ at[p].row.receipts \in 0..Parts /\ at[p].row.text \in Nat /\ clock \in Nat
    /\ Parts \in Nat \ {0} /\ posted[m] \subseteq Text \X (1..Parts)
  BY DeliveryAssumption DEF TypeOK, Locals, MessageRow, Text
<1>a. Placed(p, at[p]) /\ Agrees(at[p], row, posted[m]) /\ RowPosted(row, posted[m]) /\ clock > 0
  BY DEF DeliveryInv
<1>b. ASSUME NEW other \in Process, at[other].m = m, Carries(at[other])
      PROVE  row.status # "absent"
  BY <1>b DEF DeliveryInv, Agrees
<1>1. ASSUME NEW status \in {"sent", "failed"}, Settle(p, status), at[p].since > 0,
             status = "sent" => at[p].row.receipts = Parts
      PROVE  DeliveryInv'
  <2>1. /\ outbox'[m] = Settled(p, status)
        /\ \A n \in Message : n # m => outbox'[n] = outbox[n]
        /\ \A q \in Process : q # p => at'[q] = at[q]
        /\ posted' = posted
        /\ UNCHANGED clock
    BY <1>1 DEF Settle, PutMessage, Become, Stop, TypeOK
  <2>2. /\ outbox'[m].status = status /\ outbox'[m].text = row.text
        /\ outbox'[m].receipts = at[p].row.receipts
    BY <2>1 DEF Settled, MessageRow
  <2>3. row.text = at[p].row.text /\ {row.text} \X (1..at[p].row.receipts) \subseteq posted[m]
    BY <1>1, <1>a DEF Agrees, Carries
  <2>4. RowPosted(outbox'[m], posted[m])
    BY <1>1, <2>2, <2>3 DEF RowPosted
  <2>5. Placed(p, l) /\ Agrees(l, outbox'[l.m], posted'[l.m])
    <3>1. CASE m \in Flow
      <4>1. l.pc = "sync" /\ l.m = m /\ l.row = at[p].row /\ l.since = at[p].since
        <5>1. l = [at[p] EXCEPT !.pc = "sync", !.ok = status = "sent"]
          BY <1>1, <3>1 DEF Settle, Become, TypeOK
        <5>2. QED
          BY <5>1 DEF Locals
      <4>2. Placed(p, l)
        BY <3>1, <4>1, DeliveryAssumption DEF Placed, Carries
      <4>3. Agrees(l, outbox'[m], posted[m])
        BY <1>1, <2>2, <2>3, <4>1 DEF Agrees
      <4>4. QED
        BY <2>1, <4>1, <4>2, <4>3
    <3>2. CASE m \notin Flow
      <4>1. l = Idle
        BY <1>1, <3>2 DEF Settle, Stop, Become, TypeOK
      <4>2. QED
        BY <4>1, IdleTyped DEF Placed, Agrees, Carries, TurnPc
    <3>3. QED
      BY <3>1, <3>2
  <2>6. \A other \in Process : other # p /\ at[other].m = m /\ Carries(at[other])
            => outbox'[m].status # "absent" /\ outbox'[m].text = outbox[m].text
    BY <1>1, <2>2
  <2>7. QED
    BY <2>1, <2>4, <2>5, <2>6, RowMoves
<1>2. ASSUME Post(p) \/ UNCHANGED posted, At(p, "send"), at[p].row.receipts < Parts,
             UNCHANGED <<outbox, clock>>,
             \A q \in Process : q # p => at'[q] = at[q], l.m = m, l.since > 0, l.pc \in {"send", "failed"},
             l.row.text = at[p].row.text,
             \/ l.row.receipts = at[p].row.receipts
             \/ l.row.receipts = at[p].row.receipts + 1 /\ Post(p)
      PROVE  DeliveryInv'
  <2>1. /\ \A n \in Message : n # m => posted'[n] = posted[n]
        /\ posted[m] \subseteq posted'[m]
        /\ Post(p) => <<row.text, at[p].row.receipts + 1>> \in posted'[m]
    BY <1>2, <1>a DEF Post, TypeOK, Agrees, Carries, At, Placed
  <2>2. /\ row.status # "absent" /\ row.text = at[p].row.text
        /\ {row.text} \X (1..at[p].row.receipts) \subseteq posted[m]
    BY <1>2, <1>a DEF Agrees, Carries, At, Placed
  <2>3. RowPosted(row, posted'[m])
    BY <1>a, <2>1 DEF RowPosted
  <2>4. {row.text} \X (1..l.row.receipts) \subseteq posted'[m]
    <3>1. SUFFICES ASSUME NEW i \in 1..l.row.receipts PROVE <<row.text, i>> \in posted'[m]
      OBVIOUS
    <3>2. CASE i \in 1..at[p].row.receipts
      BY <2>1, <2>2, <3>2
    <3>3. CASE i \notin 1..at[p].row.receipts
      <4>1. i = at[p].row.receipts + 1 /\ Post(p)
        BY <1>2, <3>3
      <4>2. QED
        BY <2>1, <4>1
    <3>4. QED
      BY <3>2, <3>3
  <2>5. Placed(p, l) /\ Agrees(l, outbox'[l.m], posted'[l.m])
    BY <1>2, <1>a, <2>2, <2>4 DEF Placed, Agrees, Carries, At, TurnPc
  <2>6. QED
    BY <1>2, <2>1, <2>2, <2>3, <2>5, RowMoves
<1>3. CASE ReplaceRequest(p)
  <2>1. at[p].pc = "replace" /\ m \in Request /\ MaxTexts > 1 /\ p \in Sender
    BY <1>3, <1>a DEF ReplaceRequest, At, Placed
  <2>2. \A q \in Process : q # p => ~(at[q].m = m /\ Carries(at[q]))
    BY <2>1, DeliveryAssumption DEF OneTextAtATime, DeliveryInv, Placed
  <2>3. l = Idle /\ \A q \in Process : q # p => at'[q] = at[q]
    BY <1>3 DEF ReplaceRequest, Stop, Become, TypeOK
  <2>4. /\ outbox'[m] = Queued(texts + 2)
        /\ \A n \in Message : n # m => outbox'[n] = outbox[n]
        /\ UNCHANGED <<posted, clock>>
    BY <1>3 DEF ReplaceRequest, PutMessage, TypeOK
  <2>5. outbox'[m].status = "queued" /\ outbox'[m].receipts = 0
    BY <2>4 DEF Queued, NoMessage
  <2>6. RowPosted(outbox'[m], posted'[m])
    BY <2>5 DEF RowPosted
  <2>7. Placed(p, l) /\ Agrees(l, outbox'[l.m], posted'[l.m])
    BY <2>3, IdleTyped DEF Placed, Agrees, Carries, TurnPc
  <2>8. QED
    BY <2>2, <2>3, <2>4, <2>6, <2>7, RowMoves
<1>4. CASE ClaimMessage(p)
  <2>1. CASE ~MayClaim(p)
    <3>1. /\ l = Idle /\ UNCHANGED <<outbox, posted, clock>>
          /\ \A q \in Process : q # p => at'[q] = at[q]
      BY <1>4, <2>1 DEF ClaimMessage, Stop, Become, TypeOK
    <3>2. Placed(p, l) /\ Agrees(l, outbox[l.m], posted[l.m])
      BY <3>1, IdleTyped DEF Placed, Agrees, Carries, TurnPc
    <3>3. QED
      BY <3>1, <3>2, ProcessMoves
  <2>2. CASE MayClaim(p)
    <3>1. /\ outbox'[m] = [at[p].row EXCEPT !.status = "delivering", !.text = row.text,
                                            !.stamp = clock]
          /\ l = [at[p] EXCEPT !.pc = "send", !.since = clock, !.row.status = "delivering",
                               !.web = m \in WebApp]
          /\ \A n \in Message : n # m => outbox'[n] = outbox[n]
          /\ \A q \in Process : q # p => at'[q] = at[q]
          /\ UNCHANGED <<posted, clock>>
          /\ at[p].pc = "claim"
      BY <1>4, <2>2 DEF ClaimMessage, Become, PutMessage, TypeOK, At
    <3>2. /\ outbox'[m].status = "delivering" /\ outbox'[m].text = row.text
          /\ outbox'[m].receipts = at[p].row.receipts
      BY <3>1 DEF MessageRow
    <3>3. /\ l.pc = "send" /\ l.m = m /\ l.since = clock
          /\ l.row.text = at[p].row.text /\ l.row.receipts = at[p].row.receipts
      BY <3>1 DEF MessageRow, Locals
    <3>4. /\ row.text = at[p].row.text
          /\ {row.text} \X (1..at[p].row.receipts) \subseteq posted[m]
      BY <1>a, <3>1 DEF Agrees, Carries
    <3>5. RowPosted(outbox'[m], posted'[m])
      BY <3>1, <3>2, <3>4 DEF RowPosted
    <3>6. Agrees(l, outbox'[l.m], posted'[l.m])
      BY <3>1, <3>2, <3>3, <3>4 DEF Agrees
    <3>7. Placed(p, l)
      BY <1>a, <3>1, <3>3 DEF Placed, Carries, TurnPc
    <3>8. posted[m] \subseteq posted'[m] /\ UNCHANGED clock
      BY <3>1
    <3>9. outbox'[m].status # "absent" /\ outbox'[m].text = outbox[m].text
      BY <3>2
    <3>10. \A n \in Message : n # m => outbox'[n] = outbox[n] /\ posted'[n] = posted[n]
      BY <3>1
    <3>11. \A q \in Process : q # p => at'[q] = at[q]
      BY <3>1
    <3>12. QED
      BY <3>5, <3>6, <3>7, <3>8, <3>9, <3>10, <3>11, RowMoves
  <2>3. QED
    BY <2>1, <2>2
<1>5. CASE SendPart(p)
  <2>1. /\ at[p].pc = "send" /\ Post(p)
        /\ l = [at[p] EXCEPT !.row.receipts = @ + 1, !.since = clock]
        /\ \A q \in Process : q # p => at'[q] = at[q]
    BY <1>5 DEF SendPart, Become, TypeOK, At
  <2>2. /\ l.pc = "send" /\ l.m = m /\ l.since = clock
        /\ l.row.text = at[p].row.text /\ l.row.receipts = at[p].row.receipts + 1
    BY <2>1 DEF Locals, MessageRow
  <2>3. QED
    BY <1>2, <1>5, <1>a, <2>1, <2>2 DEF SendPart
<1>6. CASE SendFails(p)
  <2>1. /\ at[p].pc = "send"
        /\ \/ l = [at[p] EXCEPT !.web = FALSE, !.since = clock]
           \/ l = [at[p] EXCEPT !.pc = "failed"]
        /\ \A q \in Process : q # p => at'[q] = at[q]
    BY <1>6 DEF SendFails, Become, Goto, TypeOK, At
  <2>2. /\ l.pc \in {"send", "failed"} /\ l.m = m /\ l.since \in {clock, at[p].since}
        /\ l.row = at[p].row
    BY <2>1 DEF Locals
  <2>3. at[p].since > 0
    BY <1>a, <2>1 DEF Placed
  <2>4. QED
    BY <1>2, <1>6, <1>a, <2>1, <2>2, <2>3 DEF SendFails
<1>7. CASE SettleSent(p)
  BY <1>1, <1>7, <1>a DEF SettleSent, At, AllSent, Placed
<1>8. CASE SettleFailed(p)
  BY <1>1, <1>8, <1>a DEF SettleFailed, At, Placed
<1>9. CASE SyncDelivery(p)
  <2>1. at[p].pc \in TurnPc
    BY <1>9 DEF SyncDelivery, At, TurnPc
  <2>2. QED
    BY <1>9, <2>1, Reads DEF SyncDelivery, Stage
<1>10. CASE WriteFlow(p)
  <2>1. at[p].pc \in TurnPc /\ at[p].pc = "write" /\ UNCHANGED <<outbox, posted, clock>>
    BY <1>10 DEF WriteFlow, At, TurnPc
  <2>2. at[p].since > 0 => at[p].stage = "sync"
    BY <1>a, <2>1 DEF Placed
  <2>3. at[p].stage \in {"start", "acknowledge", "finish", "enqueue", "sync"}
    <3>1. at[p].stage \in Stage /\ at[p].stage # ""
      BY <2>1 DEF Staged, Ready, Locals
    <3>2. QED
      BY <3>1 DEF Stage
  <2>4. CASE at[p].stage = "sync"
    <3>1. l = Idle /\ \A q \in Process : q # p => at'[q] = at[q]
      BY <1>10, <2>4 DEF WriteFlow, Continue, Onward, Stop, Become, TypeOK
    <3>2. QED
      BY <2>1, <3>1, Strolls
  <2>5. CASE at[p].stage # "sync"
    <3>1. Onward(at[p].stage) \in {"run", "continue", "outbound", "deliver"}
      BY <2>3, <2>5 DEF Onward
    <3>2. at' = [at EXCEPT ![p] = [at[p] EXCEPT !.pc = Onward(at[p].stage)]]
      BY <1>10, <3>1 DEF WriteFlow, Continue, Goto, Become
    <3>3. /\ l = [at[p] EXCEPT !.pc = Onward(at[p].stage)]
          /\ \A q \in Process : q # p => at'[q] = at[q]
      BY <3>2 DEF TypeOK
    <3>4. l.pc \in TurnPc /\ l.m = m /\ l.row = at[p].row /\ l.since = at[p].since
      BY <3>1, <3>3 DEF Locals, TurnPc
    <3>5. ~(at[p].since > 0)
      BY <2>2, <2>5
    <3>6. QED
      BY <2>1, <3>3, <3>4, <3>5, Strolls
  <2>6. QED
    BY <2>4, <2>5
<1>11. QED
  BY <1>3, <1>4, <1>5, <1>6, <1>7, <1>8, <1>9, <1>10 DEF OutboxStep

LEMMA TurnInv ==
  ASSUME TypeOK, TypeOK', Staged, DeliveryInv, OneTextAtATime, NEW p \in Process, TurnStep(p)
  PROVE  DeliveryInv'
<1> DEFINE m == at[p].m  row == outbox[m]  l == at'[p]
<1> USE DEF bounds, tables
<1> /\ at[p] \in Locals /\ l \in Locals /\ m \in Message /\ row \in MessageRow
    /\ outbox'[m] \in MessageRow /\ clock \in Nat
  BY DEF TypeOK, Locals
<1>a. Placed(p, at[p]) /\ Agrees(at[p], row, posted[m]) /\ RowPosted(row, posted[m]) /\ clock > 0
  BY DEF DeliveryInv
<1>b. at[p].pc \in {"start", "run", "ack", "fail", "acknowledge", "continue", "record",
                    "finish", "outbound", "enqueue", "deliver"}
        => at[p].pc \in TurnPc /\ ~(at[p].since > 0) /\ m \in Flow
  BY <1>a DEF Placed, TurnPc
<1>1. CASE StartFlow(p) \/ Acknowledge(p) \/ FinishFlow(p) \/ EnqueueFlow(p)
  BY <1>1, <1>b, Reads DEF StartFlow, Acknowledge, FinishFlow, EnqueueFlow, At, Stage
<1>2. CASE RunEnds(p) \/ AckTurn(p) \/ FailTurn(p) \/ QueueContinuation(p) \/ Record(p)
  <2>1. /\ at[p].pc \in TurnPc /\ ~(at[p].since > 0)
        /\ UNCHANGED <<outbox, posted, clock>>
    BY <1>2, <1>b DEF RunEnds, AckTurn, FailTurn, QueueContinuation, Record, At
  <2>2. \A q \in Process : q # p => at'[q] = at[q]
    BY <1>2 DEF RunEnds, AckTurn, FailTurn, AfterFailure, QueueContinuation, Record,
                Become, Goto, Stop, TypeOK
  <2>3. \/ l = Idle
        \/ l.m = m /\ l.row = at[p].row /\ l.since = at[p].since /\ l.pc \in TurnPc
    <3>1. CASE RunEnds(p)
      <4>1. PICK end \in {"ack", "fail"} : l = [at[p] EXCEPT !.pc = end]
        BY <3>1 DEF RunEnds, Become, Goto, TypeOK
      <4>2. QED
        BY <4>1 DEF Locals, TurnPc
    <3>2. CASE AckTurn(p)
      BY <3>2 DEF AckTurn, Become, TypeOK, Locals, TurnPc
    <3>3. CASE FailTurn(p)
      <4>1. l = Idle \/ l = [at[p] EXCEPT !.pc = "finish", !.ok = FALSE, !.trying = FALSE]
        BY <3>3 DEF FailTurn, AfterFailure, Become, Stop, TypeOK
      <4>2. QED
        BY <4>1 DEF Locals, TurnPc
    <3>4. CASE QueueContinuation(p)
      BY <3>4 DEF QueueContinuation, Become, Goto, TypeOK, Locals, TurnPc
    <3>5. CASE Record(p)
      BY <3>5 DEF Record, Become, Stop, TypeOK
    <3>6. QED
      BY <1>2, <3>1, <3>2, <3>3, <3>4, <3>5
  <2>4. QED
    BY <2>1, <2>2, <2>3, Strolls
<1>3. CASE WriteFlow(p)
  BY <1>3, OutboxInv
<1>4. CASE Outbound(p)
  <2>1. at[p].pc \in TurnPc /\ ~(at[p].since > 0) /\ UNCHANGED <<posted, clock>>
    BY <1>4, <1>b DEF Outbound, At
  <2>2. \A q \in Process : q # p => at'[q] = at[q]
    BY <1>4 DEF Outbound, Become, Goto, Stop, TypeOK
  <2>3. \/ l = Idle
        \/ l.m = m /\ l.row = at[p].row /\ l.since = at[p].since /\ l.pc \in TurnPc
    BY <1>4 DEF Outbound, Become, Goto, Stop, TypeOK, Locals, TurnPc
  <2>4. CASE UNCHANGED outbox
    BY <2>1, <2>2, <2>3, <2>4, Strolls
  <2>5. CASE outbox[m].status = "absent" /\ outbox' # outbox
    <3>1. PICK text \in Nat : outbox'[m] = Queued(text)
      BY <1>4, <2>5 DEF Outbound, PutMessage, TypeOK, Output, Notice
    <3>2. \A n \in Message : n # m => outbox'[n] = outbox[n]
      BY <1>4, <2>5 DEF Outbound, PutMessage, TypeOK
    <3>3. outbox'[m].status = "queued" /\ outbox'[m].receipts = 0
      BY <3>1 DEF Queued, NoMessage
    <3>4. RowPosted(outbox'[m], posted'[m])
      BY <3>3 DEF RowPosted
    <3>5. \A q \in Process : ~(at[q].m = m /\ Carries(at[q]))
      BY <2>5 DEF DeliveryInv, Agrees
    <3>6. l.pc \in TurnPc \/ l = Idle
      BY <2>3
    <3>7. Placed(p, l) /\ Agrees(l, outbox'[l.m], posted'[l.m])
      BY <1>a, <2>1, <2>3, IdleTyped DEF Placed, Agrees, Carries, TurnPc
    <3>8. QED
      BY <2>1, <2>2, <3>2, <3>4, <3>5, <3>7, RowMoves
  <2>6. QED
    BY <1>4, <2>4, <2>5 DEF Outbound
<1>5. CASE DeliverNow(p)
  <2>1. /\ at[p].pc \in TurnPc /\ ~(at[p].since > 0) /\ m \in Flow
        /\ UNCHANGED <<outbox, posted, clock>>
    BY <1>5, <1>b DEF DeliverNow, At
  <2>2. \A q \in Process : q # p => at'[q] = at[q]
    BY <1>5 DEF DeliverNow, Become, Stop, TypeOK
  <2>3. \/ l = Idle
        \/ /\ l.m = m /\ l.row = row /\ l.since = at[p].since
           /\ l.pc = "sync" \/ (l.pc = "claim" /\ row.status = "queued")
    <3>1. CASE row.status = "sent"
      <4>1. l = [at[p] EXCEPT !.pc = "sync", !.row = row, !.ok = TRUE]
        BY <1>5, <3>1 DEF DeliverNow, Become, TypeOK
      <4>2. l.m = m /\ l.row = row /\ l.since = at[p].since /\ l.pc = "sync"
        BY <4>1 DEF Locals
      <4>3. QED
        BY <4>2
    <3>2. CASE row.status = "queued"
      BY <1>5, <3>2 DEF DeliverNow, Become, TypeOK, Locals
    <3>3. CASE row.status \notin {"sent", "queued"}
      BY <1>5, <3>3 DEF DeliverNow, Become, Stop, TypeOK
    <3>4. QED
      BY <3>1, <3>2, <3>3
  <2>4. Placed(p, l) /\ Agrees(l, outbox[l.m], posted[l.m])
    <3>1. CASE l = Idle
      BY <3>1, IdleTyped DEF Placed, Agrees, Carries, TurnPc
    <3>2. CASE l # Idle
      BY <1>a, <2>1, <2>3, <3>2, DeliveryAssumption DEF Placed, Agrees, Carries, TurnPc, RowPosted
    <3>3. QED
      BY <3>1, <3>2
  <2>5. QED
    BY <2>1, <2>2, <2>4, ProcessMoves
<1>6. QED
  BY <1>1, <1>2, <1>3, <1>4, <1>5 DEF TurnStep

(* Steps that begin from idle, but for those that write the outbox.        *)
LEMMA BeginInv ==
  ASSUME TypeOK, TypeOK', DeliveryInv, NEW p \in Process,
         \/ p \in Sender /\ \E m \in Message : SelectMessage(p, m)
         \/ p \in Sender /\ \E m \in Message : ReadRequest(p, m)
         \/ CreateFlow(p)
         \/ \E f \in Flow : CreateTurn(p, f)
         \/ \E f \in Flow, k \in Kind : ClaimTurn(p, f, k) \/ StaleTurn(p, f, k)
         \/ \E f \in Flow : Recover(p, f) \/ ReconcileFlow(p, f)
  PROVE  DeliveryInv'
<1> DEFINE l == at'[p]
<1> USE DEF bounds, tables
<1> /\ at[p] \in Locals /\ l \in Locals /\ l.m \in Message
  BY DEF TypeOK, Locals
<1>0. \A f \in Flow : f \in Message
  BY DEF Message
<1>1. UNCHANGED <<outbox, posted, clock>>
  BY DEF SelectMessage, ReadRequest, CreateFlow, CreateTurn, ClaimTurn, StaleTurn, Recover, ReconcileFlow
<1>2. \A q \in Process : q # p => at'[q] = at[q]
  BY DEF SelectMessage, ReadRequest, CreateFlow, CreateTurn, ClaimTurn, StaleTurn, Recover,
         ReconcileFlow, Become, Stop, TypeOK
<1>3. CASE p \in Sender /\ \E m \in Message : SelectMessage(p, m)
  <2>1. PICK m \in Message : SelectMessage(p, m)
    BY <1>3
  <2>2. l.pc = "claim" /\ l.m = m /\ l.row = outbox[m] /\ l.since = 0
    <3>1. l = [Idle EXCEPT !.pc = "claim", !.m = m, !.row = outbox[m]]
      BY <2>1 DEF SelectMessage, Become, TypeOK
    <3>2. QED
      BY <3>1, IdleTyped DEF Ready, Locals
  <2>3. outbox[m].status # "absent"
    BY <2>1 DEF SelectMessage, Deliverable, StaleDelivery
  <2>4. Agrees(l, outbox[l.m], posted[l.m]) /\ Placed(p, l)
    BY <1>3, <2>2, <2>3 DEF DeliveryInv, RowPosted, Agrees, Placed, TurnPc
  <2>5. QED
    BY <1>1, <1>2, <2>4, ProcessMoves
<1>4. CASE \/ p \in Sender /\ \E m \in Message : ReadRequest(p, m)
           \/ CreateFlow(p)
           \/ \E f \in Flow : CreateTurn(p, f)
           \/ \E f \in Flow, k \in Kind : ClaimTurn(p, f, k) \/ StaleTurn(p, f, k)
           \/ \E f \in Flow : Recover(p, f) \/ ReconcileFlow(p, f)
  <2>1. \/ l = at[p]
        \/ l = Idle
        \/ /\ l.since = 0 /\ l.pc \in {"create flow", "start", "finish", "continue", "sync"}
           /\ l.m \in Flow
        \/ l.since = 0 /\ l.pc = "replace" /\ p \in Sender /\ l.m \in Request /\ MaxTexts > 1
    <3> Idle \in Locals /\ Idle.since = 0
      BY IdleTyped DEF Ready
    <3>1. CASE p \in Sender /\ \E m \in Message : ReadRequest(p, m)
      <4>1. PICK m \in Message : ReadRequest(p, m)
        BY <3>1
      <4>2. l = [Idle EXCEPT !.pc = "replace", !.m = m] /\ m \in Request /\ texts + 1 < MaxTexts
        BY <4>1 DEF ReadRequest, Become, TypeOK
      <4>3. MaxTexts > 1
        <5>1. MaxTexts \in Nat /\ texts \in Nat
          BY DeliveryAssumption DEF TypeOK
        <5>2. QED
          BY <4>2, <5>1
      <4>4. QED
        BY <3>1, <4>2, <4>3 DEF Locals
    <3>2. CASE CreateFlow(p)
      BY <3>2 DEF CreateFlow, Stop, Become, TypeOK
    <3>3. CASE \E f \in Flow : CreateTurn(p, f)
      <4>1. PICK f \in Flow : l = [Idle EXCEPT !.pc = "create flow", !.m = f]
        BY <3>3 DEF CreateTurn, Become, TypeOK
      <4>2. QED
        BY <4>1 DEF Locals
    <3>4. CASE \E f \in Flow, k \in Kind : ClaimTurn(p, f, k)
      <4>1. PICK f \in Flow, k \in Kind :
                l = [Idle EXCEPT !.pc = "start", !.m = f, !.kind = k, !.trying = TRUE,
                                 !.attempt = turn[f][k].attempt + 1]
        BY <3>4 DEF ClaimTurn, Become, TypeOK
      <4>2. QED
        BY <4>1 DEF Locals
    <3>5. CASE \E f \in Flow, k \in Kind : StaleTurn(p, f, k)
      <4>1. PICK f \in Flow, k \in Kind :
                l = Idle \/ l = [Idle EXCEPT !.pc = "finish", !.m = f, !.kind = k]
        BY <3>5 DEF StaleTurn, Stop, Become, TypeOK
      <4>2. QED
        BY <4>1 DEF Locals
    <3>6. CASE \E f \in Flow : Recover(p, f)
      <4>1. PICK f \in Flow : l = [Idle EXCEPT !.pc = "continue", !.m = f]
        BY <3>6 DEF Recover, Become, TypeOK
      <4>2. QED
        BY <4>1 DEF Locals
    <3>7. CASE \E f \in Flow : ReconcileFlow(p, f)
      <4>1. PICK f \in Flow :
                \/ l = at[p]
                \/ l = [Idle EXCEPT !.pc = "sync", !.m = f, !.row = outbox[f],
                                    !.ok = outbox[f].status = "sent"]
        BY <3>7 DEF ReconcileFlow, Become, TypeOK
      <4>2. QED
        BY <4>1 DEF Locals
    <3>8. QED
      BY <1>4, <3>1, <3>2, <3>3, <3>4, <3>5, <3>6, <3>7
  <2>2. Placed(p, l) /\ Agrees(l, outbox[l.m], posted[l.m])
    <3>1. CASE l = at[p]
      BY <3>1 DEF DeliveryInv
    <3>2. CASE l = Idle
      BY <3>2, IdleTyped DEF Placed, Agrees, Carries, TurnPc
    <3>3. CASE /\ l.since = 0
               /\ \/ l.pc \in {"create flow", "start", "finish", "continue", "sync"} /\ l.m \in Flow
                  \/ l.pc = "replace" /\ p \in Sender /\ l.m \in Request /\ MaxTexts > 1
      <4>1. l.since = 0 => ~(l.since > 0)
        OBVIOUS
      <4>2. l.pc \notin {"claim", "send", "failed"}
        BY <3>3
      <4>3. QED
        BY <3>3, <4>1, <4>2 DEF Placed, Agrees, Carries, TurnPc
    <3>4. QED
      BY <2>1, <3>1, <3>2, <3>3
  <2>3. QED
    BY <1>1, <1>2, <2>2, ProcessMoves
<1>5. QED
  BY <1>3, <1>4

LEMMA EnvironmentInv ==
  ASSUME TypeOK, TypeOK', DeliveryInv, Environment
  PROVE  DeliveryInv'
<1> USE DEF bounds, tables
<1>0. \A p \in Sender \cup Drain : p \in Process
  BY DEF Process
<1>1. CASE \E m \in Message : EnqueueMessage(m)
  <2> PICK m \in Message : EnqueueMessage(m)
    BY <1>1
  <2>1. /\ outbox[m].status = "absent" /\ outbox'[m] = Queued(1)
        /\ \A n \in Message : n # m => outbox'[n] = outbox[n]
        /\ UNCHANGED <<posted, clock, at>>
    BY DEF EnqueueMessage, PutMessage, TypeOK
  <2>2. outbox'[m].status = "queued" /\ outbox'[m].receipts = 0
    BY <2>1 DEF Queued, NoMessage
  <2>3. \A q \in Process : at[q].m = m => ~Carries(at[q])
    BY <2>1 DEF DeliveryInv, Agrees
  <2>4. ASSUME NEW q \in Process PROVE Agrees(at'[q], outbox'[at'[q].m], posted'[at'[q].m])
    <3>1. at'[q] = at[q] /\ at[q].m \in Message
      BY <2>1 DEF TypeOK, Locals
    <3>2. QED
      BY <2>1, <2>3, <3>1 DEF DeliveryInv, Agrees
  <2>5. \A n \in Message : RowPosted(outbox'[n], posted'[n])
    BY <2>1, <2>2 DEF DeliveryInv, RowPosted
  <2>6. QED
    BY <2>1, <2>4, <2>5 DEF DeliveryInv
<1>2. CASE \/ \E s \in Sender : \E f \in Flow : CreateTurn(s, f)
           \/ \E s \in Sender : \E m \in Message : ReadRequest(s, m)
  BY <1>0, <1>2, BeginInv
<1>3. CASE \E s \in Sender : \E m \in Message : \E status \in MarkedAs : Mark(s, m, status)
  <2> PICK s \in Sender, m \in Message, status \in MarkedAs : Mark(s, m, status)
    BY <1>3
  <2> DEFINE l == at'[s]
  <2>0. s \in Process /\ l \in Locals /\ outbox[m] \in MessageRow /\ status # "absent"
    BY <1>0, DeliveryAssumption DEF TypeOK
  <2>1. /\ outbox[m].status # "absent"
        /\ outbox'[m] = [outbox[m] EXCEPT !.status = status,
                                          !.stamp = IF status = "delivering" THEN clock ELSE 0]
        /\ \A n \in Message : n # m => outbox'[n] = outbox[n] /\ posted'[n] = posted[n]
        /\ \A q \in Process : q # s => at'[q] = at[q]
        /\ UNCHANGED clock
    BY DEF Mark, PutMessage, Become, Stop, TypeOK
  <2>2. /\ outbox'[m].status = status /\ outbox'[m].text = outbox[m].text
        /\ outbox'[m].receipts = outbox[m].receipts
    BY <2>0, <2>1 DEF MessageRow
  <2>3. posted'[m] = IF status = "sent"
                     THEN posted[m] \cup ({outbox[m].text} \X (1..Parts)) ELSE posted[m]
    BY DEF Mark, TypeOK
  <2>4. posted[m] \subseteq posted'[m]
    BY <2>3
  <2>5. RowPosted(outbox'[m], posted'[m])
    BY <2>2, <2>3 DEF DeliveryInv, RowPosted
  <2>6. Placed(s, l) /\ ~Carries(l)
    <3>1. CASE l = Idle
      BY <3>1, IdleTyped DEF Placed, Carries, TurnPc
    <3>2. CASE l # Idle
      <4>1. /\ l = [Idle EXCEPT !.pc = "sync", !.m = m, !.row = outbox[m], !.ok = status = "sent"]
            /\ m \in Flow
        BY <3>2 DEF Mark, Become, Stop, TypeOK, Process
      <4>2. l.pc = "sync" /\ l.m = m /\ l.since = 0
        BY <4>1, IdleTyped DEF Locals, Ready
      <4>3. ~(l.since > 0)
        BY <4>2
      <4>4. QED
        BY <4>1, <4>2, <4>3 DEF Placed, Carries, TurnPc
    <3>3. QED
      BY <3>1, <3>2
  <2>7. QED
    BY <2>0, <2>1, <2>2, <2>4, <2>5, <2>6, RowMoves DEF Agrees
<1>4. CASE \E p \in Process : DeliveryThrows(p)
  <2> PICK p \in Process : DeliveryThrows(p)
    BY <1>4
  <2>1. at'[p] = [at[p] EXCEPT !.pc = "failed", !.ok = FALSE] /\ at[p] \in Locals
    BY DEF DeliveryThrows, Become, TypeOK
  <2>2. /\ at'[p].pc = "failed" /\ at'[p].m = at[p].m /\ at'[p].row = at[p].row
        /\ at'[p].since = at[p].since
    BY <2>1 DEF Locals
  <2>3. at[p].since > 0
    BY DEF DeliveryThrows, At, DeliveryInv, Placed
  <2>4. /\ \A q \in Process : q # p => at'[q] = at[q]
        /\ UNCHANGED <<outbox, posted, clock>>
    BY DEF DeliveryThrows, Become, TypeOK
  <2>5. Placed(p, at[p]) /\ Agrees(at[p], outbox[at[p].m], posted[at[p].m])
    BY DEF DeliveryInv
  <2>6. Placed(p, at'[p])
    BY <2>2, <2>3, <2>5 DEF Placed, Carries, TurnPc
  <2>7. Agrees(at'[p], outbox[at'[p].m], posted[at'[p].m])
    BY <2>2, <2>3, <2>5 DEF Agrees, Carries
  <2>8. QED
    BY <2>4, <2>6, <2>7, ProcessMoves
<1>5. CASE \/ \E p \in Process : ContinuationFails(p) \/ Crash(p)
           \/ \E d \in Drain : TurnThrows(d)
  <2> PICK p \in Process : ContinuationFails(p) \/ Crash(p) \/ TurnThrows(p)
    BY <1>0, <1>5
  <2>1. /\ \A q \in Process : q # p => at'[q] = at[q]
        /\ UNCHANGED <<outbox, posted, clock>>
        /\ at[p] \in Locals
    BY DEF ContinuationFails, Crash, TurnThrows, Stop, Goto, Become, TypeOK
  <2>2. CASE at'[p] = Idle
    <3>1. /\ Placed(p, at'[p])
          /\ Agrees(at'[p], outbox[at'[p].m], posted[at'[p].m])
      BY <2>2, IdleTyped DEF Placed, Agrees, Carries, TurnPc
    <3>2. QED
      BY <2>1, <3>1, ProcessMoves
  <2>3. CASE at'[p] # Idle
    <3>1. /\ at'[p] = [at[p] EXCEPT !.pc = "fail"]
          /\ at[p].pc \in {"ack", "acknowledge", "record", "finish", "outbound", "enqueue", "deliver"}
      BY <2>3 DEF ContinuationFails, Crash, TurnThrows, Stop, Goto, Become, TypeOK
    <3>2. /\ at'[p].pc = "fail" /\ at'[p].m = at[p].m /\ at'[p].row = at[p].row
          /\ at'[p].since = at[p].since
      BY <2>1, <3>1 DEF Locals
    <3>3. ~(at[p].since > 0)
      BY <3>1 DEF DeliveryInv, Placed
    <3>4. at[p].pc \in TurnPc /\ at'[p].pc \in TurnPc
      BY <3>1, <3>2 DEF TurnPc
    <3>5. QED
      BY <2>1, <3>2, <3>3, <3>4, Strolls
  <2>4. QED
    BY <2>2, <2>3
<1>6. CASE CancelTurns
  BY <1>6 DEF CancelTurns, DeliveryInv
<1>7. QED
  BY <1>1, <1>2, <1>3, <1>4, <1>5, <1>6 DEF Environment

LEMMA InitInv == Init => DeliveryInv
<1> SUFFICES ASSUME Init PROVE DeliveryInv
  OBVIOUS
<1>1. \A p \in Process : at[p] = Idle
  BY DEF Init
<1>2. \A p \in Process : Placed(p, at[p]) /\ Agrees(at[p], outbox[at[p].m], posted[at[p].m])
  BY <1>1, IdleTyped DEF Placed, Agrees, Carries, TurnPc
<1>3. \A m \in Message : RowPosted(outbox[m], posted[m])
  BY DEF Init, RowPosted, NoMessage
<1>4. clock > 0
  BY DEF Init
<1>5. QED
  BY <1>2, <1>3, <1>4 DEF DeliveryInv

LEMMA NextInv ==
  ASSUME OneTextAtATime
  PROVE  TypeOK /\ Staged /\ DeliveryInv /\ [Next]_vars => DeliveryInv'
<1> SUFFICES ASSUME TypeOK, Staged, DeliveryInv, [Next]_vars PROVE DeliveryInv'
  OBVIOUS
<1>0. TypeOK' /\ \A p \in Sender \cup Drain \cup Reconciler : p \in Process
  BY NextTypes DEF Process
<1>1. CASE HandlerStep
  <2>1. CASE \E s \in Sender : SenderStep(s)
    BY <1>0, <2>1, OutboxInv, BeginInv DEF SenderStep
  <2>2. CASE \E d \in Drain : DrainStep(d)
    BY <1>0, <2>2, OutboxInv, TurnInv, BeginInv DEF DrainStep
  <2>3. CASE \E q \in Reconciler : ReconcilerStep(q)
    BY <1>0, <2>3, OutboxInv, TurnInv, BeginInv DEF ReconcilerStep
  <2>4. QED
    BY <1>1, <2>1, <2>2, <2>3 DEF HandlerStep
<1>2. CASE Environment
  BY <1>0, <1>2, EnvironmentInv
<1>3. CASE TimePasses
  BY <1>3 DEF TimePasses, DeliveryInv, TypeOK, tables
<1>4. CASE UNCHANGED vars
  BY <1>4 DEF vars, tables, DeliveryInv
<1>5. QED
  BY <1>1, <1>2, <1>3, <1>4 DEF Next

LEMMA Delivers ==
  ASSUME OneTextAtATime
  PROVE  Spec => [](TypeOK /\ Staged /\ DeliveryInv)
<1>1. Init => TypeOK /\ Staged /\ DeliveryInv
  BY InitTypes, InitInv
<1>2. TypeOK /\ Staged /\ DeliveryInv /\ [Next]_vars => (TypeOK /\ Staged /\ DeliveryInv)'
  BY NextTypes, NextInv
<1>3. QED
  BY <1>1, <1>2, PTL DEF Spec

(* What is marked sent was sent, part for part, whatever senders die,      *)
(* resume after a failure, take over after the lease or are interfered     *)
(* with by an operator: receipts are only counted for the text they are of *)
(* (deliverTelegramOutboxRow, claimTelegramOutboxDelivery).                *)
THEOREM SentMeansPostedHolds ==
  ASSUME OneTextAtATime
  PROVE  Spec => []SentMeansPosted
<1>1. DeliveryInv => SentMeansPosted
  BY DEF DeliveryInv, RowPosted, SentMeansPosted
<1>2. QED
  BY <1>1, Delivers, PTL

-----------------------------------------------------------------------------
(* Who delivers                                                            *)

(* The parts of a message, and the attempt over the Bot API, take less     *)
(* than the lease, and no operator has rows delivered a second time that   *)
(* are being delivered.                                                    *)
InTime ==
    /\ \A m \in Message : (Parts + (IF m \in WebApp THEN 1 ELSE 0)) * PartTime < Lease
    /\ MarkedAs \subseteq {"sent", "cancelled"}

(* l is sending, or has sent all and may yet find that it failed.          *)
Holds(l) == l.since > 0 /\ (l.ok \/ l.pc \in {"send", "failed"})

(* The calls that l has made for the row it claimed.                       *)
Calls(l) == l.row.receipts + (IF l.m \in WebApp /\ ~l.web THEN 1 ELSE 0)

Timely(l, row, now) ==
    /\ l.since <= row.stamp + Calls(l) * PartTime
    /\ now <= l.since + PartTime
    /\ l.row.receipts = Parts => now <= l.since

Sound(l, row, now) ==
    /\ l.pc = "claim" => l.row.status \in {"queued", "delivering", "failed"}
    /\ l.pc = "send" /\ l.web => l.m \in WebApp
    /\ Holds(l) => row.status \in {"delivering", "sent", "cancelled"}
    /\ Holds(l) /\ row.status = "delivering"
          => l.pc \in {"send", "failed"} /\ Timely(l, row, now)

SenderInv ==
    /\ \A p, q \in Process :
          Holds(at[p]) /\ Holds(at[q]) /\ at[p].m = at[q].m => p = q
    /\ \A p \in Process : Sound(at[p], outbox[at[p].m], clock)

(* A delivery that is timely is not stale.                                 *)
LEMMA NotStale ==
  ASSUME InTime, NEW l \in Locals, NEW row \in MessageRow, NEW now \in Nat, Timely(l, row, now)
  PROVE  row.stamp + Lease > now
<1> DEFINE extra == IF l.m \in WebApp THEN 1 ELSE 0
<1>1. /\ l.m \in Message /\ l.row.receipts \in 0..Parts /\ l.since \in Nat /\ row.stamp \in Nat
      /\ Parts \in Nat /\ PartTime \in Nat /\ Lease \in Nat
  BY DeliveryAssumption DEF Locals, MessageRow
<1>2. Calls(l) \in Nat /\ Calls(l) <= l.row.receipts + extra
  BY <1>1 DEF Calls
<1>3. (Parts + extra) * PartTime < Lease
  BY <1>1 DEF InTime
<1>4. CASE l.row.receipts = Parts
  <2>1. Calls(l) * PartTime <= (Parts + extra) * PartTime
    BY <1>1, <1>2, <1>4
  <2>2. QED
    BY <1>1, <1>2, <1>3, <1>4, <2>1 DEF Timely
<1>5. CASE l.row.receipts < Parts
  <2>1. Calls(l) + 1 <= Parts + extra
    BY <1>1, <1>2, <1>5
  <2>2. (Calls(l) + 1) * PartTime <= (Parts + extra) * PartTime
    BY <1>1, <1>2, <2>1
  <2>3. (Calls(l) + 1) * PartTime = Calls(l) * PartTime + PartTime
    BY <1>1, <1>2
  <2>4. now <= l.since + PartTime /\ l.since <= row.stamp + Calls(l) * PartTime
    BY DEF Timely
  <2>5. QED
    BY <1>1, <1>2, <1>3, <2>2, <2>3, <2>4
<1>6. QED
  BY <1>1, <1>4, <1>5

(* One process moves, and of the rows m: who else holds m has it as it was *)
(* or out of the way of a claim.                                           *)
LEMMA HolderMoves ==
  ASSUME TypeOK, SenderInv, NEW p \in Process, NEW m \in Message,
         \A q \in Process : q # p => at'[q] = at[q],
         \A n \in Message : n # m => outbox'[n] = outbox[n],
         UNCHANGED clock,
         \A q \in Process : q # p /\ at[q].m = m /\ Holds(at[q])
             => outbox'[m].status \in {"sent", "cancelled"} \/ outbox'[m] = outbox[m],
         Sound(at'[p], outbox'[at'[p].m], clock),
         \A q \in Process : q # p /\ Holds(at'[p]) => ~(at[q].m = at'[p].m /\ Holds(at[q]))
  PROVE  SenderInv'
<1>1. ASSUME NEW q \in Process, NEW r \in Process,
             Holds(at'[q]), Holds(at'[r]), at'[q].m = at'[r].m
      PROVE  q = r
  BY <1>1 DEF SenderInv
<1>2. ASSUME NEW q \in Process PROVE Sound(at'[q], outbox'[at'[q].m], clock)
  <2>1. CASE q # p
    <3>1. at'[q] = at[q] /\ Sound(at[q], outbox[at[q].m], clock) /\ at[q].m \in Message
      BY <2>1 DEF SenderInv, TypeOK, Locals
    <3>2. CASE outbox'[at[q].m] = outbox[at[q].m]
      BY <3>1, <3>2
    <3>3. CASE at[q].m = m /\ Holds(at[q]) /\ outbox'[m].status \in {"sent", "cancelled"}
      BY <3>1, <3>3 DEF Sound
    <3>4. CASE at[q].m = m /\ ~Holds(at[q])
      BY <3>1, <3>4 DEF Sound
    <3>5. QED
      BY <2>1, <3>1, <3>2, <3>3, <3>4
  <2>2. QED
    BY <2>1
<1>3. QED
  BY <1>1, <1>2 DEF SenderInv

(* The row that p claimed stays as it is, and p sends on or stops.         *)
LEMMA HolderGoesOn ==
  ASSUME TypeOK, SenderInv, NEW p \in Process,
         \A q \in Process : q # p => at'[q] = at[q],
         UNCHANGED <<outbox, clock>>,
         Sound(at'[p], outbox[at'[p].m], clock),
         Holds(at'[p]) => Holds(at[p]) /\ at'[p].m = at[p].m
  PROVE  SenderInv'
<1>1. at[p].m \in Message /\ \A q \in Process : q # p /\ Holds(at'[p]) => ~(at[q].m = at'[p].m /\ Holds(at[q]))
  BY DEF SenderInv, TypeOK, Locals
<1>2. QED
  BY <1>1, HolderMoves

(* Who holds no message comes to hold none.                                *)
LEMMA HoldsNone ==
  ASSUME TypeOK, SenderInv, NEW p \in Process,
         \A q \in Process : q # p => at'[q] = at[q],
         UNCHANGED <<outbox, clock>>,
         at'[p].pc # "send", ~(at'[p].since > 0),
         at'[p].pc = "claim" => at'[p].row.status \in {"queued", "delivering", "failed"}
  PROVE  SenderInv'
  BY HolderGoesOn DEF Sound, Holds

LEMMA OutboxSenders ==
  ASSUME TypeOK, TypeOK', Staged, DeliveryInv, SenderInv, OneTextAtATime, InTime,
         NEW p \in Process, OutboxStep(p) \/ WriteFlow(p)
  PROVE  SenderInv'
<1> DEFINE m == at[p].m  row == outbox[m]  l == at'[p]
<1> USE DEF bounds, tables
<1> /\ at[p] \in Locals /\ l \in Locals /\ m \in Message /\ row \in MessageRow
    /\ at[p].row \in MessageRow /\ at[p].row.receipts \in 0..Parts
    /\ clock \in Nat /\ at[p].since \in Nat /\ row.stamp \in Nat
    /\ Parts \in Nat \ {0} /\ PartTime \in Nat \ {0}
  BY DeliveryAssumption DEF TypeOK, Locals, MessageRow
<1>a. Placed(p, at[p]) /\ clock > 0 /\ Sound(at[p], row, clock)
  BY DEF DeliveryInv, SenderInv
<1>b. \A q \in Process : q # p => at'[q] = at[q]
  BY DEF OutboxStep, ReplaceRequest, ClaimMessage, SendPart, SendFails, SettleSent, SettleFailed,
         Settle, SyncDelivery, WriteFlow, ReadFlow, Continue, Become, Goto, Stop, TypeOK
<1>c. l = Idle => Sound(l, outbox'[l.m], clock) /\ ~Holds(l)
  BY IdleTyped DEF Sound, Holds
<1>d. at[p].pc \in {"send", "failed"} => Holds(at[p])
  BY <1>a DEF Placed, Holds
<1>e. Holds(at[p]) => \A q \in Process : q # p => ~(at[q].m = m /\ Holds(at[q]))
  BY DEF SenderInv
<1>1. ASSUME NEW status \in {"sent", "failed"}, Settle(p, status), at[p].pc \in {"send", "failed"}
      PROVE  SenderInv'
  <2>1. /\ outbox'[m] = Settled(p, status)
        /\ \A n \in Message : n # m => outbox'[n] = outbox[n]
        /\ UNCHANGED clock
    BY <1>1 DEF Settle, PutMessage, TypeOK
  <2>2. outbox'[m].status = status
    BY <2>1 DEF Settled, MessageRow
  <2>3. Sound(l, outbox'[l.m], clock) /\ (Holds(l) => l.m = m)
    <3>1. CASE m \in Flow
      <4>1. l = [at[p] EXCEPT !.pc = "sync", !.ok = status = "sent"]
        BY <1>1, <3>1 DEF Settle, Become, TypeOK
      <4>2. l.pc = "sync" /\ l.m = m /\ l.ok = (status = "sent")
        BY <4>1 DEF Locals
      <4>3. QED
        BY <2>2, <4>2 DEF Sound, Holds
    <3>2. CASE m \notin Flow
      BY <1>1, <1>c, <3>2 DEF Settle, Stop, Become, TypeOK
    <3>3. QED
      BY <3>1, <3>2
  <2>4. \A q \in Process : q # p => ~(at[q].m = m /\ Holds(at[q]))
    BY <1>1, <1>d, <1>e
  <2>5. QED
    BY <1>b, <2>1, <2>3, <2>4, HolderMoves
<1>2. CASE ReplaceRequest(p)
  <2>1. at[p].pc = "replace" /\ m \in Request /\ MaxTexts > 1 /\ p \in Sender
    BY <1>2, <1>a DEF ReplaceRequest, At, Placed
  <2>2. \A q \in Process : q # p => ~(at[q].m = m /\ Holds(at[q]))
    BY <2>1, DeliveryAssumption DEF OneTextAtATime, DeliveryInv, Placed, Carries, Holds
  <2>3. l = Idle /\ UNCHANGED clock /\ \A n \in Message : n # m => outbox'[n] = outbox[n]
    BY <1>2 DEF ReplaceRequest, PutMessage, Stop, Become, TypeOK
  <2>4. QED
    BY <1>b, <1>c, <2>2, <2>3, HolderMoves
<1>3. CASE ClaimMessage(p)
  <2>1. CASE ~MayClaim(p)
    <3>1. l = Idle /\ UNCHANGED <<outbox, clock>>
      BY <1>3, <2>1 DEF ClaimMessage, Stop, Become, TypeOK
    <3>2. QED
      BY <1>b, <1>c, <3>1, HolderGoesOn
  <2>2. CASE MayClaim(p)
    <3>1. /\ outbox'[m] = [at[p].row EXCEPT !.status = "delivering", !.text = row.text,
                                            !.stamp = clock]
          /\ l = [at[p] EXCEPT !.pc = "send", !.since = clock, !.row.status = "delivering",
                               !.web = m \in WebApp]
          /\ \A n \in Message : n # m => outbox'[n] = outbox[n]
          /\ UNCHANGED clock
          /\ at[p].pc = "claim"
      BY <1>3, <2>2 DEF ClaimMessage, Become, PutMessage, TypeOK, At
    <3>2. outbox'[m].status = "delivering" /\ outbox'[m].stamp = clock
      BY <3>1 DEF MessageRow
    <3>3. /\ l.pc = "send" /\ l.m = m /\ l.since = clock /\ l.web = (m \in WebApp)
          /\ l.row.receipts = at[p].row.receipts
      BY <3>1 DEF MessageRow, Locals
    <3>4. ASSUME NEW q \in Process, at[q].m = m, Holds(at[q]) PROVE FALSE
      <4>1. Sound(at[q], row, clock) /\ at[q] \in Locals
        BY <3>4 DEF SenderInv, TypeOK
      <4>2. at[p].row.status \in {"queued", "delivering", "failed"}
        BY <1>a, <3>1 DEF Sound
      <4>3. CASE at[p].row.status = "delivering"
        <5>1. row.status = "delivering" /\ row.stamp + Lease <= clock
          BY <2>2, <4>3 DEF MayClaim, StaleDelivery
        <5>2. Timely(at[q], row, clock)
          BY <3>4, <4>1, <5>1 DEF Sound
        <5>3. row.stamp + Lease > clock
          BY <4>1, <5>2, NotStale
        <5>4. QED
          BY <5>1, <5>3, DeliveryAssumption
      <4>4. CASE at[p].row.status # "delivering"
        BY <2>2, <3>4, <4>1, <4>2, <4>4 DEF MayClaim, Sound
      <4>5. QED
        BY <4>3, <4>4
    <3>5. Timely(l, outbox'[m], clock)
      <4>1. Calls(l) \in Nat
        BY <3>3 DEF Calls
      <4>2. Calls(l) * PartTime \in Nat
        BY <4>1
      <4>3. QED
        BY <3>2, <3>3, <4>2 DEF Timely
    <3>6. Sound(l, outbox'[l.m], clock)
      BY <3>2, <3>3, <3>5 DEF Sound
    <3>7. \A q \in Process : ~(at[q].m = m /\ Holds(at[q]))
      BY <3>4
    <3>8. (\A n \in Message : n # m => outbox'[n] = outbox[n]) /\ UNCHANGED clock
      BY <3>1
    <3>9. l.m = m
      BY <3>3
    <3>10. QED
      BY <1>b, <3>6, <3>7, <3>8, <3>9, HolderMoves
  <2>3. QED
    BY <2>1, <2>2
<1>4. CASE SendPart(p)
  <2>1. /\ at[p].pc = "send"
        /\ l = [at[p] EXCEPT !.row.receipts = @ + 1, !.since = clock]
        /\ UNCHANGED <<outbox, clock>>
    BY <1>4 DEF SendPart, Become, TypeOK, At
  <2>2. /\ l.pc = "send" /\ l.m = m /\ l.since = clock /\ l.web = at[p].web
        /\ l.row.receipts = at[p].row.receipts + 1
    BY <2>1 DEF Locals, MessageRow
  <2>3. Calls(l) = Calls(at[p]) + 1 /\ Calls(at[p]) \in Nat
    BY <2>2 DEF Calls
  <2>4. (Calls(at[p]) + 1) * PartTime = Calls(at[p]) * PartTime + PartTime /\ Calls(at[p]) * PartTime \in Nat
    BY <2>3
  <2>5. row.status = "delivering" => Timely(l, row, clock)
    <3>1. row.status = "delivering" => Timely(at[p], row, clock)
      BY <1>a, <1>d, <2>1 DEF Sound
    <3>2. QED
      BY <2>2, <2>3, <2>4, <3>1 DEF Timely
  <2>6. Sound(l, row, clock)
    BY <1>a, <1>d, <2>1, <2>2, <2>5 DEF Sound
  <2>7. QED
    BY <1>b, <1>d, <2>1, <2>2, <2>6, HolderGoesOn
<1>5. CASE SendFails(p)
  <2>1. /\ at[p].pc = "send" /\ UNCHANGED <<outbox, clock>> /\ at[p].row.receipts # Parts
    BY <1>5 DEF SendFails, At
  <2>2. CASE at[p].web /\ at[p].row.receipts = 0
    <3>1. l = [at[p] EXCEPT !.web = FALSE, !.since = clock]
      BY <1>5, <2>2 DEF SendFails, Become, TypeOK
    <3>2. /\ l.pc = "send" /\ l.m = m /\ l.since = clock /\ l.web = FALSE
          /\ l.row = at[p].row
      BY <2>1, <3>1 DEF Locals
    <3>3. m \in WebApp
      BY <1>a, <2>1, <2>2 DEF Sound
    <3>4. Calls(l) = 1 /\ Calls(at[p]) = 0 /\ 1 * PartTime = PartTime /\ 0 * PartTime = 0
      BY <2>2, <3>2, <3>3 DEF Calls
    <3>5. row.status = "delivering" => Timely(l, row, clock)
      <4>1. row.status = "delivering" => Timely(at[p], row, clock)
        BY <1>a, <1>d, <2>1 DEF Sound
      <4>2. QED
        BY <2>1, <3>2, <3>4, <4>1 DEF Timely
    <3>6. Sound(l, row, clock)
      BY <1>a, <1>d, <2>1, <3>2, <3>5 DEF Sound
    <3>7. QED
      BY <1>b, <1>d, <2>1, <3>2, <3>6, HolderGoesOn
  <2>3. CASE ~(at[p].web /\ at[p].row.receipts = 0)
    <3>1. l = [at[p] EXCEPT !.pc = "failed"]
      BY <1>5, <2>3 DEF SendFails, Goto, Become, TypeOK
    <3>2. /\ l.pc = "failed" /\ l.m = m /\ l.since = at[p].since /\ l.web = at[p].web
          /\ l.row = at[p].row
      BY <3>1 DEF Locals
    <3>3. Sound(l, row, clock)
      BY <1>a, <1>d, <2>1, <3>2 DEF Sound, Timely, Calls
    <3>4. QED
      BY <1>b, <1>d, <2>1, <3>2, <3>3, HolderGoesOn
  <2>4. QED
    BY <2>2, <2>3
<1>6. CASE SettleSent(p) \/ SettleFailed(p)
  BY <1>1, <1>6 DEF SettleSent, SettleFailed, At
<1>7. CASE SyncDelivery(p)
  <2>1. at[p].pc = "sync" /\ UNCHANGED <<outbox, clock>>
    BY <1>7 DEF SyncDelivery, At
  <2>2. \/ l = Idle
        \/ \E to : l = [at[p] EXCEPT !.pc = "write", !.stage = "sync", !.to = to]
    BY <1>7 DEF SyncDelivery, ReadFlow, Continue, Refused, Onward, Stop, Become, TypeOK
  <2>3. CASE l = Idle
    BY <1>b, <1>c, <2>1, <2>3, HolderGoesOn
  <2>4. CASE l # Idle
    <3>1. l.pc = "write" /\ l.m = m /\ l.since = at[p].since /\ l.ok = at[p].ok
      BY <2>2, <2>4 DEF Locals
    <3>2. Holds(l) => Holds(at[p])
      BY <3>1 DEF Holds
    <3>3. Sound(l, row, clock)
      BY <1>a, <2>1, <3>1, <3>2 DEF Sound
    <3>4. QED
      BY <1>b, <2>1, <3>1, <3>2, <3>3, HolderGoesOn
  <2>5. QED
    BY <2>3, <2>4
<1>8. CASE WriteFlow(p)
  <2>1. at[p].pc = "write" /\ UNCHANGED <<outbox, clock>>
    BY <1>8 DEF WriteFlow, At
  <2>2. at[p].stage \in {"start", "acknowledge", "finish", "enqueue", "sync"}
    <3>1. at[p].stage \in Stage /\ at[p].stage # ""
      BY <2>1 DEF Staged, Ready, Locals
    <3>2. QED
      BY <3>1 DEF Stage
  <2>3. CASE at[p].stage = "sync"
    <3>1. l = Idle
      BY <1>8, <2>3 DEF WriteFlow, Continue, Onward, Stop, Become, TypeOK
    <3>2. QED
      BY <1>b, <1>c, <2>1, <3>1, HolderGoesOn
  <2>4. CASE at[p].stage # "sync"
    <3>1. Onward(at[p].stage) \in {"run", "continue", "outbound", "deliver"}
      BY <2>2, <2>4 DEF Onward
    <3>2. at' = [at EXCEPT ![p] = [at[p] EXCEPT !.pc = Onward(at[p].stage)]]
      BY <1>8, <3>1 DEF WriteFlow, Continue, Goto, Become
    <3>3. l = [at[p] EXCEPT !.pc = Onward(at[p].stage)]
      BY <3>2 DEF TypeOK
    <3>4. l.pc \in {"run", "continue", "outbound", "deliver"} /\ l.since = at[p].since
      BY <3>1, <3>3 DEF Locals
    <3>5. ~(at[p].since > 0)
      BY <1>a, <2>1, <2>4 DEF Placed
    <3>6. l.pc # "send" /\ l.pc # "claim" /\ ~(l.since > 0)
      BY <3>4, <3>5
    <3>7. QED
      BY <1>b, <2>1, <3>6, HoldsNone
  <2>5. QED
    BY <2>3, <2>4
<1>9. QED
  BY <1>2, <1>3, <1>4, <1>5, <1>6, <1>7, <1>8 DEF OutboxStep

(* A turn and what follows it, and the steps that begin, hold no message.  *)
LEMMA ZeroIsNever == ~(0 > 0)
  OBVIOUS

LEMMA ReadsHoldNone ==
  ASSUME TypeOK, SenderInv, NEW p \in Process, NEW stage \in Stage \ {""}, NEW to,
         ReadFlow(p, stage, to), UNCHANGED <<outbox, clock>>, ~(at[p].since > 0)
  PROVE  SenderInv'
<1> DEFINE l == at'[p]
<1>1. (\A q \in Process : q # p => at'[q] = at[q]) /\ at[p] \in Locals
  BY DEF ReadFlow, Continue, Stop, Goto, Become, TypeOK
<1>2. \/ l = Idle
      \/ \E label \in {"run", "continue", "outbound", "deliver"} : l = [at[p] EXCEPT !.pc = label]
      \/ l = [at[p] EXCEPT !.pc = "write", !.stage = stage, !.to = to]
  <2>1. Refused(stage) \in {"run", "continue", "outbound", "deliver", "idle"}
    BY DEF Refused, Onward, Stage
  <2>2. ASSUME NEW label \in {"run", "continue", "outbound", "deliver", "idle"}, Continue(p, label)
        PROVE  l = Idle \/ (label # "idle" /\ l = [at[p] EXCEPT !.pc = label])
    BY <2>2 DEF Continue, Stop, Goto, Become, TypeOK
  <2>3. CASE Continue(p, Refused(stage))
    BY <2>1, <2>2, <2>3
  <2>4. CASE Continue(p, IF stage = "start" THEN "run" ELSE "idle")
    BY <2>2, <2>4
  <2>5. CASE Become(p, [at[p] EXCEPT !.pc = "write", !.stage = stage, !.to = to])
    BY <2>5 DEF Become, TypeOK
  <2>6. QED
    BY <2>3, <2>4, <2>5 DEF ReadFlow
<1>3. /\ l = Idle \/ l.pc \in {"run", "continue", "outbound", "deliver", "write"}
      /\ l = Idle \/ l.since = at[p].since
  BY <1>1, <1>2 DEF Locals
<1>4. ASSUME l # Idle PROVE l.pc # "send" /\ l.pc # "claim" /\ ~(l.since > 0)
  BY <1>3, <1>4
<1>5. l.pc # "send" /\ l.pc # "claim" /\ ~(l.since > 0)
  <2>1. CASE l = Idle
    <3>1. l.pc = "idle" /\ l.since = 0
      BY <2>1, IdleTyped
    <3>2. QED
      BY <3>1, ZeroIsNever, Zenon
  <2>2. QED
    BY <1>4, <2>1
<1>6. QED
  BY <1>1, <1>5, HoldsNone

LEMMA TurnSenders ==
  ASSUME TypeOK, TypeOK', Staged, DeliveryInv, SenderInv, OneTextAtATime, InTime,
         NEW p \in Process, TurnStep(p)
  PROVE  SenderInv'
<1> DEFINE m == at[p].m  row == outbox[m]  l == at'[p]
<1> USE DEF bounds, tables
<1> at[p] \in Locals /\ l \in Locals /\ m \in Message
  BY DEF TypeOK, Locals
<1>a. at[p].pc \in {"start", "run", "ack", "fail", "acknowledge", "continue", "record",
                    "finish", "outbound", "enqueue", "deliver"} => ~(at[p].since > 0)
  BY DEF DeliveryInv, Placed
<1>b. \A q \in Process : q # p => at'[q] = at[q]
  BY DEF TurnStep, StartFlow, RunEnds, AckTurn, FailTurn, AfterFailure, Acknowledge,
         QueueContinuation, Record, FinishFlow, WriteFlow, Outbound, EnqueueFlow, DeliverNow,
         ReadFlow, Continue, Become, Goto, Stop, TypeOK
<1>1. CASE StartFlow(p) \/ Acknowledge(p) \/ FinishFlow(p) \/ EnqueueFlow(p)
  BY <1>1, <1>a, ReadsHoldNone DEF StartFlow, Acknowledge, FinishFlow, EnqueueFlow, At, Stage
<1>2. CASE RunEnds(p) \/ AckTurn(p) \/ FailTurn(p) \/ QueueContinuation(p) \/ Record(p)
  <2>1. ~(at[p].since > 0) /\ UNCHANGED <<outbox, clock>>
    BY <1>2, <1>a DEF RunEnds, AckTurn, FailTurn, QueueContinuation, Record, At
  <2>2. l = Idle \/ (l.since = at[p].since /\ l.pc \in {"ack", "fail", "acknowledge", "finish", "record"})
    <3>1. CASE RunEnds(p)
      <4>1. PICK end \in {"ack", "fail"} : l = [at[p] EXCEPT !.pc = end]
        BY <3>1 DEF RunEnds, Become, Goto, TypeOK
      <4>2. QED
        BY <4>1 DEF Locals
    <3>2. CASE AckTurn(p)
      BY <3>2 DEF AckTurn, Become, TypeOK, Locals
    <3>3. CASE FailTurn(p)
      <4>1. l = Idle \/ l = [at[p] EXCEPT !.pc = "finish", !.ok = FALSE, !.trying = FALSE]
        BY <3>3 DEF FailTurn, AfterFailure, Become, Stop, TypeOK
      <4>2. QED
        BY <4>1 DEF Locals
    <3>4. CASE QueueContinuation(p)
      BY <3>4 DEF QueueContinuation, Become, Goto, TypeOK, Locals
    <3>5. CASE Record(p)
      BY <3>5 DEF Record, Become, Stop, TypeOK
    <3>6. QED
      BY <1>2, <3>1, <3>2, <3>3, <3>4, <3>5
  <2>3. l.pc # "send" /\ l.pc # "claim" /\ ~(l.since > 0)
    BY <2>1, <2>2, IdleTyped
  <2>4. QED
    BY <1>b, <2>1, <2>3, HoldsNone
<1>3. CASE WriteFlow(p)
  BY <1>3, OutboxSenders
<1>4. CASE Outbound(p)
  <2>1. ~(at[p].since > 0) /\ UNCHANGED clock
    BY <1>4, <1>a DEF Outbound, At
  <2>2. l = Idle \/ (l.since = at[p].since /\ l.pc \in {"enqueue", "deliver"})
    BY <1>4 DEF Outbound, Become, Goto, Stop, TypeOK, Locals
  <2>3. l.pc # "send" /\ l.pc # "claim" /\ ~(l.since > 0)
    BY <2>1, <2>2, IdleTyped
  <2>4. CASE UNCHANGED outbox
    BY <1>b, <2>1, <2>3, <2>4, HoldsNone
  <2>5. CASE outbox[m].status = "absent"
    <3>1. \A n \in Message : n # m => outbox'[n] = outbox[n]
      BY <1>4, <2>5 DEF Outbound, PutMessage, TypeOK
    <3>2. \A q \in Process : ~(at[q].m = m /\ Holds(at[q]))
      BY <2>5 DEF SenderInv, Sound
    <3>3. Sound(l, outbox'[l.m], clock) /\ ~Holds(l)
      BY <2>3 DEF Sound, Holds
    <3>4. QED
      BY <1>b, <2>1, <3>1, <3>2, <3>3, HolderMoves
  <2>6. QED
    BY <1>4, <2>4, <2>5 DEF Outbound
<1>5. CASE DeliverNow(p)
  <2>1. ~(at[p].since > 0) /\ UNCHANGED <<outbox, clock>>
    BY <1>5, <1>a DEF DeliverNow, At
  <2>2. \/ l = Idle
        \/ l.since = at[p].since /\ (l.pc = "sync" \/ (l.pc = "claim" /\ l.row.status = "queued"))
    <3>1. CASE row.status = "sent"
      <4>1. l = [at[p] EXCEPT !.pc = "sync", !.row = row, !.ok = TRUE]
        BY <1>5, <3>1 DEF DeliverNow, Become, TypeOK
      <4>2. l.since = at[p].since /\ l.pc = "sync"
        BY <4>1 DEF Locals
      <4>3. QED
        BY <4>2
    <3>2. CASE row.status = "queued"
      BY <1>5, <3>2 DEF DeliverNow, Become, TypeOK, Locals
    <3>3. CASE row.status \notin {"sent", "queued"}
      BY <1>5, <3>3 DEF DeliverNow, Become, Stop, TypeOK
    <3>4. QED
      BY <3>1, <3>2, <3>3
  <2>3. /\ l.pc # "send" /\ ~(l.since > 0)
        /\ l.pc = "claim" => l.row.status \in {"queued", "delivering", "failed"}
    BY <2>1, <2>2, IdleTyped
  <2>4. QED
    BY <1>b, <2>1, <2>3, HoldsNone
<1>6. QED
  BY <1>1, <1>2, <1>3, <1>4, <1>5 DEF TurnStep

LEMMA BeginSenders ==
  ASSUME TypeOK, TypeOK', DeliveryInv, SenderInv, NEW p \in Process,
         \/ \E m \in Message : SelectMessage(p, m) \/ ReadRequest(p, m)
         \/ CreateFlow(p)
         \/ \E f \in Flow : CreateTurn(p, f)
         \/ \E f \in Flow, k \in Kind : ClaimTurn(p, f, k) \/ StaleTurn(p, f, k)
         \/ \E f \in Flow : Recover(p, f) \/ ReconcileFlow(p, f)
  PROVE  SenderInv'
<1> DEFINE l == at'[p]
<1> USE DEF bounds, tables
<1> Idle \in Locals /\ Idle.since = 0 /\ Idle.pc = "idle"
  BY IdleTyped DEF Ready
<1>1. UNCHANGED <<outbox, clock>>
  BY DEF SelectMessage, ReadRequest, CreateFlow, CreateTurn, ClaimTurn, StaleTurn, Recover, ReconcileFlow
<1>2. \A q \in Process : q # p => at'[q] = at[q]
  BY DEF SelectMessage, ReadRequest, CreateFlow, CreateTurn, ClaimTurn, StaleTurn, Recover,
         ReconcileFlow, Become, Stop, TypeOK
<1>3. CASE \E m \in Message : SelectMessage(p, m)
  <2>1. PICK m \in Message : SelectMessage(p, m)
    BY <1>3
  <2>2. l = [Idle EXCEPT !.pc = "claim", !.m = m, !.row = outbox[m]]
    BY <2>1 DEF SelectMessage, Become, TypeOK
  <2>3. l.pc = "claim" /\ l.row = outbox[m] /\ l.since = 0
    BY <2>2 DEF Locals
  <2>4. outbox[m].status \in {"queued", "delivering", "failed"}
    BY <2>1 DEF SelectMessage, Deliverable, StaleDelivery
  <2>5. l.pc # "send" /\ ~(l.since > 0) /\ l.row.status \in {"queued", "delivering", "failed"}
    BY <2>3, <2>4
  <2>6. QED
    BY <1>1, <1>2, <2>5, HoldsNone
<1>4. CASE \/ \E m \in Message : ReadRequest(p, m)
           \/ CreateFlow(p)
           \/ \E f \in Flow : CreateTurn(p, f)
           \/ \E f \in Flow, k \in Kind : ClaimTurn(p, f, k) \/ StaleTurn(p, f, k)
           \/ \E f \in Flow : Recover(p, f) \/ ReconcileFlow(p, f)
  <2>1. l = Idle \/ (l.since = 0 /\ l.pc \notin {"claim", "send"})
    <3>1. CASE \E m \in Message : ReadRequest(p, m)
      <4>1. PICK m \in Message : l = [Idle EXCEPT !.pc = "replace", !.m = m]
        BY <3>1 DEF ReadRequest, Become, TypeOK
      <4>2. QED
        BY <4>1 DEF Locals
    <3>2. CASE CreateFlow(p)
      BY <3>2 DEF CreateFlow, Stop, Become, TypeOK
    <3>3. CASE \E f \in Flow : CreateTurn(p, f)
      <4>1. PICK f \in Flow : l = [Idle EXCEPT !.pc = "create flow", !.m = f]
        BY <3>3 DEF CreateTurn, Become, TypeOK
      <4>2. QED
        BY <4>1 DEF Locals
    <3>4. CASE \E f \in Flow, k \in Kind : ClaimTurn(p, f, k)
      <4>1. PICK f \in Flow, k \in Kind :
                l = [Idle EXCEPT !.pc = "start", !.m = f, !.kind = k, !.trying = TRUE,
                                 !.attempt = turn[f][k].attempt + 1]
        BY <3>4 DEF ClaimTurn, Become, TypeOK
      <4>2. QED
        BY <4>1 DEF Locals
    <3>5. CASE \E f \in Flow, k \in Kind : StaleTurn(p, f, k)
      <4>1. PICK f \in Flow, k \in Kind :
                l = Idle \/ l = [Idle EXCEPT !.pc = "finish", !.m = f, !.kind = k]
        BY <3>5 DEF StaleTurn, Stop, Become, TypeOK
      <4>2. QED
        BY <4>1 DEF Locals
    <3>6. CASE \E f \in Flow : Recover(p, f)
      <4>1. PICK f \in Flow : l = [Idle EXCEPT !.pc = "continue", !.m = f]
        BY <3>6 DEF Recover, Become, TypeOK
      <4>2. QED
        BY <4>1 DEF Locals
    <3>7. CASE \E f \in Flow : ReconcileFlow(p, f)
      <4>1. PICK f \in Flow :
                \/ l = at[p] /\ at[p].pc = "idle"
                \/ l = [Idle EXCEPT !.pc = "sync", !.m = f, !.row = outbox[f],
                                    !.ok = outbox[f].status = "sent"]
        BY <3>7 DEF ReconcileFlow, Become, At, TypeOK
      <4>2. CASE l = at[p] /\ at[p].pc = "idle"
        <5>1. ~(at[p].since > 0) /\ at[p].since \in Nat
          BY <4>2 DEF DeliveryInv, Placed, TypeOK, Locals
        <5>2. QED
          BY <4>2, <5>1
      <4>3. QED
        BY <4>1, <4>2 DEF Locals
    <3>8. QED
      BY <1>4, <3>1, <3>2, <3>3, <3>4, <3>5, <3>6, <3>7
  <2>2. l.pc # "send" /\ l.pc # "claim" /\ ~(l.since > 0)
    <3>1. CASE l = Idle
      BY <3>1
    <3>2. CASE l.since = 0 /\ l.pc \notin {"claim", "send"}
      BY <3>2
    <3>3. QED
      BY <2>1, <3>1, <3>2
  <2>3. QED
    BY <1>1, <1>2, <2>2, HoldsNone
<1>5. QED
  BY <1>3, <1>4

LEMMA EnvironmentSenders ==
  ASSUME TypeOK, TypeOK', DeliveryInv, SenderInv, InTime, Environment
  PROVE  SenderInv'
<1> USE DEF bounds, tables
<1>0. \A p \in Sender \cup Drain : p \in Process
  BY DEF Process
<1>1. CASE \E m \in Message : EnqueueMessage(m)
  <2> PICK m \in Message : EnqueueMessage(m)
    BY <1>1
  <2>1. /\ outbox[m].status = "absent"
        /\ \A n \in Message : n # m => outbox'[n] = outbox[n]
        /\ UNCHANGED <<clock, at>>
    BY DEF EnqueueMessage, PutMessage, TypeOK
  <2>2. \A q \in Process : at[q].m = m => ~Holds(at[q])
    BY <2>1 DEF SenderInv, Sound
  <2>3. ASSUME NEW q \in Process PROVE Sound(at[q], outbox'[at[q].m], clock)
    <3>1. Sound(at[q], outbox[at[q].m], clock) /\ at[q].m \in Message
      BY DEF SenderInv, TypeOK, Locals
    <3>2. CASE at[q].m = m
      BY <2>2, <3>1, <3>2 DEF Sound
    <3>3. QED
      BY <2>1, <3>1, <3>2
  <2>4. QED
    BY <2>1, <2>3 DEF SenderInv
<1>2. CASE \/ \E s \in Sender : \E f \in Flow : CreateTurn(s, f)
           \/ \E s \in Sender : \E m \in Message : ReadRequest(s, m)
  BY <1>0, <1>2, BeginSenders
<1>3. CASE \E s \in Sender : \E m \in Message : \E status \in MarkedAs : Mark(s, m, status)
  <2> PICK s \in Sender, m \in Message, status \in MarkedAs : Mark(s, m, status)
    BY <1>3
  <2> DEFINE l == at'[s]
  <2>0. s \in Process /\ outbox[m] \in MessageRow /\ status \in {"sent", "cancelled"}
    BY <1>0 DEF TypeOK, InTime
  <2>1. /\ outbox'[m] = [outbox[m] EXCEPT !.status = status,
                                          !.stamp = IF status = "delivering" THEN clock ELSE 0]
        /\ \A n \in Message : n # m => outbox'[n] = outbox[n]
        /\ \A q \in Process : q # s => at'[q] = at[q]
        /\ UNCHANGED clock
    BY DEF Mark, PutMessage, Become, Stop, TypeOK
  <2>2. outbox'[m].status \in {"sent", "cancelled"}
    BY <2>0, <2>1 DEF MessageRow
  <2>3. l = Idle \/ (l.pc = "sync" /\ l.since = 0)
    <3>1. \/ l = Idle
          \/ l = [Idle EXCEPT !.pc = "sync", !.m = m, !.row = outbox[m], !.ok = status = "sent"]
      BY <2>0 DEF Mark, Become, Stop, TypeOK
    <3>2. Idle \in Locals /\ Idle.since = 0
      BY IdleTyped DEF Ready
    <3>3. QED
      BY <3>1, <3>2 DEF Locals
  <2>4. ~(l.since > 0) /\ l.pc # "claim" /\ l.pc # "send"
    BY <2>3, IdleTyped
  <2>5. Sound(l, outbox'[l.m], clock) /\ ~Holds(l)
    BY <2>4 DEF Sound, Holds
  <2>6. QED
    BY <2>0, <2>1, <2>2, <2>5, HolderMoves
<1>4. CASE \E p \in Process : DeliveryThrows(p)
  <2> PICK p \in Process : DeliveryThrows(p)
    BY <1>4
  <2>1. at'[p] = [at[p] EXCEPT !.pc = "failed", !.ok = FALSE] /\ at[p] \in Locals
    BY DEF DeliveryThrows, Become, TypeOK
  <2>2. /\ at'[p].pc = "failed" /\ at'[p].m = at[p].m /\ at'[p].row = at[p].row
        /\ at'[p].since = at[p].since /\ at'[p].web = at[p].web
    BY <2>1 DEF Locals
  <2>3. /\ \A q \in Process : q # p => at'[q] = at[q]
        /\ UNCHANGED <<outbox, clock>>
    BY DEF DeliveryThrows, Become, TypeOK
  <2>4. Holds(at[p]) /\ Sound(at[p], outbox[at[p].m], clock)
    BY DEF DeliveryThrows, At, DeliveryInv, Placed, SenderInv, Holds
  <2>5. Sound(at'[p], outbox[at'[p].m], clock)
    BY <2>2, <2>4 DEF Sound, Timely, Calls
  <2>6. QED
    BY <2>2, <2>3, <2>4, <2>5, HolderGoesOn
<1>5. CASE \/ \E p \in Process : ContinuationFails(p) \/ Crash(p)
           \/ \E d \in Drain : TurnThrows(d)
  <2> PICK p \in Process : ContinuationFails(p) \/ Crash(p) \/ TurnThrows(p)
    BY <1>0, <1>5
  <2>1. /\ \A q \in Process : q # p => at'[q] = at[q]
        /\ UNCHANGED <<outbox, clock>>
        /\ at[p] \in Locals
    BY DEF ContinuationFails, Crash, TurnThrows, Stop, Goto, Become, TypeOK
  <2>2. at'[p] = Idle \/ (at'[p].pc = "fail" /\ ~(at'[p].since > 0))
    <3>1. ASSUME at'[p] # Idle PROVE at'[p].pc = "fail" /\ ~(at'[p].since > 0)
      <4>1. /\ at'[p] = [at[p] EXCEPT !.pc = "fail"]
            /\ at[p].pc \in {"ack", "acknowledge", "record", "finish", "outbound", "enqueue", "deliver"}
        BY <3>1 DEF ContinuationFails, Crash, TurnThrows, Stop, Goto, Become, TypeOK
      <4>2. at'[p].pc = "fail" /\ at'[p].since = at[p].since
        BY <2>1, <4>1 DEF Locals
      <4>3. ~(at[p].since > 0)
        BY <4>1 DEF DeliveryInv, Placed
      <4>4. QED
        BY <4>2, <4>3
    <3>2. QED
      BY <3>1
  <2>3. at'[p].pc # "send" /\ at'[p].pc # "claim" /\ ~(at'[p].since > 0)
    <3>1. CASE at'[p] = Idle
      BY <3>1, IdleTyped
    <3>2. QED
      BY <2>2, <3>1
  <2>4. QED
    BY <2>1, <2>3, HoldsNone
<1>6. CASE CancelTurns
  BY <1>6 DEF CancelTurns, SenderInv
<1>7. QED
  BY <1>1, <1>2, <1>3, <1>4, <1>5, <1>6 DEF Environment

LEMMA TimeSenders ==
  ASSUME TypeOK, DeliveryInv, SenderInv, TimePasses
  PROVE  SenderInv'
<1>1. UNCHANGED <<at, outbox>> /\ clock' = clock + 1
  BY DEF TimePasses, tables
<1>2. ASSUME NEW p \in Process PROVE Sound(at[p], outbox[at[p].m], clock + 1)
  <2> DEFINE l == at[p]  row == outbox[at[p].m]
  <2>1. Sound(l, row, clock)
    BY DEF SenderInv
  <2>2. CASE Holds(l) /\ row.status = "delivering"
    <3>1. l.pc = "send" /\ l.row.receipts # Parts /\ clock < l.since + PartTime
      BY <2>1, <2>2 DEF TimePasses, At, AllSent, Sound
    <3>2. clock \in Nat /\ l.since \in Nat /\ PartTime \in Nat
      BY DeliveryAssumption DEF TypeOK, Locals
    <3>3. clock + 1 <= l.since + PartTime
      BY <3>1, <3>2
    <3>4. Timely(l, row, clock + 1)
      BY <2>1, <2>2, <3>1, <3>3 DEF Sound, Timely
    <3>5. QED
      BY <2>1, <3>4 DEF Sound
  <2>3. CASE ~(Holds(l) /\ row.status = "delivering")
    BY <2>1, <2>3 DEF Sound
  <2>4. QED
    BY <2>2, <2>3
<1>3. QED
  BY <1>1, <1>2 DEF SenderInv

LEMMA Hold ==
  ASSUME OneTextAtATime, InTime
  PROVE  Spec => [](TypeOK /\ Staged /\ DeliveryInv /\ SenderInv)
<1>1. ASSUME Init PROVE SenderInv
  <2>1. \A p \in Process : at[p] = Idle
    BY <1>1 DEF Init
  <2>2. QED
    BY <2>1, IdleTyped DEF SenderInv, Sound, Holds
<1>2. ASSUME TypeOK, Staged, DeliveryInv, SenderInv, [Next]_vars PROVE SenderInv'
  <2>0. TypeOK' /\ \A p \in Sender \cup Drain \cup Reconciler : p \in Process
    BY <1>2, NextTypes DEF Process
  <2>1. CASE HandlerStep
    <3>1. CASE \E s \in Sender : SenderStep(s)
      BY <1>2, <2>0, <3>1, OutboxSenders, BeginSenders DEF SenderStep
    <3>2. CASE \E d \in Drain : DrainStep(d)
      BY <1>2, <2>0, <3>2, OutboxSenders, TurnSenders, BeginSenders DEF DrainStep
    <3>3. CASE \E q \in Reconciler : ReconcilerStep(q)
      BY <1>2, <2>0, <3>3, OutboxSenders, TurnSenders, BeginSenders DEF ReconcilerStep
    <3>4. QED
      BY <2>1, <3>1, <3>2, <3>3 DEF HandlerStep
  <2>2. CASE Environment
    BY <1>2, <2>0, <2>2, EnvironmentSenders
  <2>3. CASE TimePasses
    BY <1>2, <2>3, TimeSenders
  <2>4. CASE UNCHANGED vars
    BY <1>2, <2>4 DEF vars, tables, SenderInv
  <2>5. QED
    BY <1>2, <2>1, <2>2, <2>3, <2>4 DEF Next
<1>3. Init => TypeOK /\ Staged /\ DeliveryInv /\ SenderInv
  BY <1>1, InitTypes, InitInv
<1>4. TypeOK /\ Staged /\ DeliveryInv /\ SenderInv /\ [Next]_vars
          => (TypeOK /\ Staged /\ DeliveryInv /\ SenderInv)'
  BY <1>2, NextTypes, NextInv
<1>5. QED
  BY <1>3, <1>4, PTL DEF Spec

(* While a process sends a message nobody else sends it: the UPDATE that   *)
(* names the status read is won by one, a delivery that has not run into   *)
(* its lease is not taken over, and a row that an operator marks is out of *)
(* reach (claimTelegramOutboxDelivery).                                    *)
THEOREM OneSenderHolds ==
  ASSUME OneTextAtATime, InTime
  PROVE  Spec => []OneSender
<1>1. DeliveryInv /\ SenderInv => OneSender
  BY DEF DeliveryInv, Placed, SenderInv, OneSender, Sending, Holds
<1>2. QED
  BY <1>1, Hold, PTL

-----------------------------------------------------------------------------
(* What the person who asked is told                                       *)

(* No statement throws, and no dispatch is taken for stale that still runs.*)
Punctual == MaxFaults = 0 /\ ~LateTurns

(* l runs a turn and has not yet written how it ended.                     *)
Pre(l) == l.pc \in {"start", "run", "ack", "fail"} \/ (l.pc = "write" /\ l.stage = "start")

(* What the dispatches t of a flow f have come to.                         *)
Completed(f, t) == \E k \in Kind : t[k].status = "acked" /\ ~IsAck(f, k)
Failed(t) == \E k \in Kind : t[k].status = "failed"
Acked(f, t) == f \in AckFirst /\ t["first"].status = "acked"

Concluded(to, f, t) ==
    (to = "runtime_completed" /\ Completed(f, t)) \/ (to = "runtime_failed" /\ Failed(t))

Answered(text, parts) == {text} \X (1..Parts) \subseteq parts

(* What process p takes for granted of the flow it works on.               *)
Knows(p, l, t, row, parts) ==
    /\ Pre(l) => p \in Drain /\ t[l.kind].status = "sent"
    /\ l.pc \in {"acknowledge", "continue"} => Acked(l.m, t)
    /\ l.pc = "finish" => IF l.ok THEN Completed(l.m, t) ELSE Failed(t)
    /\ l.pc = "outbound" => Concluded(l.to, l.m, t)
    /\ l.pc = "write" /\ l.stage = "finish" => Concluded(l.to, l.m, t)
    /\ l.pc = "write" /\ l.stage = "acknowledge" => Acked(l.m, t)
    /\ l.pc = "write" /\ l.to = "runtime_acknowledged" => Acked(l.m, t)
    /\ l.pc = "sync" /\ l.ok => row.status # "absent" /\ Answered(row.text, parts)
    /\ l.pc = "write" /\ l.to = "telegram_sent" => Answered(Output, parts)

(* What the tables say of a flow f agrees.                                 *)
Tells(f, r, t, row, parts) ==
    /\ r.output => Completed(f, t)
    /\ r.status = "runtime_acknowledged" => Acked(f, t)
    /\ r.status = "telegram_sent" => Answered(Output, parts)
    /\ row.status # "absent" => (row.text = Output /\ Completed(f, t)) \/ (row.text = Notice /\ Failed(t))
    /\ \A part \in 1..Parts : <<Notice, part>> \in parts => Failed(t)
    /\ t["semantic"].status # "absent" => Acked(f, t)

AnswerInv ==
    /\ \A p, q \in Process :
          Pre(at[p]) /\ Pre(at[q]) /\ at[p].m = at[q].m /\ at[p].kind = at[q].kind => p = q
    /\ \A p \in Process : at[p].m \in Flow =>
          Knows(p, at[p], turn[at[p].m], outbox[at[p].m], posted[at[p].m])
    /\ \A f \in Flow : Tells(f, flow[f], turn[f], outbox[f], posted[f])

(* A flow of which a turn answered has none that failed.                   *)
LEMMA Verdict ==
  ASSUME NEW f, NEW t, t["semantic"].status # "absent" => Acked(f, t)
  PROVE  /\ ~(Completed(f, t) /\ Failed(t))
         /\ Failed(t) => \A k \in Kind : t[k].status \notin {"queued", "sent"}
<1>1. \A k \in Kind : k = "first" \/ k = "semantic"
  BY DEF Kind
<1>2. CASE t["semantic"].status = "absent"
  BY <1>1, <1>2 DEF Completed, Failed
<1>3. CASE Acked(f, t)
  BY <1>1, <1>3 DEF Completed, Failed, Acked, IsAck
<1>4. QED
  BY <1>2, <1>3

(* What has ended stays ended.                                             *)
LEMMA Lasting ==
  ASSUME NEW f, NEW t, NEW u,
         \A k \in Kind : t[k].status \in {"acked", "failed"} => u[k].status = t[k].status
  PROVE  /\ Completed(f, t) => Completed(f, u)
         /\ Failed(t) => Failed(u)
         /\ Acked(f, t) => Acked(f, u)
         /\ \A to : Concluded(to, f, t) => Concluded(to, f, u)
<1>1. Completed(f, t) => Completed(f, u)
  BY DEF Completed
<1>2. Failed(t) => Failed(u)
  BY DEF Failed
<1>3. Acked(f, t) => Acked(f, u)
  BY DEF Acked, Kind
<1>4. QED
  BY <1>1, <1>2, <1>3 DEF Concluded

LEMMA KnowsStays ==
  ASSUME NEW p, NEW l, NEW t, NEW u, NEW row, NEW later, NEW parts, NEW more,
         \A k \in Kind : t[k].status \in {"acked", "failed"} => u[k].status = t[k].status,
         row.status # "absent" => later.status # "absent" /\ later.text = row.text,
         parts \subseteq more,
         Pre(l) => u[l.kind].status = "sent",
         Knows(p, l, t, row, parts)
  PROVE  Knows(p, l, u, later, more)
<1>1. /\ Completed(l.m, t) => Completed(l.m, u)
      /\ Failed(t) => Failed(u)
      /\ Acked(l.m, t) => Acked(l.m, u)
      /\ Concluded(l.to, l.m, t) => Concluded(l.to, l.m, u)
  BY Lasting
<1>2. \A text : Answered(text, parts) => Answered(text, more)
  BY DEF Answered
<1>3. QED
  BY <1>1, <1>2 DEF Knows

LEMMA TellsStays ==
  ASSUME NEW f, NEW r, NEW t, NEW u, NEW row, NEW parts,
         \A k \in Kind : t[k].status \in {"acked", "failed"} => u[k].status = t[k].status,
         u["semantic"].status = t["semantic"].status \/ Acked(f, t),
         Tells(f, r, t, row, parts)
  PROVE  Tells(f, r, u, row, parts)
<1>1. /\ Completed(f, t) => Completed(f, u)
      /\ Failed(t) => Failed(u)
      /\ Acked(f, t) => Acked(f, u)
  BY Lasting
<1>2. u["semantic"].status # "absent" => Acked(f, u)
  BY <1>1 DEF Tells
<1>3. QED
  BY <1>1, <1>2 DEF Tells

LEMMA AnswerMoves ==
  ASSUME TypeOK, AnswerInv, NEW p \in Process,
         \A q \in Process : q # p => at'[q] = at[q],
         \A f \in Flow, k \in Kind :
             turn[f][k].status \in {"acked", "failed"} => turn'[f][k].status = turn[f][k].status,
         \A q \in Process : q # p /\ at[q].m \in Flow /\ Pre(at[q])
             => turn'[at[q].m][at[q].kind].status = "sent",
         \A f \in Flow :
             /\ posted[f] \subseteq posted'[f]
             /\ outbox[f].status # "absent"
                    => outbox'[f].status # "absent" /\ outbox'[f].text = outbox[f].text,
         at'[p].m \in Flow
             => Knows(p, at'[p], turn'[at'[p].m], outbox'[at'[p].m], posted'[at'[p].m]),
         Pre(at'[p]) => \A q \in Process : q # p
             => ~(Pre(at[q]) /\ at[q].m = at'[p].m /\ at[q].kind = at'[p].kind),
         \A f \in Flow : Tells(f, flow'[f], turn'[f], outbox'[f], posted'[f])
  PROVE  AnswerInv'
<1>1. ASSUME NEW q \in Process, at'[q].m \in Flow
      PROVE  Knows(q, at'[q], turn'[at'[q].m], outbox'[at'[q].m], posted'[at'[q].m])
  <2>1. CASE q # p
    <3>1. at'[q] = at[q] /\ at[q].m \in Flow
      BY <1>1, <2>1
    <3>2. Knows(q, at[q], turn[at[q].m], outbox[at[q].m], posted[at[q].m])
      BY <3>1 DEF AnswerInv
    <3>3. Pre(at[q]) => turn'[at[q].m][at[q].kind].status = "sent"
      BY <2>1, <3>1
    <3>4. Knows(q, at[q], turn'[at[q].m], outbox'[at[q].m], posted'[at[q].m])
      BY <3>1, <3>2, <3>3, KnowsStays
    <3>5. QED
      BY <3>1, <3>4
  <2>2. QED
    BY <1>1, <2>1
<1>2. ASSUME NEW q \in Process, NEW r \in Process,
             Pre(at'[q]), Pre(at'[r]), at'[q].m = at'[r].m, at'[q].kind = at'[r].kind
      PROVE  q = r
  BY <1>2 DEF AnswerInv
<1>3. QED
  BY <1>1, <1>2 DEF AnswerInv

(* The tables stay.                                                        *)
LEMMA AnswerGoesOn ==
  ASSUME TypeOK, AnswerInv, NEW p \in Process,
         \A q \in Process : q # p => at'[q] = at[q],
         UNCHANGED <<turn, flow, outbox, posted>>,
         at'[p].m \in Flow
             => Knows(p, at'[p], turn[at'[p].m], outbox[at'[p].m], posted[at'[p].m]),
         Pre(at'[p]) => Pre(at[p]) /\ at'[p].m = at[p].m /\ at'[p].kind = at[p].kind
  PROVE  AnswerInv'
<1>1. \A q \in Process : at[q].m \in Flow /\ Pre(at[q]) => turn'[at[q].m][at[q].kind].status = "sent"
  BY DEF AnswerInv, Knows
<1>2. Pre(at'[p]) => \A q \in Process : q # p
          => ~(Pre(at[q]) /\ at[q].m = at'[p].m /\ at[q].kind = at'[p].kind)
  BY DEF AnswerInv
<1>3. \A f \in Flow : Tells(f, flow'[f], turn'[f], outbox'[f], posted'[f])
  BY DEF AnswerInv
<1>4. QED
  BY <1>1, <1>2, <1>3, AnswerMoves

(* One dispatch changes that has not ended and that nobody else runs.      *)
LEMMA TurnMoves ==
  ASSUME TypeOK, AnswerInv, NEW p \in Process, NEW f \in Flow, NEW k \in Kind,
         \A q \in Process : q # p => at'[q] = at[q],
         UNCHANGED <<flow, outbox, posted>>,
         \A g \in Flow, j \in Kind : g # f \/ j # k => turn'[g][j] = turn[g][j],
         turn[f][k].status \notin {"acked", "failed"},
         k = "semantic" => Acked(f, turn[f]),
         \A q \in Process : q # p => ~(Pre(at[q]) /\ at[q].m = f /\ at[q].kind = k),
         at'[p].m \in Flow
             => Knows(p, at'[p], turn'[at'[p].m], outbox[at'[p].m], posted[at'[p].m]),
         Pre(at'[p]) => at'[p].m = f /\ at'[p].kind = k
  PROVE  AnswerInv'
<1>1. \A g \in Flow, j \in Kind :
          turn[g][j].status \in {"acked", "failed"} => turn'[g][j].status = turn[g][j].status
  OBVIOUS
<1>2. ASSUME NEW q \in Process, q # p, at[q].m \in Flow, Pre(at[q])
      PROVE  turn'[at[q].m][at[q].kind].status = "sent"
  <2>1. turn[at[q].m][at[q].kind].status = "sent" /\ at[q].kind \in Kind
    BY <1>2 DEF AnswerInv, Knows, TypeOK, Locals
  <2>2. QED
    BY <1>2, <2>1
<1>3. ASSUME NEW g \in Flow PROVE Tells(g, flow'[g], turn'[g], outbox'[g], posted'[g])
  <2>1. Tells(g, flow[g], turn[g], outbox[g], posted[g])
    BY DEF AnswerInv
  <2>2. turn'[g]["semantic"].status = turn[g]["semantic"].status \/ Acked(g, turn[g])
    BY DEF Kind
  <2>3. \A j \in Kind :
          turn[g][j].status \in {"acked", "failed"} => turn'[g][j].status = turn[g][j].status
    BY <1>1
  <2>4. Tells(g, flow[g], turn'[g], outbox[g], posted[g])
    BY <2>1, <2>2, <2>3, TellsStays
  <2>5. QED
    BY <2>4
<1>4. Pre(at'[p]) => \A q \in Process : q # p
          => ~(Pre(at[q]) /\ at[q].m = at'[p].m /\ at[q].kind = at'[p].kind)
  OBVIOUS
<1>5. QED
  BY <1>1, <1>2, <1>3, <1>4, AnswerMoves

(* Places where a process takes nothing for granted.                       *)
Unaware == {"idle", "create flow", "replace", "claim", "send", "failed", "record",
            "enqueue", "deliver"}

LEMMA KnowsNothing ==
  ASSUME NEW p, NEW l, l.pc \in Unaware, NEW t, NEW row, NEW parts
  PROVE  ~Pre(l) /\ Knows(p, l, t, row, parts)
  BY DEF Pre, Knows, Unaware

LEMMA AnswerRests ==
  ASSUME TypeOK, AnswerInv, NEW p \in Process,
         \A q \in Process : q # p => at'[q] = at[q],
         UNCHANGED <<turn, flow, outbox, posted>>,
         at'[p] = Idle \/ at'[p].pc \in Unaware
  PROVE  AnswerInv'
<1>1. at'[p].pc \in Unaware
  BY IdleTyped DEF Unaware
<1>2. /\ ~Pre(at'[p])
      /\ Knows(p, at'[p], turn[at'[p].m], outbox[at'[p].m], posted[at'[p].m])
  BY <1>1, KnowsNothing
<1>3. QED
  BY <1>2, AnswerGoesOn

(* A call of updateMessageFlow, up to its write.                           *)
LEMMA ReadsAnswer ==
  ASSUME TypeOK, AnswerInv, NEW p \in Process, NEW stage \in Stage \ {""}, NEW to,
         ReadFlow(p, stage, to), UNCHANGED <<turn, flow, outbox, posted>>, at[p].m \in Flow,
         stage = "start" => Pre(at[p]),
         stage = "acknowledge" \/ to = "runtime_acknowledged" => Acked(at[p].m, turn[at[p].m]),
         stage = "finish" => Concluded(to, at[p].m, turn[at[p].m]),
         to = "telegram_sent" => Answered(Output, posted[at[p].m])
  PROVE  AnswerInv'
<1> DEFINE l == at'[p]  f == at[p].m
<1>1. (\A q \in Process : q # p => at'[q] = at[q]) /\ at[p] \in Locals
  BY DEF ReadFlow, Continue, Stop, Goto, Become, TypeOK
<1>2. \/ l = Idle
      \/ stage = "start" /\ l = [at[p] EXCEPT !.pc = "run"]
      \/ stage = "acknowledge" /\ l = [at[p] EXCEPT !.pc = "continue"]
      \/ stage = "enqueue" /\ l = [at[p] EXCEPT !.pc = "deliver"]
      \/ l = [at[p] EXCEPT !.pc = "write", !.stage = stage, !.to = to]
  <2>1. \/ stage = "start" /\ Refused(stage) = "run"
        \/ stage = "acknowledge" /\ Refused(stage) = "continue"
        \/ stage = "enqueue" /\ Refused(stage) = "deliver"
        \/ Refused(stage) = "idle"
    BY DEF Refused, Onward, Stage
  <2>2. ASSUME NEW label \in {"run", "continue", "deliver", "idle"}, Continue(p, label)
        PROVE  (label = "idle" /\ l = Idle) \/ (label # "idle" /\ l = [at[p] EXCEPT !.pc = label])
    BY <2>2 DEF Continue, Stop, Goto, Become, TypeOK
  <2>3. CASE Continue(p, Refused(stage))
    BY <2>1, <2>2, <2>3
  <2>4. CASE Continue(p, IF stage = "start" THEN "run" ELSE "idle")
    BY <2>2, <2>4
  <2>5. CASE Become(p, [at[p] EXCEPT !.pc = "write", !.stage = stage, !.to = to])
    BY <2>5 DEF Become, TypeOK
  <2>6. QED
    BY <2>3, <2>4, <2>5 DEF ReadFlow
<1>3. ASSUME NEW pc \in {"run", "continue", "deliver"}, l = [at[p] EXCEPT !.pc = pc]
      PROVE  l.pc = pc /\ l.m = f /\ l.kind = at[p].kind
  BY <1>1, <1>3 DEF Locals
<1>4. CASE l = Idle \/ (stage = "enqueue" /\ l = [at[p] EXCEPT !.pc = "deliver"])
  <2>1. l = Idle \/ l.pc = "deliver"
    BY <1>3, <1>4
  <2>2. l = Idle \/ l.pc \in Unaware
    BY <2>1 DEF Unaware
  <2>3. QED
    BY <1>1, <2>2, AnswerRests
<1>5. CASE stage = "start" /\ l = [at[p] EXCEPT !.pc = "run"]
  <2>1. l.pc = "run" /\ l.m = f /\ l.kind = at[p].kind
    BY <1>3, <1>5
  <2>2. Pre(at[p]) /\ Knows(p, at[p], turn[f], outbox[f], posted[f])
    BY <1>5 DEF AnswerInv
  <2>3. Knows(p, l, turn[f], outbox[f], posted[f])
    BY <2>1, <2>2 DEF Knows, Pre
  <2>4. QED
    BY <1>1, <2>1, <2>2, <2>3, AnswerGoesOn
<1>6. CASE stage = "acknowledge" /\ l = [at[p] EXCEPT !.pc = "continue"]
  <2>1. l.pc = "continue" /\ l.m = f
    BY <1>3, <1>6
  <2>2. ~Pre(l) /\ Knows(p, l, turn[f], outbox[f], posted[f])
    BY <1>6, <2>1 DEF Knows, Pre
  <2>3. QED
    BY <1>1, <2>1, <2>2, AnswerGoesOn
<1>7. CASE l = [at[p] EXCEPT !.pc = "write", !.stage = stage, !.to = to]
  <2>1. l.pc = "write" /\ l.stage = stage /\ l.to = to /\ l.m = f /\ l.kind = at[p].kind
    BY <1>1, <1>7 DEF Locals
  <2>2. Knows(p, at[p], turn[f], outbox[f], posted[f])
    BY DEF AnswerInv
  <2>3. Pre(l) => Pre(at[p])
    BY <2>1 DEF Pre
  <2>4. Pre(l) => p \in Drain /\ turn[f][l.kind].status = "sent"
    BY <2>1, <2>2, <2>3 DEF Knows
  <2>5. Knows(p, l, turn[f], outbox[f], posted[f])
    BY <2>1, <2>4 DEF Knows
  <2>6. QED
    BY <1>1, <2>1, <2>3, <2>5, AnswerGoesOn
<1>8. QED
  BY <1>2, <1>4, <1>5, <1>6, <1>7

LEMMA PutTurnMoves ==
  ASSUME TypeOK, NEW f \in Flow, NEW k \in Kind, NEW status, NEW attempt,
         PutTurn(f, k, status, attempt)
  PROVE  /\ turn'[f][k].status = status
         /\ \A g \in Flow, j \in Kind : g # f \/ j # k => turn'[g][j] = turn[g][j]
  BY DEF PutTurn, TypeOK

(* Steps of a run that change a dispatch, or where a process stands.       *)
LEMMA TurnAnswer ==
  ASSUME TypeOK, TypeOK', DeliveryInv, AnswerInv, NEW p \in Process,
         \/ StartFlow(p) \/ RunEnds(p) \/ AckTurn(p) \/ FailTurn(p) \/ Acknowledge(p)
         \/ QueueContinuation(p) \/ Record(p) \/ FinishFlow(p) \/ EnqueueFlow(p) \/ DeliverNow(p)
  PROVE  AnswerInv'
<1> DEFINE f == at[p].m  k == at[p].kind  l == at'[p]
<1> USE DEF bounds, tables
<1> at[p] \in Locals /\ l \in Locals /\ k \in Kind
  BY DEF TypeOK, Locals
<1>a. f \in Flow
  BY DEF DeliveryInv, Placed, TurnPc, StartFlow, RunEnds, AckTurn, FailTurn, Acknowledge,
         QueueContinuation, Record, FinishFlow, EnqueueFlow, DeliverNow, At
<1>b. \A q \in Process : q # p => at'[q] = at[q]
  BY DEF StartFlow, RunEnds, AckTurn, FailTurn, AfterFailure, Acknowledge,
         QueueContinuation, Record, FinishFlow, EnqueueFlow, DeliverNow,
         ReadFlow, Continue, Become, Goto, Stop, TypeOK
<1>c. Knows(p, at[p], turn[f], outbox[f], posted[f]) /\ Tells(f, flow[f], turn[f], outbox[f], posted[f])
  BY <1>a DEF AnswerInv
<1>d. at[p].pc \in {"ack", "fail"} =>
        /\ turn[f][k].status = "sent"
        /\ k = "semantic" => Acked(f, turn[f])
        /\ \A q \in Process : q # p => ~(Pre(at[q]) /\ at[q].m = f /\ at[q].kind = k)
  <2>1. ASSUME at[p].pc \in {"ack", "fail"} PROVE Pre(at[p]) /\ turn[f][k].status = "sent"
    BY <1>c, <2>1 DEF Pre, Knows
  <2>2. QED
    BY <1>c, <2>1 DEF Tells, AnswerInv
<1>1. CASE StartFlow(p)
  BY <1>1, <1>a, ReadsAnswer DEF StartFlow, At, Stage, Pre
<1>2. CASE RunEnds(p)
  <2>1. /\ at[p].pc = "run" /\ UNCHANGED <<turn, flow, outbox, posted>>
    BY <1>2 DEF RunEnds, At
  <2>2. PICK end \in {"ack", "fail"} : l = [at[p] EXCEPT !.pc = end]
    BY <1>2 DEF RunEnds, Become, Goto, TypeOK
  <2>3. l.pc \in {"ack", "fail"} /\ l.m = f /\ l.kind = k
    BY <2>2 DEF Locals
  <2>4. Pre(at[p]) /\ Knows(p, l, turn[f], outbox[f], posted[f])
    BY <1>c, <2>1, <2>3 DEF Knows, Pre
  <2>5. QED
    BY <1>b, <2>1, <2>3, <2>4, AnswerGoesOn
<1>3. CASE AckTurn(p)
  <2>1. /\ at[p].pc = "ack" /\ UNCHANGED <<flow, outbox, posted>>
        /\ PutTurn(f, k, "acked", at[p].attempt)
    BY <1>3 DEF AckTurn, At
  <2>2. l = [at[p] EXCEPT !.pc = IF IsAck(f, k) THEN "acknowledge" ELSE "finish", !.ok = TRUE]
    BY <1>3 DEF AckTurn, Become, TypeOK
  <2>3. l.pc = (IF IsAck(f, k) THEN "acknowledge" ELSE "finish") /\ l.m = f /\ l.ok
    BY <2>2 DEF Locals
  <2>4. /\ turn'[f][k].status = "acked"
        /\ \A g \in Flow, j \in Kind : g # f \/ j # k => turn'[g][j] = turn[g][j]
    BY <1>a, <2>1, PutTurnMoves
  <2>5. CASE IsAck(f, k)
    <3>1. Acked(f, turn'[f])
      BY <2>4, <2>5 DEF Acked, IsAck
    <3>2. l.pc = "acknowledge"
      BY <2>3, <2>5
    <3>3. Knows(p, l, turn'[f], outbox[f], posted[f]) /\ ~Pre(l)
      BY <2>3, <3>1, <3>2 DEF Knows, Pre
    <3>4. QED
      BY <1>a, <1>b, <1>d, <2>1, <2>3, <2>4, <3>3, TurnMoves
  <2>6. CASE ~IsAck(f, k)
    <3>1. Completed(f, turn'[f])
      BY <2>4, <2>6 DEF Completed
    <3>2. l.pc = "finish"
      BY <2>3, <2>6
    <3>3. Knows(p, l, turn'[f], outbox[f], posted[f]) /\ ~Pre(l)
      BY <2>3, <3>1, <3>2 DEF Knows, Pre
    <3>4. QED
      BY <1>a, <1>b, <1>d, <2>1, <2>3, <2>4, <3>3, TurnMoves
  <2>7. QED
    BY <2>5, <2>6
<1>4. CASE FailTurn(p)
  <2>1. at[p].pc = "fail" /\ UNCHANGED <<flow, outbox, posted>>
    BY <1>4 DEF FailTurn, At
  <2>2. PICK retry \in BOOLEAN :
          /\ PutTurn(f, k, IF retry THEN "queued" ELSE "failed", at[p].attempt)
          /\ AfterFailure(p, retry)
    BY <1>4 DEF FailTurn
  <2>3. /\ turn'[f][k].status = (IF retry THEN "queued" ELSE "failed")
        /\ \A g \in Flow, j \in Kind : g # f \/ j # k => turn'[g][j] = turn[g][j]
    BY <1>a, <2>2, PutTurnMoves
  <2>4. CASE retry
    <3>1. l = Idle
      BY <2>2, <2>4 DEF AfterFailure, Stop, Become, TypeOK
    <3>2. l.pc \in Unaware
      BY <3>1, IdleTyped DEF Unaware
    <3>3. Knows(p, l, turn'[l.m], outbox[l.m], posted[l.m]) /\ ~Pre(l)
      BY <3>2, KnowsNothing
    <3>4. QED
      BY <1>a, <1>b, <1>d, <2>1, <2>3, <3>3, TurnMoves
  <2>5. CASE ~retry
    <3>1. l = [at[p] EXCEPT !.pc = "finish", !.ok = FALSE, !.trying = FALSE]
      BY <2>2, <2>5 DEF AfterFailure, Become, TypeOK
    <3>2. l.pc = "finish" /\ l.m = f /\ l.ok = FALSE
      BY <3>1 DEF Locals
    <3>3. Failed(turn'[f])
      BY <2>3, <2>5 DEF Failed
    <3>4. Knows(p, l, turn'[f], outbox[f], posted[f]) /\ ~Pre(l)
      BY <3>2, <3>3 DEF Knows, Pre
    <3>5. QED
      BY <1>a, <1>b, <1>d, <2>1, <2>3, <3>2, <3>4, TurnMoves
  <2>6. QED
    BY <2>4, <2>5
<1>5. CASE Acknowledge(p)
  <2>1. Acked(f, turn[f])
    BY <1>5, <1>c DEF Acknowledge, At, Knows
  <2>2. QED
    BY <1>5, <1>a, <2>1, ReadsAnswer DEF Acknowledge, Stage
<1>6. CASE QueueContinuation(p)
  <2>1. /\ at[p].pc = "continue" /\ UNCHANGED <<flow, outbox, posted>>
        /\ l = [at[p] EXCEPT !.pc = "record"]
    BY <1>6 DEF QueueContinuation, At, Goto, Become, TypeOK
  <2>2. l.pc \in Unaware
    BY <2>1 DEF Locals, Unaware
  <2>3. ~Pre(l) /\ Knows(p, l, turn'[l.m], outbox[l.m], posted[l.m])
    BY <2>2, KnowsNothing
  <2>4. Acked(f, turn[f])
    BY <1>c, <2>1 DEF Knows
  <2>5. CASE f \notin AckOnly /\ turn[f]["semantic"].status = "absent"
    <3>1. PutTurn(f, "semantic", "queued", 0) /\ "semantic" \in Kind
      BY <1>6, <2>5 DEF QueueContinuation, Kind
    <3>2. /\ turn'[f]["semantic"].status = "queued"
          /\ \A g \in Flow, j \in Kind : g # f \/ j # "semantic" => turn'[g][j] = turn[g][j]
      BY <1>a, <3>1, PutTurnMoves
    <3>3. \A q \in Process : ~(Pre(at[q]) /\ at[q].m = f /\ at[q].kind = "semantic")
      BY <1>a, <2>5 DEF AnswerInv, Knows
    <3>4. turn[f]["semantic"].status \notin {"acked", "failed"} /\ "semantic" \in Kind
      BY <2>5 DEF Kind
    <3>5. UNCHANGED <<flow, outbox, posted>>
      BY <2>1
    <3>6. QED
      BY <1>a, <1>b, <2>3, <2>4, <3>2, <3>3, <3>4, <3>5, TurnMoves
  <2>6. CASE f \in AckOnly \/ turn[f]["semantic"].status # "absent"
    <3>1. UNCHANGED turn
      BY <1>6, <2>6 DEF QueueContinuation
    <3>2. QED
      BY <1>b, <2>1, <2>2, <3>1, AnswerRests
  <2>7. QED
    BY <2>5, <2>6
<1>7. CASE Record(p)
  <2>1. l = Idle /\ UNCHANGED <<turn, flow, outbox, posted>>
    BY <1>7 DEF Record, Stop, Become, TypeOK
  <2>2. QED
    BY <1>b, <2>1, AnswerRests
<1>8. CASE FinishFlow(p)
  <2>1. Concluded(IF at[p].ok THEN "runtime_completed" ELSE "runtime_failed", f, turn[f])
    BY <1>8, <1>c DEF FinishFlow, At, Knows, Concluded
  <2>2. QED
    BY <1>8, <1>a, <2>1, ReadsAnswer DEF FinishFlow, Stage
<1>9. CASE EnqueueFlow(p)
  BY <1>9, <1>a, ReadsAnswer DEF EnqueueFlow, Stage
<1>10. CASE DeliverNow(p)
  <2>1. UNCHANGED <<turn, flow, outbox, posted>>
    BY <1>10 DEF DeliverNow
  <2>2. CASE outbox[f].status = "sent"
    <3>1. l = [at[p] EXCEPT !.pc = "sync", !.row = outbox[f], !.ok = TRUE]
      BY <1>10, <2>2 DEF DeliverNow, Become, TypeOK
    <3>2. l.pc = "sync" /\ l.m = f
      BY <3>1 DEF Locals
    <3>3. f \in Message /\ Answered(outbox[f].text, posted[f])
      BY <2>2 DEF DeliveryInv, RowPosted, Answered, Locals
    <3>4. Knows(p, l, turn[f], outbox[f], posted[f]) /\ ~Pre(l)
      BY <2>2, <3>2, <3>3 DEF Knows, Pre
    <3>5. QED
      BY <1>b, <2>1, <3>2, <3>4, AnswerGoesOn
  <2>3. CASE outbox[f].status # "sent"
    <3>1. l = Idle \/ l = [at[p] EXCEPT !.pc = "claim", !.row = outbox[f]]
      BY <1>10, <2>3 DEF DeliverNow, Become, Stop, TypeOK
    <3>2. l = Idle \/ l.pc \in Unaware
      BY <3>1 DEF Locals, Unaware
    <3>3. QED
      BY <1>b, <2>1, <3>2, AnswerRests
  <2>4. QED
    BY <2>2, <2>3
<1>11. QED
  BY <1>1, <1>2, <1>3, <1>4, <1>5, <1>6, <1>7, <1>8, <1>9, <1>10

(* Steps that begin from idle, but for those that write the outbox.        *)
LEMMA BeginAnswer ==
  ASSUME TypeOK, TypeOK', DeliveryInv, AnswerInv, Punctual, NEW p \in Process,
         \/ \E m \in Message : SelectMessage(p, m) \/ ReadRequest(p, m)
         \/ CreateFlow(p)
         \/ \E f \in Flow : CreateTurn(p, f)
         \/ p \in Drain /\ \E f \in Flow, k \in Kind : ClaimTurn(p, f, k)
         \/ \E f \in Flow, k \in Kind : StaleTurn(p, f, k)
         \/ \E f \in Flow : Recover(p, f) \/ ReconcileFlow(p, f)
  PROVE  AnswerInv'
<1> DEFINE l == at'[p]
<1> USE DEF bounds, tables
<1> Idle \in Locals /\ Idle.pc = "idle" /\ l \in Locals
  BY IdleTyped DEF Ready, TypeOK
<1>1. \A q \in Process : q # p => at'[q] = at[q]
  BY DEF SelectMessage, ReadRequest, CreateFlow, CreateTurn, ClaimTurn, StaleTurn, Recover,
         ReconcileFlow, Become, Stop, TypeOK
<1>2. CASE \E m \in Message : SelectMessage(p, m) \/ ReadRequest(p, m)
  <2>1. PICK m \in Message : \/ l = [Idle EXCEPT !.pc = "claim", !.m = m, !.row = outbox[m]]
                             \/ l = [Idle EXCEPT !.pc = "replace", !.m = m]
    BY <1>2 DEF SelectMessage, ReadRequest, Become, TypeOK
  <2>2. l.pc \in Unaware
    BY <2>1 DEF Locals, Unaware
  <2>3. UNCHANGED <<turn, flow, outbox, posted>>
    BY <1>2 DEF SelectMessage, ReadRequest
  <2>4. QED
    BY <1>1, <2>2, <2>3, AnswerRests
<1>3. CASE CreateFlow(p)
  <2>1. l = Idle /\ UNCHANGED <<turn, outbox, posted>>
    BY <1>3 DEF CreateFlow, Stop, Become, TypeOK
  <2>2. l.pc \in Unaware
    BY <2>1 DEF Unaware
  <2>3. ASSUME NEW f \in Flow PROVE Tells(f, flow'[f], turn[f], outbox[f], posted[f])
    <3>1. Tells(f, flow[f], turn[f], outbox[f], posted[f]) /\ flow[f] \in FlowRow
      BY DEF AnswerInv, TypeOK
    <3>2. \/ flow'[f] = flow[f]
          \/ flow'[f] = [flow[f] EXCEPT !.status = "route_registered"]
      BY <1>3 DEF CreateFlow, TypeOK
    <3>3. \/ flow'[f] = flow[f]
          \/ flow'[f].status = "route_registered" /\ flow'[f].output = flow[f].output
      BY <3>1, <3>2 DEF FlowRow
    <3>4. QED
      BY <3>1, <3>3 DEF Tells
  <2>4. Knows(p, l, turn[l.m], outbox[l.m], posted[l.m]) /\ ~Pre(l)
    BY <2>2, KnowsNothing
  <2>5. \A q \in Process : at[q].m \in Flow /\ Pre(at[q]) => turn[at[q].m][at[q].kind].status = "sent"
    BY DEF AnswerInv, Knows
  <2>6. QED
    BY <1>1, <2>1, <2>3, <2>4, <2>5, AnswerMoves
<1>4. CASE \E f \in Flow : CreateTurn(p, f)
  <2> PICK f \in Flow : CreateTurn(p, f)
    BY <1>4
  <2>1. /\ UNCHANGED <<flow, outbox, posted>> /\ turn[f]["first"].status = "absent"
        /\ PutTurn(f, "first", "queued", 0) /\ "first" \in Kind
        /\ l = [Idle EXCEPT !.pc = "create flow", !.m = f]
    BY DEF CreateTurn, Kind, Become, TypeOK
  <2>2. l.pc \in Unaware
    BY <2>1 DEF Locals, Unaware
  <2>3. Knows(p, l, turn'[l.m], outbox[l.m], posted[l.m]) /\ ~Pre(l)
    BY <2>2, KnowsNothing
  <2>4. \A g \in Flow, j \in Kind : g # f \/ j # "first" => turn'[g][j] = turn[g][j]
    BY <2>1, PutTurnMoves
  <2>5. \A q \in Process : ~(Pre(at[q]) /\ at[q].m = f /\ at[q].kind = "first")
    BY <2>1 DEF AnswerInv, Knows
  <2>6. turn[f]["first"].status \notin {"acked", "failed"} /\ "first" # "semantic"
    BY <2>1
  <2>7. UNCHANGED <<flow, outbox, posted>> /\ "first" \in Kind
    BY <2>1
  <2>8. QED
    BY <1>1, <2>3, <2>4, <2>5, <2>6, <2>7, TurnMoves
<1>5. CASE p \in Drain /\ \E f \in Flow, k \in Kind : ClaimTurn(p, f, k)
  <2> PICK f \in Flow, k \in Kind : ClaimTurn(p, f, k)
    BY <1>5
  <2>1. /\ UNCHANGED <<flow, outbox, posted>> /\ turn[f][k].status = "queued"
        /\ PutTurn(f, k, "sent", turn[f][k].attempt + 1)
        /\ l = [Idle EXCEPT !.pc = "start", !.m = f, !.kind = k, !.trying = TRUE,
                            !.attempt = turn[f][k].attempt + 1]
    BY DEF ClaimTurn, Become, TypeOK
  <2>2. l.pc = "start" /\ l.m = f /\ l.kind = k
    BY <2>1 DEF Locals
  <2>3. /\ turn'[f][k].status = "sent"
        /\ \A g \in Flow, j \in Kind : g # f \/ j # k => turn'[g][j] = turn[g][j]
    BY <2>1, PutTurnMoves
  <2>4. Knows(p, l, turn'[f], outbox[f], posted[f])
    BY <1>5, <2>2, <2>3 DEF Knows
  <2>5. \A q \in Process : ~(Pre(at[q]) /\ at[q].m = f /\ at[q].kind = k)
    BY <2>1 DEF AnswerInv, Knows
  <2>6. k = "semantic" => Acked(f, turn[f])
    BY <2>1 DEF AnswerInv, Tells
  <2>7. UNCHANGED <<flow, outbox, posted>> /\ turn[f][k].status \notin {"acked", "failed"}
    BY <2>1
  <2>8. QED
    BY <1>1, <2>2, <2>3, <2>4, <2>5, <2>6, <2>7, TurnMoves
<1>6. CASE \E f \in Flow, k \in Kind : StaleTurn(p, f, k)
  <2> PICK f \in Flow, k \in Kind : StaleTurn(p, f, k)
    BY <1>6
  <2>1. UNCHANGED <<flow, outbox, posted>> /\ turn[f][k].status = "sent"
    BY DEF StaleTurn
  <2>2. \A q \in Process : ~(Pre(at[q]) /\ at[q].m = f /\ at[q].kind = k)
    <3>1. \A d \in Drain : ~Runs(d, f, k)
      BY DEF StaleTurn, Punctual
    <3>2. ASSUME NEW q \in Process, Pre(at[q]), at[q].m = f PROVE q \in Drain /\ at[q].pc # "idle"
      BY <3>2 DEF AnswerInv, Knows, Pre
    <3>3. QED
      BY <3>1, <3>2 DEF Runs
  <2>3. k = "semantic" => Acked(f, turn[f])
    BY <2>1 DEF AnswerInv, Tells
  <2>0. PICK retry \in BOOLEAN : \E attempt :
          /\ PutTurn(f, k, IF retry THEN "queued" ELSE "failed", attempt)
          /\ IF retry THEN l = Idle ELSE l = [Idle EXCEPT !.pc = "finish", !.m = f, !.kind = k]
    BY DEF StaleTurn, Stop, Become, TypeOK
  <2>4. PICK attempt :
          /\ PutTurn(f, k, IF retry THEN "queued" ELSE "failed", attempt)
          /\ IF retry THEN l = Idle ELSE l = [Idle EXCEPT !.pc = "finish", !.m = f, !.kind = k]
    BY <2>0
  <2>5. /\ turn'[f][k].status = (IF retry THEN "queued" ELSE "failed")
        /\ \A g \in Flow, j \in Kind : g # f \/ j # k => turn'[g][j] = turn[g][j]
    BY <2>4, PutTurnMoves
  <2>6. (l.m \in Flow => Knows(p, l, turn'[l.m], outbox[l.m], posted[l.m])) /\ ~Pre(l)
    <3>1. CASE retry
      <4>1. l.pc \in Unaware
        BY <2>4, <3>1 DEF Unaware
      <4>2. QED
        BY <4>1, KnowsNothing
    <3>2. CASE ~retry
      <4>1. l = [Idle EXCEPT !.pc = "finish", !.m = f, !.kind = k] /\ Idle.ok = FALSE
        BY <2>4, <3>2 DEF Idle
      <4>2. l.pc = "finish" /\ l.m = f /\ l.ok = FALSE
        BY <4>1 DEF Locals
      <4>3. Failed(turn'[f])
        BY <2>5, <3>2 DEF Failed
      <4>4. QED
        BY <4>2, <4>3 DEF Knows, Pre
    <3>3. QED
      BY <3>1, <3>2
  <2>7. turn[f][k].status \notin {"acked", "failed"}
    BY <2>1
  <2>8. QED
    BY <1>1, <2>1, <2>2, <2>3, <2>5, <2>6, <2>7, TurnMoves
<1>7. CASE \E f \in Flow : Recover(p, f)
  <2> PICK f \in Flow : Recover(p, f)
    BY <1>7
  <2>1. /\ l = [Idle EXCEPT !.pc = "continue", !.m = f] /\ UNCHANGED <<turn, flow, outbox, posted>>
        /\ flow[f].status = "runtime_acknowledged"
    BY DEF Recover, AcknowledgedOnly, Become, TypeOK
  <2>2. l.pc = "continue" /\ l.m = f
    BY <2>1 DEF Locals
  <2>3. Acked(f, turn[f])
    BY <2>1 DEF AnswerInv, Tells
  <2>4. Knows(p, l, turn[f], outbox[f], posted[f]) /\ ~Pre(l)
    BY <2>2, <2>3 DEF Knows, Pre
  <2>5. QED
    BY <1>1, <2>1, <2>2, <2>4, AnswerGoesOn
<1>8. CASE \E f \in Flow : ReconcileFlow(p, f)
  <2> PICK f \in Flow : ReconcileFlow(p, f)
    BY <1>8
  <2>1. UNCHANGED <<turn, flow, outbox, posted>> /\ f \in Message
    BY DEF ReconcileFlow, Message
  <2>2. CASE UNCHANGED at
    BY <2>1, <2>2 DEF AnswerInv
  <2>3. CASE ~UNCHANGED at
    <3>1. l = [Idle EXCEPT !.pc = "sync", !.m = f, !.row = outbox[f], !.ok = outbox[f].status = "sent"]
      BY <2>3 DEF ReconcileFlow, Become, TypeOK
    <3>2. l.pc = "sync" /\ l.m = f /\ l.ok = (outbox[f].status = "sent")
      BY <3>1 DEF Locals
    <3>3. outbox[f].status = "sent" => Answered(outbox[f].text, posted[f])
      BY <2>1 DEF DeliveryInv, RowPosted, Answered
    <3>4. Knows(p, l, turn[f], outbox[f], posted[f]) /\ ~Pre(l)
      BY <3>2, <3>3 DEF Knows, Pre
    <3>5. QED
      BY <1>1, <2>1, <3>2, <3>4, AnswerGoesOn
  <2>4. QED
    BY <2>2, <2>3
<1>9. QED
  BY <1>2, <1>3, <1>4, <1>5, <1>6, <1>7, <1>8

(* The outbox and the chat change, of one message, and one process moves.  *)
LEMMA PostMoves ==
  ASSUME TypeOK, AnswerInv, NEW p \in Process, NEW m \in Message,
         \A q \in Process : q # p => at'[q] = at[q],
         UNCHANGED <<turn, flow>>,
         \A n \in Message : n # m => outbox'[n] = outbox[n] /\ posted'[n] = posted[n],
         posted[m] \subseteq posted'[m],
         m \in Flow => /\ outbox[m].status # "absent" /\ outbox'[m].status # "absent"
                       /\ outbox'[m].text = outbox[m].text
                       /\ \A part \in 1..Parts : <<Notice, part>> \in posted'[m]
                              => <<Notice, part>> \in posted[m] \/ outbox[m].text = Notice,
         at'[p].m \in Flow
             => Knows(p, at'[p], turn[at'[p].m], outbox'[at'[p].m], posted'[at'[p].m]),
         ~Pre(at'[p])
  PROVE  AnswerInv'
<1>0. Flow \subseteq Message
  BY DEF Message
<1>1. ASSUME NEW f \in Flow PROVE Tells(f, flow[f], turn[f], outbox'[f], posted'[f])
  <2>1. Tells(f, flow[f], turn[f], outbox[f], posted[f])
    BY DEF AnswerInv
  <2>2. CASE f = m
    <3>1. Answered(Output, posted[f]) => Answered(Output, posted'[f])
      BY <2>2 DEF Answered
    <3>2. Notice # Output
      BY DEF Notice, Output
    <3>3. outbox[f].text = Notice => Failed(turn[f])
      BY <2>1, <2>2, <3>2 DEF Tells
    <3>4. QED
      BY <2>1, <2>2, <3>1, <3>3 DEF Tells
  <2>3. CASE f # m
    BY <1>0, <2>1, <2>3
  <2>4. QED
    BY <2>2, <2>3
<1>2. \A q \in Process : at[q].m \in Flow /\ Pre(at[q]) => turn[at[q].m][at[q].kind].status = "sent"
  BY DEF AnswerInv, Knows
<1>3. \A f \in Flow :
         /\ posted[f] \subseteq posted'[f]
         /\ outbox[f].status # "absent"
                => outbox'[f].status # "absent" /\ outbox'[f].text = outbox[f].text
  BY <1>0
<1>4. QED
  BY <1>1, <1>2, <1>3, AnswerMoves

(* A delivery, and what of the flow is written.                            *)
LEMMA OutboxAnswer ==
  ASSUME TypeOK, TypeOK', Staged, DeliveryInv, AnswerInv, NEW p \in Process,
         OutboxStep(p) \/ WriteFlow(p)
  PROVE  AnswerInv'
<1> DEFINE m == at[p].m  row == outbox[m]  l == at'[p]
<1> USE DEF bounds, tables
<1> /\ at[p] \in Locals /\ l \in Locals /\ m \in Message /\ row \in MessageRow
    /\ at[p].row \in MessageRow /\ Flow \cap Request = {}
  BY DeliveryAssumption DEF TypeOK, Locals
<1>a. Placed(p, at[p]) /\ Agrees(at[p], row, posted[m])
  BY DEF DeliveryInv
<1>b. \A q \in Process : q # p => at'[q] = at[q]
  BY DEF OutboxStep, ReplaceRequest, ClaimMessage, SendPart, SendFails, SettleSent, SettleFailed,
         Settle, SyncDelivery, WriteFlow, ReadFlow, Continue, Become, Goto, Stop, TypeOK
<1>c. Idle.pc = "idle" /\ "idle" \in Unaware /\ "send" \in Unaware /\ "failed" \in Unaware
  BY IdleTyped DEF Unaware
<1>d. at[p].pc \in {"claim", "send", "failed"} => row.status # "absent" /\ row.text = at[p].row.text
  BY <1>a DEF Agrees, Carries, Placed
<1>1. ASSUME NEW status \in {"sent", "failed"}, Settle(p, status), at[p].pc \in {"send", "failed"},
             status = "sent" => at[p].row.receipts = Parts
      PROVE  AnswerInv'
  <2>1. /\ outbox'[m] = Settled(p, status)
        /\ \A n \in Message : n # m => outbox'[n] = outbox[n]
        /\ UNCHANGED <<turn, flow, posted>>
    BY <1>1 DEF Settle, PutMessage, TypeOK
  <2>2. outbox'[m].status = status /\ outbox'[m].text = row.text
    BY <2>1 DEF Settled, MessageRow
  <2>3. status = "sent" => Answered(row.text, posted[m])
    <3>1. {row.text} \X (1..at[p].row.receipts) \subseteq posted[m]
      BY <1>1, <1>a DEF Agrees, Carries, Placed
    <3>2. QED
      BY <1>1, <3>1 DEF Answered
  <2>4. ~Pre(l) /\ (l.m \in Flow => Knows(p, l, turn[l.m], outbox'[l.m], posted'[l.m]))
    <3>1. CASE m \in Flow
      <4>1. l = [at[p] EXCEPT !.pc = "sync", !.ok = status = "sent"]
        BY <1>1, <3>1 DEF Settle, Become, TypeOK
      <4>2. l.pc = "sync" /\ l.m = m /\ l.ok = (status = "sent")
        BY <4>1 DEF Locals
      <4>3. QED
        BY <2>1, <2>2, <2>3, <4>2 DEF Knows, Pre
    <3>2. CASE m \notin Flow
      <4>1. l.pc \in Unaware
        BY <1>1, <1>c, <3>2 DEF Settle, Stop, Become, TypeOK
      <4>2. QED
        BY <4>1, KnowsNothing
    <3>3. QED
      BY <3>1, <3>2
  <2>5. row.status # "absent"
    BY <1>1, <1>d
  <2>6. QED
    BY <1>1, <1>b, <2>1, <2>2, <2>4, <2>5, PostMoves
<1>2. ASSUME Post(p) \/ UNCHANGED posted, UNCHANGED <<turn, flow, outbox>>,
             at[p].pc = "send", l.pc \in {"send", "failed"}
      PROVE  AnswerInv'
  <2>1. \/ posted' = posted
        \/ /\ posted'[m] = posted[m] \cup {<<at[p].row.text, at[p].row.receipts + 1>>}
           /\ \A n \in Message : n # m => posted'[n] = posted[n]
    BY <1>2 DEF Post, TypeOK
  <2>2. \A part \in 1..Parts : <<Notice, part>> \in posted'[m]
            => <<Notice, part>> \in posted[m] \/ row.text = Notice
    BY <1>2, <1>d, <2>1
  <2>3. ~Pre(l) /\ Knows(p, l, turn[l.m], outbox'[l.m], posted'[l.m])
    <3>1. l.pc \in Unaware
      BY <1>2, <1>c
    <3>2. QED
      BY <3>1, KnowsNothing
  <2>4. posted[m] \subseteq posted'[m] /\ \A n \in Message : n # m => posted'[n] = posted[n]
    BY <2>1
  <2>5. row.status # "absent" /\ outbox'[m].status # "absent" /\ outbox'[m].text = row.text
    BY <1>2, <1>d
  <2>6. QED
    BY <1>2, <1>b, <2>2, <2>3, <2>4, <2>5, PostMoves
<1>3. CASE ReplaceRequest(p)
  <2>1. m \in Request
    BY <1>3, <1>a DEF ReplaceRequest, At, Placed
  <2>2. /\ l = Idle /\ UNCHANGED <<turn, flow, posted>>
        /\ \A n \in Message : n # m => outbox'[n] = outbox[n]
    BY <1>3 DEF ReplaceRequest, PutMessage, Stop, Become, TypeOK
  <2>3. l.pc \in Unaware
    BY <1>c, <2>2
  <2>4. ~Pre(l) /\ Knows(p, l, turn[l.m], outbox'[l.m], posted'[l.m])
    BY <2>3, KnowsNothing
  <2>5. m \notin Flow
    BY <2>1
  <2>6. QED
    BY <1>b, <2>2, <2>4, <2>5, PostMoves
<1>4. CASE ClaimMessage(p)
  <2>1. CASE ~MayClaim(p)
    <3>1. l = Idle /\ UNCHANGED <<turn, flow, outbox, posted>>
      BY <1>4, <2>1 DEF ClaimMessage, Stop, Become, TypeOK
    <3>2. QED
      BY <1>b, <3>1, AnswerRests
  <2>2. CASE MayClaim(p)
    <3>1. /\ outbox'[m] = [at[p].row EXCEPT !.status = "delivering", !.text = row.text,
                                            !.stamp = clock]
          /\ l = [at[p] EXCEPT !.pc = "send", !.since = clock, !.row.status = "delivering",
                               !.web = m \in WebApp]
          /\ \A n \in Message : n # m => outbox'[n] = outbox[n]
          /\ UNCHANGED <<turn, flow, posted>>
          /\ at[p].pc = "claim"
      BY <1>4, <2>2 DEF ClaimMessage, Become, PutMessage, TypeOK, At
    <3>2. outbox'[m].status = "delivering" /\ outbox'[m].text = row.text
      BY <3>1 DEF MessageRow
    <3>3. l.pc = "send"
      BY <3>1 DEF Locals
    <3>4. ~Pre(l) /\ Knows(p, l, turn[l.m], outbox'[l.m], posted'[l.m])
      <4>1. l.pc \in Unaware
        BY <1>c, <3>3
      <4>2. QED
        BY <4>1, KnowsNothing
    <3>5. row.status # "absent"
      BY <1>d, <3>1
    <3>6. UNCHANGED <<turn, flow, posted>> /\ \A n \in Message : n # m => outbox'[n] = outbox[n]
      BY <3>1
    <3>7. QED
      BY <1>b, <3>2, <3>4, <3>5, <3>6, PostMoves
  <2>3. QED
    BY <2>1, <2>2
<1>5. CASE SendPart(p)
  <2>1. l = [at[p] EXCEPT !.row.receipts = @ + 1, !.since = clock] /\ at[p].pc = "send"
    BY <1>5 DEF SendPart, Become, TypeOK, At
  <2>2. l.pc = "send"
    BY <2>1 DEF Locals
  <2>3. QED
    BY <1>2, <1>5, <2>1, <2>2 DEF SendPart
<1>6. CASE SendFails(p)
  <2>1. /\ at[p].pc = "send"
        /\ \/ l = [at[p] EXCEPT !.web = FALSE, !.since = clock]
           \/ l = [at[p] EXCEPT !.pc = "failed"]
    BY <1>6 DEF SendFails, Become, Goto, TypeOK, At
  <2>2. l.pc \in {"send", "failed"}
    BY <2>1 DEF Locals
  <2>3. QED
    BY <1>2, <1>6, <2>1, <2>2 DEF SendFails
<1>7. CASE SettleSent(p) \/ SettleFailed(p)
  BY <1>1, <1>7 DEF SettleSent, SettleFailed, At, AllSent
<1>8. CASE SyncDelivery(p)
  <2>1. at[p].pc = "sync" /\ m \in Flow
    BY <1>8, <1>a DEF SyncDelivery, At, Placed, TurnPc
  <2>2. DeliveryStatus(m, at[p].ok) = "telegram_sent" => Answered(Output, posted[m])
    <3>1. ASSUME DeliveryStatus(m, at[p].ok) = "telegram_sent" PROVE Answered(Output, posted[m])
      <4>1. at[p].ok /\ flow[m].output
        BY <3>1 DEF DeliveryStatus
      <4>2. row.status # "absent" /\ Answered(row.text, posted[m])
        BY <2>1, <4>1 DEF AnswerInv, Knows
      <4>3. Tells(m, flow[m], turn[m], row, posted[m])
        BY <2>1 DEF AnswerInv
      <4>4. Completed(m, turn[m]) /\ (turn[m]["semantic"].status # "absent" => Acked(m, turn[m]))
        BY <4>1, <4>3 DEF Tells
      <4>5. row.text = Output
        BY <4>2, <4>3, <4>4, Verdict DEF Tells
      <4>6. QED
        BY <4>2, <4>5
    <3>2. QED
      BY <3>1
  <2>3. DeliveryStatus(m, at[p].ok) # "runtime_acknowledged" /\ "sync" \in Stage \ {""}
    BY DEF DeliveryStatus, Stage
  <2>4. ReadFlow(p, "sync", DeliveryStatus(m, at[p].ok)) /\ UNCHANGED <<turn, flow, outbox, posted>>
    BY <1>8 DEF SyncDelivery
  <2>5. QED
    BY <2>1, <2>2, <2>3, <2>4, ReadsAnswer
<1>9. CASE WriteFlow(p)
  <2>1. /\ at[p].pc = "write" /\ UNCHANGED <<turn, outbox, posted>>
        /\ flow' = [flow EXCEPT ![m] = Patched(@, p)]
    BY <1>9 DEF WriteFlow, At
  <2>2. m \in Flow
    BY <1>a, <2>1 DEF Placed, TurnPc
  <2>3. Knows(p, at[p], turn[m], row, posted[m]) /\ Tells(m, flow[m], turn[m], row, posted[m])
    BY <2>2 DEF AnswerInv
  <2>4. /\ flow'[m] = Patched(flow[m], p) /\ flow[m] \in FlowRow
        /\ \A f \in Flow : f # m => flow'[f] = flow[f]
    BY <2>1, <2>2 DEF TypeOK
  <2>5. /\ flow'[m].status = at[p].to
        /\ flow'[m].output => \/ at[p].stage = "finish" /\ at[p].to = "runtime_completed"
                              \/ flow[m].output
    BY <2>4 DEF Patched, FlowRow
  <2>6. Tells(m, flow'[m], turn[m], row, posted[m])
    <3>1. at[p].stage = "finish" /\ at[p].to = "runtime_completed" => Completed(m, turn[m])
      BY <2>1, <2>3 DEF Knows, Concluded
    <3>2. /\ at[p].to = "runtime_acknowledged" => Acked(m, turn[m])
          /\ at[p].to = "telegram_sent" => Answered(Output, posted[m])
      BY <2>1, <2>3 DEF Knows
    <3>3. QED
      BY <2>3, <2>5, <3>1, <3>2 DEF Tells
  <2>7. \A f \in Flow : Tells(f, flow'[f], turn[f], outbox[f], posted[f])
    BY <2>4, <2>6 DEF AnswerInv
  <2>8. \/ l = Idle
        \/ /\ l.pc = Onward(at[p].stage) /\ l.m = m /\ l.to = at[p].to /\ l.kind = at[p].kind
           /\ at[p].stage \in {"start", "acknowledge", "finish", "enqueue"}
    <3>1. at[p].stage \in Stage \ {""}
      BY <2>1 DEF Staged, Ready, Locals
    <3>2. CASE at[p].stage = "sync"
      BY <1>9, <3>2 DEF WriteFlow, Continue, Onward, Stop, Become, TypeOK
    <3>3. CASE at[p].stage # "sync"
      <4>1. Onward(at[p].stage) \in {"run", "continue", "outbound", "deliver"}
        BY <3>1, <3>3 DEF Onward, Stage
      <4>2. at' = [at EXCEPT ![p] = [at[p] EXCEPT !.pc = Onward(at[p].stage)]]
        BY <1>9, <4>1 DEF WriteFlow, Continue, Goto, Become
      <4>3. l = [at[p] EXCEPT !.pc = Onward(at[p].stage)]
        BY <4>2 DEF TypeOK
      <4>4. l.pc = Onward(at[p].stage) /\ l.m = m /\ l.to = at[p].to /\ l.kind = at[p].kind
        BY <4>1, <4>3 DEF Locals
      <4>5. QED
        BY <3>1, <3>3, <4>4 DEF Stage
    <3>4. QED
      BY <3>2, <3>3
  <2>9. /\ l.m \in Flow => Knows(p, l, turn[l.m], outbox[l.m], posted[l.m])
        /\ Pre(l) => Pre(at[p]) /\ l.m = m /\ l.kind = at[p].kind
    <3>1. CASE l = Idle
      <4>1. l.pc \in Unaware
        BY <1>c, <3>1
      <4>2. QED
        BY <4>1, KnowsNothing
    <3>2. CASE l # Idle /\ at[p].stage = "start"
      <4>1. l.pc = "run" /\ l.m = m /\ l.kind = at[p].kind
        BY <2>8, <3>2 DEF Onward
      <4>2. Pre(at[p])
        BY <2>1, <3>2 DEF Pre
      <4>3. Knows(p, l, turn[m], row, posted[m])
        BY <2>3, <4>1, <4>2 DEF Knows
      <4>4. QED
        BY <4>1, <4>2, <4>3
    <3>3. CASE l # Idle /\ at[p].stage = "acknowledge"
      <4>1. l.pc = "continue" /\ l.m = m
        BY <2>8, <3>3 DEF Onward
      <4>2. Acked(m, turn[m])
        BY <2>1, <2>3, <3>3 DEF Knows
      <4>3. QED
        BY <4>1, <4>2 DEF Knows, Pre
    <3>4. CASE l # Idle /\ at[p].stage = "finish"
      <4>1. l.pc = "outbound" /\ l.m = m /\ l.to = at[p].to
        BY <2>8, <3>4 DEF Onward
      <4>2. Concluded(at[p].to, m, turn[m])
        BY <2>1, <2>3, <3>4 DEF Knows
      <4>3. QED
        BY <4>1, <4>2 DEF Knows, Pre
    <3>5. CASE l # Idle /\ at[p].stage = "enqueue"
      <4>1. l.pc \in Unaware
        BY <2>8, <3>5 DEF Onward, Unaware
      <4>2. QED
        BY <4>1, KnowsNothing
    <3>6. QED
      BY <2>8, <3>1, <3>2, <3>3, <3>4, <3>5
  <2>10. \A q \in Process : at[q].m \in Flow /\ Pre(at[q]) => turn[at[q].m][at[q].kind].status = "sent"
    BY DEF AnswerInv, Knows
  <2>11. Pre(l) => \A q \in Process : q # p => ~(Pre(at[q]) /\ at[q].m = l.m /\ at[q].kind = l.kind)
    BY <2>9 DEF AnswerInv
  <2>12. UNCHANGED <<turn, outbox, posted>>
    BY <2>1
  <2>13. QED
    BY <1>b, <2>7, <2>9, <2>10, <2>11, <2>12, AnswerMoves
<1>10. QED
  BY <1>3, <1>4, <1>5, <1>6, <1>7, <1>8, <1>9 DEF OutboxStep

(* The answer, or the notice, becomes a row of the outbox.                 *)
LEMMA OutboundAnswer ==
  ASSUME TypeOK, TypeOK', DeliveryInv, AnswerInv, NEW p \in Process, Outbound(p)
  PROVE  AnswerInv'
<1> DEFINE f == at[p].m  l == at'[p]
<1> USE DEF bounds, tables
<1>1. /\ at[p].pc = "outbound" /\ f \in Flow /\ at[p] \in Locals /\ f \in Message
      /\ UNCHANGED <<turn, flow, posted>>
      /\ \A q \in Process : q # p => at'[q] = at[q]
  BY DEF Outbound, At, DeliveryInv, Placed, TurnPc, Become, Goto, Stop, TypeOK, Message
<1>2. \/ l = Idle
      \/ l = [at[p] EXCEPT !.pc = "enqueue"]
      \/ l = [at[p] EXCEPT !.pc = "deliver"]
  BY DEF Outbound, Become, Goto, Stop, TypeOK
<1>3. l = Idle \/ l.pc \in Unaware
  BY <1>1, <1>2 DEF Locals, Unaware
<1>4. CASE UNCHANGED outbox
  BY <1>1, <1>3, <1>4, AnswerRests
<1>5. CASE ~UNCHANGED outbox
  <2> DEFINE text == IF at[p].to = "runtime_completed" THEN Output ELSE Notice
  <2>1. /\ outbox[f].status = "absent" /\ outbox'[f] = Queued(text)
        /\ \A n \in Message : n # f => outbox'[n] = outbox[n]
    BY <1>1, <1>5 DEF Outbound, PutMessage, TypeOK
  <2>2. outbox'[f].status = "queued" /\ outbox'[f].text = text
    BY <2>1 DEF Queued, NoMessage
  <2>3. Concluded(at[p].to, f, turn[f]) /\ Tells(f, flow[f], turn[f], outbox[f], posted[f])
    BY <1>1 DEF AnswerInv, Knows
  <2>4. (text = Output /\ Completed(f, turn[f])) \/ (text = Notice /\ Failed(turn[f]))
    BY <2>3 DEF Concluded
  <2>5. Tells(f, flow[f], turn[f], outbox'[f], posted[f])
    BY <2>2, <2>3, <2>4 DEF Tells
  <2>6. ASSUME NEW g \in Flow PROVE Tells(g, flow'[g], turn'[g], outbox'[g], posted'[g])
    <3>1. CASE g = f
      BY <1>1, <2>5, <3>1
    <3>2. CASE g # f
      <4>1. outbox'[g] = outbox[g]
        BY <2>1, <3>2 DEF Message
      <4>2. QED
        BY <1>1, <4>1 DEF AnswerInv
    <3>3. QED
      BY <3>1, <3>2
  <2>7. l.pc \in Unaware
    BY <1>3, IdleTyped DEF Unaware
  <2>8. ~Pre(l) /\ Knows(p, l, turn'[l.m], outbox'[l.m], posted'[l.m])
    BY <2>7, KnowsNothing
  <2>9. \A q \in Process : at[q].m \in Flow /\ Pre(at[q]) => turn'[at[q].m][at[q].kind].status = "sent"
    BY <1>1 DEF AnswerInv, Knows
  <2>10. \A g \in Flow :
           /\ posted[g] \subseteq posted'[g]
           /\ outbox[g].status # "absent"
                  => outbox'[g].status # "absent" /\ outbox'[g].text = outbox[g].text
    BY <1>1, <2>1 DEF Message
  <2>11. UNCHANGED turn /\ \A q \in Process : q # p => at'[q] = at[q]
    BY <1>1
  <2>12. QED
    BY <2>6, <2>8, <2>9, <2>10, <2>11, AnswerMoves
<1>6. QED
  BY <1>4, <1>5

LEMMA EnvironmentAnswer ==
  ASSUME TypeOK, TypeOK', DeliveryInv, AnswerInv, Punctual, Environment
  PROVE  AnswerInv'
<1> USE DEF bounds, tables
<1>0. /\ \A p \in Sender \cup Drain : p \in Process
      /\ Idle.pc = "idle" /\ "idle" \in Unaware /\ Flow \subseteq Message
  BY IdleTyped DEF Process, Unaware, Message
<1>1. CASE \E m \in Message : EnqueueMessage(m)
  <2> PICK m \in Message : EnqueueMessage(m)
    BY <1>1
  <2>1. m \notin Flow
    BY DeliveryAssumption DEF EnqueueMessage
  <2>2. UNCHANGED <<turn, flow, posted, at>> /\ \A n \in Message : n # m => outbox'[n] = outbox[n]
    BY DEF EnqueueMessage, PutMessage, TypeOK
  <2>3. \A f \in Flow : outbox'[f] = outbox[f]
    BY <1>0, <2>1, <2>2
  <2>4. QED
    BY <2>2, <2>3 DEF AnswerInv
<1>2. CASE \/ \E s \in Sender : \E f \in Flow : CreateTurn(s, f)
           \/ \E s \in Sender : \E m \in Message : ReadRequest(s, m)
  BY <1>0, <1>2, BeginAnswer
<1>3. CASE \E s \in Sender : \E m \in Message : \E status \in MarkedAs : Mark(s, m, status)
  <2> PICK s \in Sender, m \in Message, status \in MarkedAs : Mark(s, m, status)
    BY <1>3
  <2> DEFINE l == at'[s]
  <2>0. s \in Process /\ outbox[m] \in MessageRow /\ Idle \in Locals /\ status # "absent"
    BY <1>0, IdleTyped, DeliveryAssumption DEF TypeOK, Ready
  <2>1. /\ outbox[m].status # "absent"
        /\ outbox'[m] = [outbox[m] EXCEPT !.status = status,
                                          !.stamp = IF status = "delivering" THEN clock ELSE 0]
        /\ \A n \in Message : n # m => outbox'[n] = outbox[n] /\ posted'[n] = posted[n]
        /\ \A q \in Process : q # s => at'[q] = at[q]
        /\ UNCHANGED <<turn, flow>>
    BY DEF Mark, PutMessage, Become, Stop, TypeOK
  <2>2. outbox'[m].status = status /\ outbox'[m].text = outbox[m].text
    BY <2>0, <2>1 DEF MessageRow
  <2>3. posted'[m] = IF status = "sent"
                     THEN posted[m] \cup ({outbox[m].text} \X (1..Parts)) ELSE posted[m]
    BY DEF Mark, TypeOK
  <2>4. /\ posted[m] \subseteq posted'[m]
        /\ status = "sent" => Answered(outbox[m].text, posted'[m])
        /\ \A part \in 1..Parts : <<Notice, part>> \in posted'[m]
               => <<Notice, part>> \in posted[m] \/ outbox[m].text = Notice
    BY <2>3 DEF Answered
  <2>5. ~Pre(l) /\ (l.m \in Flow => Knows(s, l, turn[l.m], outbox'[l.m], posted'[l.m]))
    <3>1. CASE l = Idle
      <4>1. l.pc \in Unaware
        BY <1>0, <3>1
      <4>2. QED
        BY <4>1, KnowsNothing
    <3>2. CASE l # Idle
      <4>1. l = [Idle EXCEPT !.pc = "sync", !.m = m, !.row = outbox[m], !.ok = status = "sent"]
        BY <2>0, <3>2 DEF Mark, Become, Stop, TypeOK
      <4>2. l.pc = "sync" /\ l.m = m /\ l.ok = (status = "sent")
        BY <2>0, <4>1 DEF Locals
      <4>3. QED
        BY <2>0, <2>2, <2>4, <4>2 DEF Knows, Pre
    <3>3. QED
      BY <3>1, <3>2
  <2>6. outbox'[m].status # "absent"
    BY <2>0, <2>2
  <2>7. QED
    BY <2>0, <2>1, <2>2, <2>4, <2>5, <2>6, PostMoves
<1>4. CASE \E p \in Process : Crash(p)
  <2> PICK p \in Process : Crash(p)
    BY <1>4
  <2>1. /\ at'[p] = Idle /\ UNCHANGED <<turn, flow, outbox, posted>>
        /\ \A q \in Process : q # p => at'[q] = at[q]
    BY DEF Crash, Stop, Become, TypeOK
  <2>2. QED
    BY <2>1, AnswerRests
<1>5. CASE \/ \E p \in Process : DeliveryThrows(p) \/ ContinuationFails(p)
           \/ \E d \in Drain : TurnThrows(d)
  <2>1. MayThrow
    BY <1>5 DEF DeliveryThrows, ContinuationFails, TurnThrows
  <2>2. faults < 0 /\ faults \in Nat
    BY <2>1 DEF MayThrow, Punctual, TypeOK
  <2>3. QED
    BY <2>2
<1>6. CASE CancelTurns
  <2>1. /\ UNCHANGED <<flow, outbox, posted, at>>
        /\ \A f \in Flow, k \in Kind : \/ turn'[f][k] = turn[f][k]
                                     \/ turn[f][k].status = "queued"
    BY <1>6 DEF CancelTurns
  <2>2. \A f \in Flow, k \in Kind :
            turn[f][k].status \in {"acked", "failed"} => turn'[f][k].status = turn[f][k].status
    BY <2>1
  <2>3. ASSUME NEW p \in Process, at[p].m \in Flow
        PROVE  Knows(p, at[p], turn'[at[p].m], outbox[at[p].m], posted[at[p].m])
    <3>1. Knows(p, at[p], turn[at[p].m], outbox[at[p].m], posted[at[p].m])
      BY <2>3 DEF AnswerInv
    <3>2. at[p].kind \in Kind
      BY DEF TypeOK, Locals
    <3>3. Pre(at[p]) => turn'[at[p].m][at[p].kind].status = "sent"
      BY <2>1, <2>3, <3>1, <3>2 DEF Knows
    <3>4. QED
      BY <2>2, <2>3, <3>1, <3>3, KnowsStays
  <2>4. ASSUME NEW f \in Flow PROVE Tells(f, flow[f], turn'[f], outbox[f], posted[f])
    <3>1. Tells(f, flow[f], turn[f], outbox[f], posted[f])
      BY DEF AnswerInv
    <3>2. turn'[f]["semantic"].status = turn[f]["semantic"].status \/ Acked(f, turn[f])
      BY <2>1, <3>1 DEF Tells, Kind
    <3>3. QED
      BY <2>2, <3>1, <3>2, TellsStays
  <2>5. QED
    BY <2>1, <2>3, <2>4 DEF AnswerInv
<1>7. QED
  BY <1>1, <1>2, <1>3, <1>4, <1>5, <1>6 DEF Environment

LEMMA InitAnswer == Init => AnswerInv
<1> SUFFICES ASSUME Init PROVE AnswerInv
  OBVIOUS
<1>1. \A p \in Process : at[p] = Idle
  BY DEF Init
<1>2. Idle.pc \in Unaware
  BY IdleTyped DEF Unaware
<1>3. ASSUME NEW p \in Process
      PROVE  ~Pre(at[p]) /\ Knows(p, at[p], turn[at[p].m], outbox[at[p].m], posted[at[p].m])
  BY <1>1, <1>2, KnowsNothing
<1>4. ASSUME NEW f \in Flow PROVE Tells(f, flow[f], turn[f], outbox[f], posted[f])
  <2>1. /\ flow[f] = NoFlow /\ outbox[f] = NoMessage /\ posted[f] = {}
        /\ turn[f]["semantic"] = NoTurn
    BY DEF Init, Message, Kind
  <2>2. QED
    BY <2>1 DEF Tells, NoFlow, NoMessage, NoTurn
<1>5. QED
  BY <1>3, <1>4 DEF AnswerInv

LEMMA Answers ==
  ASSUME OneTextAtATime, Punctual
  PROVE  Spec => [](TypeOK /\ Staged /\ DeliveryInv /\ AnswerInv)
<1>1. ASSUME TypeOK, Staged, DeliveryInv, AnswerInv, [Next]_vars PROVE AnswerInv'
  <2>0. TypeOK' /\ \A p \in Sender \cup Drain \cup Reconciler : p \in Process
    BY <1>1, NextTypes DEF Process
  <2>1. ASSUME NEW p \in Process, TurnStep(p) PROVE AnswerInv'
    BY <1>1, <2>0, <2>1, TurnAnswer, OutboundAnswer, OutboxAnswer DEF TurnStep
  <2>2. CASE HandlerStep
    <3>1. CASE \E s \in Sender : SenderStep(s)
      BY <1>1, <2>0, <3>1, OutboxAnswer, BeginAnswer DEF SenderStep
    <3>2. CASE \E d \in Drain : DrainStep(d)
      BY <1>1, <2>0, <2>1, <3>2, OutboxAnswer, BeginAnswer DEF DrainStep
    <3>3. CASE \E q \in Reconciler : ReconcilerStep(q)
      BY <1>1, <2>0, <2>1, <3>3, OutboxAnswer, BeginAnswer DEF ReconcilerStep
    <3>4. QED
      BY <2>2, <3>1, <3>2, <3>3 DEF HandlerStep
  <2>3. CASE Environment
    BY <1>1, <2>0, <2>3, EnvironmentAnswer
  <2>4. CASE TimePasses
    BY <1>1, <2>4 DEF TimePasses, tables, AnswerInv
  <2>5. CASE UNCHANGED vars
    BY <1>1, <2>5 DEF vars, tables, AnswerInv
  <2>6. QED
    BY <1>1, <2>2, <2>3, <2>4, <2>5 DEF Next
<1>2. Init => TypeOK /\ Staged /\ DeliveryInv /\ AnswerInv
  BY InitTypes, InitInv, InitAnswer
<1>3. TypeOK /\ Staged /\ DeliveryInv /\ AnswerInv /\ [Next]_vars
          => (TypeOK /\ Staged /\ DeliveryInv /\ AnswerInv)'
  BY <1>1, NextTypes, NextInv
<1>4. QED
  BY <1>2, <1>3, PTL DEF Spec

(* A flow becomes telegram_sent only when the agent's own answer is in the *)
(* chat in full, however drains and senders die, turns are retried, rows   *)
(* are delivered again, and reconciliation or an operator writes the flow  *)
(* besides (updateMessageFlow, finishMessageFlowRuntime,                   *)
(* updateMessageFlowFromTelegramDelivery).                                 *)
THEOREM TelegramSentMeansAnsweredHolds ==
  ASSUME OneTextAtATime, Punctual
  PROVE  Spec => []TelegramSentMeansAnswered
<1>1. AnswerInv => TelegramSentMeansAnswered
  BY DEF AnswerInv, Tells, Answered, TelegramSentMeansAnswered
<1>2. QED
  BY <1>1, Answers, PTL

(* Once a part of the notice of failure is posted, no dispatch of the flow *)
(* is queued or running: the notice is enqueued after the last turn failed *)
(* (AfterFailure: not while a retry is scheduled), and no continuation     *)
(* follows a turn that failed.                                             *)
THEOREM NoticeIsLastHolds ==
  ASSUME OneTextAtATime, Punctual
  PROVE  Spec => []NoticeIsLast
<1>1. ASSUME AnswerInv PROVE NoticeIsLast
  <2>1. SUFFICES ASSUME NEW f \in Flow, NEW part \in 1..Parts, <<Notice, part>> \in posted[f]
                 PROVE  \A k \in Kind : turn[f][k].status \notin {"queued", "sent"}
    BY DEF NoticeIsLast
  <2>2. Tells(f, flow[f], turn[f], outbox[f], posted[f])
    BY <1>1 DEF AnswerInv
  <2>3. Failed(turn[f]) /\ (turn[f]["semantic"].status # "absent" => Acked(f, turn[f]))
    BY <2>1, <2>2 DEF Tells
  <2>4. QED
    BY <2>3, Verdict
<1>2. QED
  BY <1>1, Answers, PTL
==============================================================================
