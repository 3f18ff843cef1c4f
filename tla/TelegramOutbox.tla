---------------------------- MODULE TelegramOutbox ----------------------------
(***************************************************************************)
(* Delivery of the rows of telegram_outbox.  A row is claimed by an UPDATE *)
(* that names the status read before; the parts are sent one by one, each  *)
(* within its own timeout; the end is written by outbox_id alone.          *)
(***************************************************************************)
EXTENDS DeliveryTables

(* enqueueTelegramOutbox for a message that has no row.                    *)
Queued(text) == [NoMessage EXCEPT !.status = "queued", !.text = text]

EnqueueMessage(m) ==
    /\ m \in Request \cup WebApp
    /\ outbox[m].status = "absent" /\ MayBegin
    /\ PutMessage(m, Queued(1))
    /\ UNCHANGED <<clock, turn, flow, incident, posted, at, bounds>>

(* A Human Gate asks again: the text of a row that is over is replaced and *)
(* its receipts go, whatever has become of the row since it was read.      *)
ReadRequest(s, m) ==
    /\ At(s, "idle")
    /\ m \in Request /\ texts + 1 < MaxTexts
    /\ outbox[m].status \in {"cancelled", "failed"}
    /\ Become(s, [Idle EXCEPT !.pc = "replace", !.m = m])
    /\ UNCHANGED <<clock, tables, bounds>>

ReplaceRequest(s) ==
    /\ At(s, "replace")
    /\ texts' = texts + 1
    /\ PutMessage(at[s].m, Queued(texts + 2))
    /\ Stop(s)
    /\ UNCHANGED <<clock, turn, flow, incident, posted, marks, faults, crashes>>

-----------------------------------------------------------------------------
(* telegramOutbox, operation deliver, by status or by outbox_id; and       *)
(* telegramOutboxDelivery, whose gates only refuse.                        *)

(* Faulty variant for OneSender: any row that is being delivered.          *)
IsDelivering(row) == row.status = "delivering"

(* Faulty variant for MessagesSettle: a row is never taken over.           *)
NeverStale(row) == FALSE

StaleDelivery(row) == row.status = "delivering" /\ row.stamp + Lease <= clock

Deliverable(m) ==
    \/ outbox[m].status = "queued" \/ StaleDelivery(outbox[m])
    \/ outbox[m].status = "failed" /\ m \in Redeliverable

SelectMessage(s, m) ==
    /\ At(s, "idle")
    /\ Deliverable(m)
    /\ Become(s, [Idle EXCEPT !.pc = "claim", !.m = m, !.row = outbox[m]])
    /\ UNCHANGED <<clock, tables, bounds>>

(* claimTelegramOutboxDelivery                                             *)
MayClaim(p) ==
    LET row == outbox[at[p].m] IN
    IF at[p].row.status = "delivering"
    THEN StaleDelivery(row)
    ELSE row.status = at[p].row.status

ClaimMessage(p) ==
    /\ At(p, "claim")
    /\ IF MayClaim(p)
       THEN LET m == at[p].m
                row == [at[p].row EXCEPT !.status = "delivering",
                                         !.text = outbox[m].text, !.stamp = clock] IN
            /\ PutMessage(m, row)
            /\ Become(p, [at[p] EXCEPT !.pc = "send", !.since = clock,
                                       !.row.status = "delivering",
                                       !.web = m \in WebApp])
       ELSE Stop(p) /\ UNCHANGED outbox
    /\ UNCHANGED <<clock, turn, flow, incident, posted, bounds>>

-----------------------------------------------------------------------------
(* The loops over the parts: over the Bot API in                           *)
(* deliverTelegramOutboxRowViaWebApp, else with the command line.  A call  *)
(* that fails or runs into its timeout may have posted the part.           *)

Post(p) ==
    posted' = [posted EXCEPT ![at[p].m] =
                  @ \cup {<<at[p].row.text, at[p].row.receipts + 1>>}]

SendPart(p) ==
    /\ At(p, "send")
    /\ at[p].row.receipts < Parts
    /\ Post(p)
    /\ Become(p, [at[p] EXCEPT !.row.receipts = @ + 1, !.since = clock])
    /\ UNCHANGED <<clock, turn, flow, incident, outbox, bounds>>

SendFails(p) ==
    /\ At(p, "send")
    /\ at[p].row.receipts < Parts
    /\ Post(p) \/ UNCHANGED posted
    /\ IF at[p].web /\ at[p].row.receipts = 0
       THEN Become(p, [at[p] EXCEPT !.web = FALSE, !.since = clock])
       ELSE Goto(p, "failed")
    /\ UNCHANGED <<clock, turn, flow, incident, outbox, bounds>>

(* Faulty variant for SentMeansPosted: as soon as a part is sent.          *)
SomeSent(p) == at[p].row.receipts > 0

AllSent(p) == at[p].row.receipts = Parts

(* Faulty variant for TypeOK: one part too many is counted.                *)
SettledOneMore(p, status) ==
    [outbox[at[p].m] EXCEPT !.status = status, !.stamp = 0,
                            !.receipts = at[p].row.receipts + 1]

Settled(p, status) ==
    [outbox[at[p].m] EXCEPT !.status = status, !.stamp = 0,
                            !.receipts = at[p].row.receipts]

(* Then updateMessageFlowFromTelegramDelivery, for a message of a flow.    *)
Settle(p, status) ==
    /\ PutMessage(at[p].m, Settled(p, status))
    /\ IF at[p].m \in Flow
       THEN Become(p, [at[p] EXCEPT !.pc = "sync", !.ok = status = "sent"])
       ELSE Stop(p)
    /\ UNCHANGED <<clock, turn, flow, incident, posted, bounds>>

SettleSent(p) == At(p, "send") /\ AllSent(p) /\ Settle(p, "sent")

SettleFailed(p) == At(p, "failed") /\ Settle(p, "failed")

(* Faulty variant for TelegramSentMeansAnswered: any delivery will do.     *)
StatusOfDelivery(f, ok) == IF ok THEN "telegram_sent" ELSE "telegram_failed"

(* updateMessageFlowFromTelegramDelivery: what posted a notice leaves the  *)
(* flow failed, with a receipt.                                            *)
DeliveryStatus(f, ok) ==
    IF ~ok THEN "telegram_failed"
    ELSE IF flow[f].output THEN "telegram_sent" ELSE "runtime_failed"

SyncDelivery(p) ==
    /\ At(p, "sync")
    /\ ReadFlow(p, "sync", DeliveryStatus(at[p].m, at[p].ok))
    /\ UNCHANGED <<clock, tables, bounds>>

(* A statement of deliverTelegramOutboxRow throws after the last part: the *)
(* catch clause writes "failed", with the receipts.                        *)
DeliveryThrows(p) ==
    /\ MayThrow
    /\ \/ At(p, "send") /\ AllSent(p)
       \/ /\ at[p].ok /\ at[p].since > 0
          /\ At(p, "sync") \/ (At(p, "write") /\ at[p].stage = "sync")
    /\ faults' = faults + 1
    /\ Become(p, [at[p] EXCEPT !.pc = "failed", !.ok = FALSE])
    /\ UNCHANGED <<clock, tables, texts, marks, crashes>>

-----------------------------------------------------------------------------
(* telegramOutbox, operation mark.  An operator marks "sent" what he has   *)
(* posted himself.                                                         *)
Mark(s, m, status) ==
    /\ At(s, "idle") /\ marks < MaxMarks
    /\ outbox[m].status # "absent"
    /\ marks' = marks + 1
    /\ PutMessage(m, [outbox[m] EXCEPT !.status = status,
                                   !.stamp = IF status = "delivering" THEN clock ELSE 0])
    /\ posted' = IF status = "sent"
                 THEN [posted EXCEPT ![m] = @ \cup ({outbox[m].text} \X (1..Parts))]
                 ELSE posted
    /\ IF status \in {"sent", "failed"} /\ m \in Flow
       THEN Become(s, [Idle EXCEPT !.pc = "sync", !.m = m, !.row = outbox[m],
                                   !.ok = status = "sent"])
       ELSE Stop(s)
    /\ UNCHANGED <<clock, turn, flow, incident, texts, faults, crashes>>

OutboxStep(p) ==
    \/ ReplaceRequest(p) \/ ClaimMessage(p) \/ SendPart(p) \/ SendFails(p)
    \/ SettleSent(p) \/ SettleFailed(p) \/ SyncDelivery(p)
=============================================================================
