--------------------------- MODULE MessageDelivery ---------------------------
(***************************************************************************)
(* Message flows and the outbox together: senders, drains and              *)
(* reconciliations over the tables of DeliveryTables.                      *)
(***************************************************************************)
EXTENDS MessageFlow

Crash(p) ==
    /\ ~At(p, "idle") /\ p \in Mortal
    /\ crashes < MaxCrashes /\ faults + crashes < MaxMishaps
    /\ crashes' = crashes + 1
    /\ Stop(p)
    /\ UNCHANGED <<clock, tables, texts, marks, faults>>

(* A part that is being sent ends at its timeout; statements take no time. *)
(* It is only looked at while a message is being delivered.                *)
TimePasses ==
    /\ clock < MaxTime
    /\ \E m \in Message : outbox[m].status = "delivering"
    /\ \A p \in Process :
        /\ At(p, "send") => ~AllSent(p) /\ clock < at[p].since + PartTime
        /\ ~At(p, "failed")
    /\ clock' = clock + 1
    /\ UNCHANGED <<tables, at, bounds>>

(* Time as the progress run needs it: when a delivery waits for its lease. *)
QuietTime ==
    /\ \E m \in Message : outbox[m].status = "delivering" /\ ~StaleDelivery(outbox[m])
    /\ \A p \in Process : at[p].pc \in {"idle", "send"}
    /\ TimePasses

SenderStep(s) ==
    \/ \E m \in Message : SelectMessage(s, m)
    \/ CreateFlow(s) \/ WriteFlow(s) \/ OutboxStep(s)

DrainStep(d) ==
    \/ \E f \in Flow, k \in Kind : ClaimTurn(d, f, k)
    \/ TurnStep(d) \/ OutboxStep(d)

ReconcilerStep(q) ==
    \/ \E f \in Flow, k \in Kind : StaleTurn(q, f, k)
    \/ \E f \in Flow : Recover(q, f) \/ ReconcileFlow(q, f)
    \/ TurnStep(q) \/ OutboxStep(q)

(* Of what a reconciliation may do, what no other flow keeps it from.      *)
SureStep(q) ==
    \/ \E f \in Flow, k \in Kind : StaleTurn(q, f, k)
    \/ \E f \in Flow : Reached(f) /\ Recover(q, f)
    \/ \E f \in Flow : Ahead(f) \cap AckOnly = {} /\ f \notin AckOnly /\ ReconcileFlow(q, f)
    \/ TurnStep(q) \/ OutboxStep(q)

HandlerStep ==
    \/ \E s \in Sender : SenderStep(s)
    \/ \E d \in Drain : DrainStep(d)
    \/ \E q \in Reconciler : ReconcilerStep(q)

Environment ==
    \/ \E m \in Message : EnqueueMessage(m)
    \/ \E s \in Sender : \E f \in Flow : CreateTurn(s, f)
    \/ \E s \in Sender : \E m \in Message :
        ReadRequest(s, m) \/ \E status \in MarkedAs : Mark(s, m, status)
    \/ \E p \in Process : DeliveryThrows(p) \/ ContinuationFails(p) \/ Crash(p)
    \/ \E d \in Drain : TurnThrows(d)
    \/ CancelTurns

Next == HandlerStep \/ Environment \/ TimePasses

Spec == Init /\ [][Next]_vars

(* The timer of the control loop keeps starting deliveries, drains and     *)
(* reconciliations, what runs goes on, and time passes however busy they   *)
(* are.                                                                    *)
FairSpec ==
    /\ Init
    /\ [][HandlerStep \/ Environment \/ QuietTime]_vars
    /\ \A s \in Sender : WF_vars(SenderStep(s))
    /\ \A d \in Drain : WF_vars(DrainStep(d))
    /\ \A q \in Reconciler : WF_vars(SureStep(q))
    /\ SF_vars(QuietTime)

-----------------------------------------------------------------------------
Sending(p, m) == at[p].m = m /\ at[p].pc \in {"send", "failed"}

(* Two processes never send the same message at once, though anybody may   *)
(* select a row and a delivery that died is taken over after its lease:    *)
(* as long as the parts together take no longer than the lease.            *)
OneSender ==
    \A m \in Message : \A p, q \in Process : Sending(p, m) /\ Sending(q, m) => p = q

(* A row is "sent" only when every part of the text it holds has reached   *)
(* the chat, over retries that resume after the parts with receipts.       *)
SentMeansPosted ==
    \A m \in Message :
        outbox[m].status = "sent" => {outbox[m].text} \X (1..Parts) \subseteq posted[m]

(* A flow is telegram_sent only when the agent's own answer was posted, a  *)
(* notice of failure not being one.                                        *)
TelegramSentMeansAnswered ==
    \A f \in Flow :
        flow[f].status = "telegram_sent" => {Output} \X (1..Parts) \subseteq posted[f]

(* Who was told that the agent failed is told so for good: no turn of the  *)
(* flow is left that could still answer.                                   *)
NoticeIsLast ==
    \A f \in Flow :
        (\E part \in 1..Parts : <<Notice, part>> \in posted[f])
            => \A k \in Kind : turn[f][k].status \notin {"queued", "sent"}

(* A message that is queued is in the end sent or failed (or cancelled by  *)
(* an operator), though senders die and calls fail.                        *)
MessagesSettle ==
    \A m \in Message :
        outbox[m].status \in {"queued", "delivering"}
            ~> outbox[m].status \in {"sent", "failed", "cancelled"}

(* A flow that was only acknowledged goes on to its continuation, though   *)
(* the process that should queue it dies or fails to.  Two things keep it  *)
(* from that: the terminate button cancels the continuation, after which   *)
(* reconciliation passes the flow over, and other flows for ever stand     *)
(* before it, one of which ends every reconciliation or which together are *)
(* as many as one looks at.                                                *)
ContinuationsFollow ==
    \A f \in Flow \ AckOnly :
        \/ flow[f].status = "runtime_acknowledged"
               ~> \/ flow[f].status # "runtime_acknowledged"
                  \/ turn[f].semantic.status = "cancelled"
        \/ []<>~Reached(f)
=============================================================================
