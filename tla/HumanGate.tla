------------------------------- MODULE HumanGate -------------------------------
(***************************************************************************)
(* Human Gates of v1 workflows: the request with its buttons, the tick     *)
(* that repairs and repeats requests (human_gate_request_ensure), the      *)
(* callback of a button with the words of the human, what the decision     *)
(* does to the workflow, and the dispatch that carries it on.              *)
(***************************************************************************)
EXTENDS GateTables

(* humanGateRequest for the stage, for a gate that is named, or to replace *)
(* the pending gate of the stage by one with a fresh id.  A gate that is   *)
(* already decided is only reported.                                       *)
Reopenable(g) == gate[g].status \in {"absent", "pending", "superseded"}

RequestBegins(q, kind, g) ==
    /\ At(q, "idle") /\ Reopenable(g)
    /\ kind = "stage" => g = StageGate
    /\ kind = "replace" =>
         \E i \in DOMAIN FreshGates :
            /\ g = FreshGates[i] /\ gate[g].born = 0
            /\ \A j \in 1..(i - 1) : gate[FreshGates[j]].born > 0
    /\ Count("requests", MaxRequests)
    /\ Become(q, [Idle EXCEPT !.pc = IF kind = "replace" THEN "match" ELSE "locked?",
                              !.kind = kind, !.gate = g])
    /\ UNCHANGED tables

RequestReadsLocked(q) ==
    /\ At(q, "locked?")
    /\ IF Locked(at[q].gate) THEN Stop(q) ELSE Goto(q, "match")
    /\ UNCHANGED <<tables, bounds>>

RequestMatchesStage(q) ==
    LET excluded == IF at[q].kind = "named" THEN at[q].gate ELSE None IN
    /\ At(q, "match")
    /\ \/ Pending(excluded) = {} /\ Goto(q, "record")
       \/ /\ Pending(excluded) # {} /\ at[q].kind = "replace"
          /\ Become(q, [at[q] EXCEPT !.pc = "supersede", !.old = PendingForStage(excluded)])
       \/ /\ Pending(excluded) # {} /\ at[q].kind # "replace"
          /\ Become(q, [at[q] EXCEPT !.pc = "buttons", !.gate = PendingForStage(excluded)])
    /\ UNCHANGED <<tables, bounds>>

(* supersedeHumanGateRecord: the record, its buttons, then the outbox row  *)
(* that was read.                                                          *)
Supersede(q) ==
    /\ At(q, "supersede")
    /\ gate' = [gate EXCEPT ![at[q].old].status = IF @ = "pending" THEN "superseded" ELSE @]
    /\ Goto(q, "supersede buttons")
    /\ UNCHANGED <<button, ask, run, dispatch, retry, bounds>>

SupersedeButtons(q) ==
    LET g == at[q].old IN
    /\ At(q, "supersede buttons")
    /\ button' = [button EXCEPT ![g] = MoveButtons(g, {"active", "feedback_pending"}, "superseded")]
    /\ Goto(q, "read ask")
    /\ UNCHANGED <<gate, ask, run, dispatch, retry, bounds>>

SupersedeReadsAsk(q) ==
    /\ At(q, "read ask")
    /\ Goto(q, IF ask[at[q].old] \in {"queued", "failed"} THEN "cancel ask" ELSE "record")
    /\ UNCHANGED <<tables, bounds>>

SupersedeCancelsAsk(q) ==
    /\ At(q, "cancel ask")
    /\ ask' = [ask EXCEPT ![at[q].old] = "cancelled"]
    /\ Goto(q, "record")
    /\ UNCHANGED <<gate, button, run, dispatch, retry, bounds>>

RequestRecords(q) ==
    /\ At(q, "record")
    /\ RecordPending(at[q].gate)
    /\ Goto(q, "buttons")
    /\ UNCHANGED <<button, ask, run, dispatch, retry, bounds>>

RequestReadsButtons(q) ==
    /\ At(q, "buttons")
    /\ Goto(q, IF Active(at[q].gate) = {} THEN "create" ELSE "ask")
    /\ UNCHANGED <<tables, bounds>>

(* createHumanGateButtons: none when the gate is locked, else one by one.  *)
CreateReadsLocked(p) ==
    /\ At(p, "create")
    /\ Become(p, IF Locked(at[p].gate) THEN [at[p] EXCEPT !.pc = "ask"]
                 ELSE [at[p] EXCEPT !.pc = "create button", !.next = 1])
    /\ UNCHANGED <<tables, bounds>>

(* Faulty, for SelectionIsFinal: ON CONFLICT without its WHERE.            *)
RevivedAlways(status) == "active"

Revived(status) == IF status \in {"absent", "superseded"} THEN "active" ELSE status

CreateButton(p) ==
    LET b == Buttons[at[p].next]  last == at[p].next = Len(Buttons) IN
    /\ At(p, "create button")
    /\ button' = [button EXCEPT ![at[p].gate][b] = Revived(@)]
    /\ Become(p, IF last THEN [at[p] EXCEPT !.pc = "ask", !.next = 0]
                 ELSE [at[p] EXCEPT !.next = @ + 1])
    /\ UNCHANGED <<gate, ask, run, dispatch, retry, bounds>>

RequestAsks(q) ==
    /\ q \in Requester /\ At(q, "ask")
    /\ ask' = [ask EXCEPT ![at[q].gate] = Enqueued(at[q].gate)]
    /\ Stop(q)
    /\ UNCHANGED <<gate, button, run, dispatch, retry, bounds>>

-----------------------------------------------------------------------------
(* ensurePendingHumanGateRequests: the outbox is read first, then the      *)
(* oldest pending gates, then one after the other is looked after.         *)
NextGate(local) ==
    IF local.todo = {} THEN Idle
    ELSE LET g == CHOOSE g \in local.todo : \A h \in local.todo : gate[g].born <= gate[h].born
         IN [local EXCEPT !.pc = "tick gate", !.gate = g, !.todo = @ \ {g}, !.fresh = FALSE]

TickReadsAsks(k) ==
    /\ At(k, "idle")
    /\ Become(k, [Idle EXCEPT !.pc = "tick gates", !.seen = ask])
    /\ UNCHANGED <<tables, bounds>>

TickReadsGates(k) ==
    /\ At(k, "tick gates")
    /\ Become(k, NextGate([at[k] EXCEPT !.todo = {g \in Gate : InWindow(g)},
                                       !.kept = {g \in Gate : gate[g].stored}]))
    /\ UNCHANGED <<tables, bounds>>

TickReadsLocked(k) ==
    /\ At(k, "tick gate")
    /\ IF Locked(at[k].gate) THEN Become(k, NextGate(at[k])) ELSE Goto(k, "tick buttons")
    /\ UNCHANGED <<tables, bounds>>

(* Faulty, for GatesAreAsked: existing buttons are retained whatever they  *)
(* are.                                                                    *)
RefreshNever(k) ==
    /\ At(k, "tick buttons")
    /\ Goto(k, "ask")
    /\ UNCHANGED <<tables, bounds>>

(* Options that the record keeps are the measure of the buttons.  A record *)
(* without them, as options that came as top-level buttons leave it, has   *)
(* only its buttons to be audited, which may pass while there are any.     *)
TickReadsButtons(k) ==
    LET g == at[k].gate  active == Active(g)  stored == g \in at[k].kept IN
    /\ At(k, "tick buttons")
    /\ \/ active # {} /\ (stored => active = Button) /\ Goto(k, "ask")
       \/ /\ stored /\ active # Button
          /\ Become(k, [at[k] EXCEPT !.pc = IF active = {} THEN "create" ELSE "refresh",
                                      !.fresh = TRUE])
       \/ ~stored /\ Goto(k, "withdraw")
    /\ UNCHANGED <<tables, bounds>>

(* The audit failed: the buttons give way, and the message with the status *)
(* that was read is cancelled.  The dispatch that asks main for a revision *)
(* is not followed.                                                        *)
TickWithdraws(k) ==
    LET g == at[k].gate IN
    /\ At(k, "withdraw")
    /\ button' = [button EXCEPT ![g] = MoveButtons(g, {"active"}, "superseded")]
    /\ Goto(k, IF at[k].seen[g] = "absent" THEN "look again" ELSE "cancel")
    /\ UNCHANGED <<gate, ask, run, dispatch, retry, bounds>>

TickLooksAgain(k) ==
    LET g == at[k].gate IN
    /\ At(k, "look again")
    /\ Become(k, [at[k] EXCEPT !.pc = "cancel", !.seen[g] = ask[g]])
    /\ UNCHANGED <<tables, bounds>>

TickCancelsAsk(k) ==
    LET g == at[k].gate IN
    /\ At(k, "cancel")
    /\ ask' = IF at[k].seen[g] \in {"queued", "failed"} THEN [ask EXCEPT ![g] = "cancelled"] ELSE ask
    /\ Become(k, NextGate(at[k]))
    /\ UNCHANGED <<gate, button, run, dispatch, retry, bounds>>

TickRefreshes(k) ==
    LET g == at[k].gate IN
    /\ At(k, "refresh")
    /\ button' = [button EXCEPT ![g] = MoveButtons(g, {"active"}, "superseded")]
    /\ Goto(k, "create")
    /\ UNCHANGED <<gate, ask, run, dispatch, retry, bounds>>

(* A message that was sent is sent again after a while without an answer,  *)
(* and at once when its buttons are fresh.                                 *)
TickAsks(k) ==
    LET g == at[k].gate  seen == at[k].seen[g] IN
    /\ k \in Ticker /\ At(k, "ask")
    /\ \/ seen = "queued" /\ UNCHANGED ask
       \/ seen = "sent" /\ ~at[k].fresh /\ UNCHANGED ask
       \/ seen \in {"sent", "failed"} /\ ask' = [ask EXCEPT ![g] = "queued"]
       \/ seen \in {"absent", "cancelled"} /\ ask' = [ask EXCEPT ![g] = Enqueued(g)]
    /\ Become(k, NextGate(at[k]))
    /\ UNCHANGED <<gate, button, run, dispatch, retry, bounds>>

-----------------------------------------------------------------------------
(* humanGateButtonCallback.  Whoever holds the token of a button may call  *)
(* it; without words it is a click, with words the submission of the web   *)
(* app, of /hgate or of human_gate.resume.  The button is read, and the    *)
(* record for its expiry; a button in any other status was processed.      *)
Answerable(g, b, words) ==
    IF words THEN button[g][b] \in {"active", "feedback_pending"} ELSE button[g][b] = "active"

CallbackBegins(h, g, b, words) ==
    /\ At(h, "idle") /\ button[g][b] # "absent"
    /\ gate[g].lapsed \/ Answerable(g, b, words)
    /\ Count("clicks", MaxClicks)
    /\ Become(h, [Idle EXCEPT !.gate = g, !.button = b,
                     !.pc = CASE gate[g].lapsed -> "expire buttons"
                              [] ~gate[g].lapsed /\ words -> "select"
                              [] OTHER -> "choose"])
    /\ UNCHANGED tables

ExpireButtons(h) ==
    LET g == at[h].gate IN
    /\ At(h, "expire buttons")
    /\ button' = [button EXCEPT ![g] = MoveButtons(g, {"active", "feedback_pending"}, "expired")]
    /\ Goto(h, "expire record")
    /\ UNCHANGED <<gate, ask, run, dispatch, retry, bounds>>

ExpireRecord(h) ==
    /\ At(h, "expire record")
    /\ gate' = [gate EXCEPT ![at[h].gate].status = IF @ = "pending" THEN "expired" ELSE @]
    /\ Stop(h)
    /\ UNCHANGED <<button, ask, run, dispatch, retry, bounds>>

(* The click: the other buttons give way unless one was clicked before.    *)
Choosable(g) == Active(g) # {} /\ ~Locked(g)

ChooseButton(h) ==
    LET g == at[h].gate  moved == MoveButtons(g, {"active"}, "superseded") IN
    /\ At(h, "choose")
    /\ IF Choosable(g)
       THEN /\ button' = [button EXCEPT ![g] =
                  [b \in Button |-> IF b = at[h].button /\ button[g][b] = "active"
                                    THEN "feedback_pending" ELSE moved[b]]]
            /\ Goto(h, "await words")
       ELSE Stop(h) /\ UNCHANGED button
    /\ UNCHANGED <<gate, ask, run, dispatch, retry, bounds>>

(* updateHumanGateRecordFeedback writes the record by its id alone.        *)
RecordAwaitsWords(h) ==
    /\ At(h, "await words")
    /\ gate' = [gate EXCEPT ![at[h].gate].status = "pending"]
    /\ Stop(h)
    /\ UNCHANGED <<button, ask, run, dispatch, retry, bounds>>

(* The submission: the other buttons give way unless one is selected.      *)
(* Faulty, for OneChoice: without NOT EXISTS.                              *)
SelectableAgain(g) == ButtonsOf(g, {"active", "feedback_pending"}) # {}

Selectable(g) ==
    /\ ButtonsOf(g, {"active", "feedback_pending"}) # {}
    /\ ButtonsOf(g, {"selected"}) = {}

SelectButton(h) ==
    LET g == at[h].gate
        open == {"active", "feedback_pending"}
        moved == MoveButtons(g, open, "superseded")
    IN
    /\ At(h, "select")
    /\ IF Selectable(g)
       THEN /\ button' = [button EXCEPT ![g] =
                  [b \in Button |-> IF b = at[h].button /\ button[g][b] \in open
                                    THEN "selected" ELSE moved[b]]]
            /\ Goto(h, "decide")
       ELSE Stop(h) /\ UNCHANGED button
    /\ UNCHANGED <<gate, ask, run, dispatch, retry, bounds>>

RecordDecision(h) ==
    /\ At(h, "decide")
    /\ gate' = [gate EXCEPT ![at[h].gate].status = Decision[at[h].button]]
    /\ Goto(h, "apply")
    /\ UNCHANGED <<button, ask, run, dispatch, retry, bounds>>

-----------------------------------------------------------------------------
(* applyHumanGateWorkflowDecision.  Jobs of the control loop are cancelled *)
(* as in JobQueue; of the workflow's tasks nothing else is modelled.       *)
ApplyContinue(h) ==
    /\ At(h, "apply") /\ Decision[at[h].button] \in {"approved", "rejected"}
    /\ run' = IF run \in {"active", "paused"} THEN "active" ELSE run
    /\ Goto(h, "look up")
    /\ UNCHANGED <<gate, button, ask, dispatch, retry, bounds>>

ApplyPause(h) ==
    /\ At(h, "apply") /\ Decision[at[h].button] = "paused"
    /\ run' = "paused"
    /\ Goto(h, "cancel jobs")
    /\ UNCHANGED <<gate, button, ask, dispatch, retry, bounds>>

(* Faulty, for TypeOK: the run takes the status of the gate.               *)
RunTerminated(h) ==
    /\ At(h, "apply") /\ Decision[at[h].button] = "terminated"
    /\ run' = "terminated"
    /\ Goto(h, "cancel dispatches")
    /\ UNCHANGED <<gate, button, ask, dispatch, retry, bounds>>

ApplyTerminate(h) ==
    /\ At(h, "apply") /\ Decision[at[h].button] = "terminated"
    /\ run' = "stopped"
    /\ Goto(h, "cancel dispatches")
    /\ UNCHANGED <<gate, button, ask, dispatch, retry, bounds>>

CancelDispatches(h) ==
    /\ At(h, "cancel dispatches")
    /\ dispatch' = [g \in Gate |-> [b \in Button |->
                      IF dispatch[g][b] = "queued" THEN "cancelled" ELSE dispatch[g][b]]]
    /\ Goto(h, "cancel jobs")
    /\ UNCHANGED <<gate, button, ask, run, retry, bounds>>

CancelJobs(h) ==
    /\ At(h, "cancel jobs")
    /\ retry' = [g \in Gate |-> [b \in Button |->
                   IF retry[g][b] \in {"queued", "running"} THEN "cancelled" ELSE retry[g][b]]]
    /\ IF Decision[at[h].button] = "paused" THEN Stop(h) ELSE Goto(h, "look up")
    /\ UNCHANGED <<gate, button, ask, run, dispatch, bounds>>

(* meetingDispatch: looked up by its idempotency key, inserted unless the  *)
(* unique index finds it there, then its flow and its file.  An approval   *)
(* has one, to main or for the pre-order audit of cat_tail; the two that   *)
(* close a terminated workflow are taken as one.                           *)
DispatchLooksUp(p) ==
    /\ At(p, "look up")
    /\ Goto(p, IF dispatch[at[p].gate][at[p].button] = "absent" THEN "insert" ELSE "made")
    /\ UNCHANGED <<tables, bounds>>

DispatchInserts(p) ==
    LET g == at[p].gate  b == at[p].button IN
    /\ At(p, "insert")
    /\ dispatch' = [dispatch EXCEPT ![g][b] = IF @ = "absent" THEN "queued" ELSE @]
    /\ Goto(p, "made")
    /\ UNCHANGED <<gate, button, ask, run, retry, bounds>>

(* safeMeetingDispatchWithRetry: what throws is left to a job, unless one  *)
(* is active.  What a callback throws before it comes here nobody catches, *)
(* see Die.                                                                *)
DispatchThrows(p) ==
    /\ At(p, "look up") \/ At(p, "insert") \/ At(p, "made")
    /\ \/ p \in Ticker /\ UNCHANGED bounds
       \/ p \in Human /\ Count("mishaps", MaxMishaps)
    /\ Goto(p, "thrown")
    /\ UNCHANGED tables

(* Faulty, for ChoicesAreDispatched: the error is reported and forgotten.  *)
RetryForgotten(p) ==
    /\ At(p, "thrown")
    /\ Stop(p)
    /\ UNCHANGED <<tables, bounds>>

RetryEnqueued(p) ==
    LET g == at[p].gate  b == at[p].button IN
    /\ At(p, "thrown") /\ p \notin Ticker
    /\ retry' = [retry EXCEPT ![g][b] = IF @ \in {"queued", "running"} THEN @ ELSE "queued"]
    /\ Stop(p)
    /\ UNCHANGED <<gate, button, ask, run, dispatch, bounds>>

(* The job is scheduled again, or after maxAttempts fails for good; which  *)
(* attempt this one is JobQueue counts.                                    *)
RetryFails(k) ==
    LET g == at[k].gate  b == at[k].button IN
    /\ At(k, "thrown") /\ k \in Ticker
    /\ \/ /\ retry' = [retry EXCEPT ![g][b] = IF @ = "running" THEN "queued" ELSE @]
          /\ Count("mishaps", MaxMishaps)
       \/ /\ retry' = [retry EXCEPT ![g][b] = IF @ = "running" THEN "failed" ELSE @]
          /\ UNCHANGED bounds
    /\ Stop(k)
    /\ UNCHANGED <<gate, button, ask, run, dispatch>>

(* A job whose tick died is taken over after its lease.                    *)
Runnable(g, b) ==
    \/ retry[g][b] = "queued"
    \/ retry[g][b] = "running" /\ \A k \in Ticker : at[k].gate # g \/ at[k].button # b

RetryRuns(k, g, b) ==
    /\ At(k, "idle") /\ Runnable(g, b)
    /\ retry' = [retry EXCEPT ![g][b] = "running"]
    /\ Become(k, [Idle EXCEPT !.pc = "look up", !.gate = g, !.button = b])
    /\ UNCHANGED <<gate, button, ask, run, dispatch, bounds>>

DispatchMade(p) ==
    LET g == at[p].gate  b == at[p].button IN
    /\ At(p, "made")
    /\ retry' = IF p \in Ticker /\ retry[g][b] = "running"
                THEN [retry EXCEPT ![g][b] = "completed"] ELSE retry
    /\ Stop(p)
    /\ UNCHANGED <<gate, button, ask, run, dispatch, bounds>>

-----------------------------------------------------------------------------
RequestStep(q) ==
    \/ RequestReadsLocked(q) \/ RequestMatchesStage(q)
    \/ Supersede(q) \/ SupersedeButtons(q)
    \/ SupersedeReadsAsk(q) \/ SupersedeCancelsAsk(q)
    \/ RequestRecords(q) \/ RequestReadsButtons(q)
    \/ CreateReadsLocked(q) \/ CreateButton(q) \/ RequestAsks(q)

TickStep(k) ==
    \/ TickReadsGates(k) \/ TickReadsLocked(k) \/ TickReadsButtons(k)
    \/ TickWithdraws(k) \/ TickLooksAgain(k) \/ TickCancelsAsk(k)
    \/ TickRefreshes(k) \/ CreateReadsLocked(k) \/ CreateButton(k) \/ TickAsks(k)

DispatchStep(p) ==
    \/ DispatchLooksUp(p) \/ DispatchInserts(p) \/ DispatchMade(p)
    \/ RetryEnqueued(p) \/ RetryFails(p)

CallbackStep(h) ==
    \/ ExpireButtons(h) \/ ExpireRecord(h)
    \/ ChooseButton(h) \/ RecordAwaitsWords(h) \/ SelectButton(h) \/ RecordDecision(h)
    \/ ApplyContinue(h) \/ ApplyPause(h) \/ ApplyTerminate(h)
    \/ CancelDispatches(h) \/ CancelJobs(h) \/ DispatchStep(h)
=============================================================================
