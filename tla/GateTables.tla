------------------------------ MODULE GateTables ------------------------------
(***************************************************************************)
(* The tables a Human Gate of a v1 workflow lives in: protocol_objects     *)
(* (gate), human_gate_buttons (button), the gate's row of telegram_outbox  *)
(* (ask), workflow_runs (run), mixed_meeting_dispatches (dispatch) and     *)
(* the jobs that create a dispatch again (retry).                          *)
(*                                                                         *)
(* One workflow and one stage of it: the gates are those the stage is      *)
(* asked with, the one whose id is derived from the stage and the ones     *)
(* that replace it.  Every gate offers the same buttons.                   *)
(*                                                                         *)
(* Every sqlite() call is one atomic step; in between other processes run. *)
(* The control events, transcripts and workflow events that handlers also  *)
(* append are never read by them and are left out.                         *)
(***************************************************************************)
EXTENDS Integers, Sequences, SequencesExt, FiniteSets

CONSTANTS
    StageGate,        \* the id derived from workflow, type and stage
    FreshGates,       \* sequence of the ids that replacements take in turn
    Buttons,          \* sequence of the buttons in the order of their creation
    Decision,         \* decision_status of each button
    Requester,        \* processes that run human_gate.request
    Human,            \* processes that run human_gate.button_callback
    Ticker,           \* processes that run jobs of the control loop
    Kinds,            \* kinds of requests made
    MayExpire,        \* gates with an expiresAt
    Storing,          \* whether the record of a request keeps its options
    AskLimit,         \* LIMIT of the pending gates that a tick takes
    MaxRequests,      \* bound: requests
    MaxClicks,        \* bound: callbacks
    MaxMishaps        \* bound: processes that die, dispatches that throw,
                      \* jobs scheduled again and gates that expire, together

Fresh == {FreshGates[i] : i \in DOMAIN FreshGates}
Gate == {StageGate} \cup Fresh
Button == {Buttons[i] : i \in DOMAIN Buttons}
Process == Requester \cup Human \cup Ticker
None == "none"

ASSUME GateAssumption ==
    /\ FreshGates \in Seq(Fresh) /\ IsInjective(FreshGates) /\ IsInjective(Buttons)
    /\ StageGate \notin Fresh
    /\ Decision \in [Button -> {"approved", "rejected", "paused", "terminated"}]
    /\ Cardinality({b \in Button : Decision[b] = "approved"}) \in 2..5
    /\ Kinds \subseteq {"stage", "named", "replace"}
    /\ MayExpire \subseteq Gate /\ Storing \subseteq BOOLEAN
    /\ {AskLimit, MaxRequests, MaxClicks, MaxMishaps} \subseteq Nat

VARIABLES
    gate,       \* the records, with the order of their creation
    button,
    ask,        \* outbox row hgate-<gate>: the request the human is sent
    run,        \* status of the workflow
    dispatch,   \* what a decision is followed by, unique by idempotency key
    retry,      \* job meeting_dispatch_retry of that key
    at,         \* where each process stands, and what it has read
    bounds,
    room        \* places of a tick's LIMIT that older gates of other
                \* stages leave to this one

tables == <<gate, button, ask, run, dispatch, retry>>
vars == <<tables, at, bounds>>

GateStatus == {"absent", "pending", "approved", "rejected", "paused",
               "terminated", "expired", "superseded"}
ButtonStatus == {"absent", "active", "feedback_pending", "selected",
                 "superseded", "expired"}
AskStatus == {"absent", "queued", "sent", "failed", "cancelled"}

Idle == [pc |-> "idle", kind |-> None, gate |-> None, old |-> None,
         button |-> None, seen |-> None, todo |-> {}, kept |-> {}, next |-> 0, fresh |-> FALSE]

At(p, pc) == at[p].pc = pc
Become(p, local) == at' = [at EXCEPT ![p] = local]
Goto(p, pc) == at' = [at EXCEPT ![p].pc = pc]
Stop(p) == Become(p, Idle)
Count(what, limit) ==
    bounds[what] < limit /\ bounds' = [bounds EXCEPT ![what] = @ + 1]

Init ==
    /\ gate = [g \in Gate |-> [status |-> "absent", born |-> 0, lapsed |-> FALSE, stored |-> FALSE]]
    /\ button = [g \in Gate |-> [b \in Button |-> "absent"]]
    /\ ask = [g \in Gate |-> "absent"]
    /\ run = "active"
    /\ dispatch = [g \in Gate |-> [b \in Button |-> "absent"]]
    /\ retry = [g \in Gate |-> [b \in Button |-> "absent"]]
    /\ at = [p \in Process |-> Idle]
    /\ bounds = [requests |-> 0, clicks |-> 0, mishaps |-> 0]
    /\ room \in 0..AskLimit

-----------------------------------------------------------------------------
ButtonsOf(g, S) == {b \in Button : button[g][b] \in S}

Locked(g) == ButtonsOf(g, {"feedback_pending", "selected"}) # {}

Active(g) == ButtonsOf(g, {"active"})

(* UPDATE human_gate_buttons SET status WHERE human_gate_id AND status IN S *)
MoveButtons(g, S, to) ==
    [b \in Button |-> IF button[g][b] \in S THEN to ELSE button[g][b]]

Pending(excluded) == {g \in Gate \ {excluded} : gate[g].status = "pending"}

(* pendingHumanGateForStage: the latest of the pending gates.              *)
PendingForStage(excluded) ==
    CHOOSE g \in Pending(excluded) :
        \A other \in Pending(excluded) : gate[other].born <= gate[g].born

(* The pending gates of the stage that a tick takes: ORDER BY created_at.  *)
InWindow(g) ==
    /\ gate[g].status = "pending"
    /\ Cardinality({h \in Pending(g) : gate[h].born < gate[g].born}) < room

(* protocolRecord with status pending: inserted, or updated whatever the   *)
(* status the row has by now; the new request has its own expiresAt.  The  *)
(* payload of the request is stored, options that came beside it are not.  *)
RecordPending(g) ==
    \E stored \in Storing :
        gate' = [gate EXCEPT ![g] =
                   [status |-> "pending", lapsed |-> FALSE, stored |-> stored,
                    born |-> IF @.born > 0 THEN @.born
                             ELSE 1 + Cardinality({h \in Gate : gate[h].born > 0})]]

(* enqueueTelegramOutbox for a Human Gate request, taken apart in          *)
(* TelegramOutbox: inserted, or queued again when cancelled or failed.     *)
Enqueued(g) ==
    IF ask[g] \in {"absent", "cancelled", "failed"} THEN "queued" ELSE ask[g]

TypeOK ==
    /\ \A g \in Gate : gate[g].status \in GateStatus /\ gate[g].born \in 0..Cardinality(Gate)
    /\ \A g \in Gate, b \in Button : button[g][b] \in ButtonStatus
    /\ ask \in [Gate -> AskStatus]
    /\ run \in {"active", "paused", "stopped"} /\ room \in 0..AskLimit
    /\ \A g \in Gate, b \in Button :
         /\ dispatch[g][b] \in {"absent", "queued", "sent", "cancelled"}
         /\ retry[g][b] \in {"absent", "queued", "running", "completed", "failed", "cancelled"}
=============================================================================
