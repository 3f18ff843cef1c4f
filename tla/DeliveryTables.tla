---------------------------- MODULE DeliveryTables ----------------------------
(***************************************************************************)
(* The tables behind what an agent's answer becomes for the person who     *)
(* asked: mixed_meeting_dispatches (turn), message_flows (flow),           *)
(* telegram_outbox (outbox), and the chat itself (posted).                 *)
(*                                                                         *)
(* Every sqlite() call is one atomic step; in between other processes run. *)
(* Two reads of one row that follow each other are taken as one, and so    *)
(* is the read that follows a write of the same process.                   *)
(*                                                                         *)
(* A flow has one message, flow-<flow_id>.  The other messages are Human   *)
(* Gate requests, whose text may be replaced, and messages with buttons    *)
(* that open the web app, which are tried over the Bot API first.          *)
(***************************************************************************)
EXTENDS Integers, FiniteSets

CONSTANTS
    Flow,
    AckFirst,         \* flows whose first turn only acknowledges
    AckOnly,          \* those with ackContract.semanticContinuation false
    Stoppable,        \* flows of the workflow that a person may terminate
    Silent,           \* flows nobody is answered: return_policy silent
    Request,          \* messages of type human_gate_request
    WebApp,           \* other messages with a keyboard for the web app
    Sender,           \* processes that send messages, deliver or mark
    Drain,            \* processes that run runtime.bridge.drain
    Reconciler,       \* processes that reconcile dispatches and flows
    Mortal,           \* the processes that may die
    Redeliverable,    \* messages an operator delivers again by id
    MarkedAs,         \* the statuses an operator marks rows with
    MaxAttempts,      \* max_attempts of a first turn; a continuation has 1
    Parts,            \* telegramChunks: parts of a message
    PartTime,         \* timeoutSeconds: longest time to send one part
    Lease,            \* TELEGRAM_OUTBOX_DELIVERY_LEASE_MS
    LateTurns,        \* whether a run may outlast the stale window
    RecoverLimit,     \* flows one reconciliation looks at: limit
    MaxTime,          \* bound: last instant of the clock
    MaxBegun,         \* bound: messages and flows in use
    MaxTexts,         \* bound: texts of one Human Gate request
    MaxMarks,         \* bound: rows marked by an operator
    MaxFaults,        \* bound: statements that throw
    MaxCrashes,       \* bound: processes that die
    MaxMishaps        \* bound: both together

Message == Flow \cup Request \cup WebApp
Process == Sender \cup Drain \cup Reconciler

ASSUME DeliveryAssumption ==
    /\ AckFirst \subseteq Flow /\ Silent \subseteq Flow
    /\ AckOnly \subseteq AckFirst /\ Stoppable \subseteq Flow
    /\ Message # {} /\ Flow \cap (Request \cup WebApp) = {}
    /\ Request \cap WebApp = {}
    /\ Mortal \subseteq Process /\ Redeliverable \subseteq Message
    /\ MaxAttempts \in Nat \ {0} /\ Parts \in Nat \ {0}
    /\ PartTime \in Nat \ {0} /\ Lease \in Nat
    /\ LateTurns \in BOOLEAN /\ RecoverLimit \in Nat \ {0}
    /\ MarkedAs \subseteq {"queued", "delivering", "sent", "failed", "cancelled"}
    /\ {MaxTime, MaxBegun, MaxTexts, MaxMarks, MaxFaults,
         MaxCrashes, MaxMishaps} \subseteq Nat

VARIABLES
    clock,
    turn,       \* the dispatches of a flow: the first turn and the continuation
    flow,
    incident,   \* flows recorded as stuck
    outbox,
    posted,     \* the parts that reached the chat
    at,         \* where each process is in its handler, and its variables
    texts, marks, faults, crashes

bounds == <<texts, marks, faults, crashes>>
tables == <<turn, flow, incident, outbox, posted>>
vars == <<clock, tables, at, bounds>>

-----------------------------------------------------------------------------
Kind == {"first", "semantic"}
TurnStatus == {"absent", "queued", "sent", "acked", "failed", "cancelled"}
Turn == [status : TurnStatus, attempt : Nat]
NoTurn == [status |-> "absent", attempt |-> 0]

(* MESSAGE_FLOW_STATUS_RANK                                                *)
Rank == [absent |-> 0, route_registered |-> 2, runtime_dispatched |-> 3,
         runtime_acknowledged |-> 4, semantic_dispatched |-> 5,
         runtime_failed |-> 6, runtime_completed |-> 6, outbound_queued |-> 7,
         telegram_failed |-> 8, telegram_sent |-> 9]

FlowStatus == DOMAIN Rank

(* output is final_output_present, receipt delivery_receipt_present, and   *)
(* queued whether outbox_id is set.                                        *)
FlowRow == [status : FlowStatus, output : BOOLEAN, receipt : BOOLEAN,
            queued : BOOLEAN]
NoFlow == [status |-> "absent", output |-> FALSE, receipt |-> FALSE,
           queued |-> FALSE]

(* What a message says: of a flow the agent's output or a notice that it   *)
(* failed, of a request its n-th text.                                     *)
Text == Nat
Output == 0
Notice == 1

(* stamp is updated_at, kept while a row is being delivered: nobody looks  *)
(* at it otherwise.                                                        *)
MessageStatus == {"absent", "queued", "delivering", "sent", "failed", "cancelled"}
MessageRow == [status : MessageStatus, text : Text, stamp : Nat, receipts : 0..Parts]
NoMessage == [status |-> "absent", text |-> Output, stamp |-> 0, receipts |-> 0]

(* Where a sender is, where a process is in the run of a turn and in what  *)
(* follows it, and in which call of updateMessageFlow.                     *)
SenderPc == {"idle", "create flow", "replace", "claim", "send", "failed"}
TurnPc == {"start", "run", "ack", "fail", "acknowledge", "continue", "record",
           "finish", "outbound", "enqueue", "deliver", "write", "sync"}
Stage == {"", "start", "acknowledge", "finish", "enqueue", "sync"}

(* m is the message and, where it is one, the flow a process works on, row *)
(* the outbox row it read, kind and attempt the turn, trying whether it is *)
(* in the try block around the run, to the status a flow is to get, stage  *)
(* the call of updateMessageFlow it is in, ok how the run or the delivery  *)
(* ended, web whether the Bot API is used, since when it began to send.    *)
Locals == [pc : SenderPc \cup TurnPc, m : Message, row : MessageRow, kind : Kind,
           attempt : Nat, trying : BOOLEAN, to : FlowStatus, stage : Stage,
           ok : BOOLEAN, web : BOOLEAN, since : Nat]

Idle == [pc |-> "idle", m |-> CHOOSE m \in Message : TRUE, row |-> NoMessage,
         kind |-> "first", attempt |-> 0, trying |-> FALSE, to |-> "absent",
         stage |-> "", ok |-> FALSE, web |-> FALSE, since |-> 0]

TypeOK ==
    /\ clock \in Nat
    /\ turn \in [Flow -> [Kind -> Turn]]
    /\ flow \in [Flow -> FlowRow]
    /\ incident \subseteq Flow
    /\ outbox \in [Message -> MessageRow]
    /\ posted \in [Message -> SUBSET (Text \X (1..Parts))]
    /\ at \in [Process -> Locals]
    /\ texts \in Nat /\ marks \in Nat /\ faults \in Nat /\ crashes \in Nat

Init ==
    /\ clock = 1
    /\ turn = [f \in Flow |-> [k \in Kind |-> NoTurn]]
    /\ flow = [f \in Flow |-> NoFlow]
    /\ incident = {}
    /\ outbox = [m \in Message |-> NoMessage]
    /\ posted = [m \in Message |-> {}]
    /\ at = [p \in Process |-> Idle]
    /\ texts = 0 /\ marks = 0 /\ faults = 0 /\ crashes = 0

MayBegin ==
    Cardinality({m \in Message : outbox[m].status # "absent"}
                \cup {f \in Flow : turn[f].first.status # "absent"}) < MaxBegun

MayThrow == faults < MaxFaults /\ faults + crashes < MaxMishaps

At(p, label) == at[p].pc = label
Become(p, locals) == at' = [at EXCEPT ![p] = locals]
Goto(p, label) == Become(p, [at[p] EXCEPT !.pc = label])
Stop(p) == Become(p, Idle)

PutTurn(f, k, status, attempt) ==
    turn' = [turn EXCEPT ![f][k] = [status |-> status, attempt |-> attempt]]

PutMessage(m, row) == outbox' = [outbox EXCEPT ![m] = row]

-----------------------------------------------------------------------------
(* updateMessageFlow reads the status, refuses a regression, and writes by *)
(* flow_id alone.                                                          *)

(* isMessageFlowStatusRegression                                           *)
IsRegression(now, next) ==
    /\ now # next
    /\ \/ Rank[next] < Rank[now]
       \/ now = "runtime_completed" /\ next = "runtime_failed"

(* The columns each caller patches besides the status.                     *)
Patched(row, p) ==
    LET stage == at[p].stage
        to == at[p].to IN
    [row EXCEPT
        !.status = to,
        !.output = CASE stage = "finish" -> to = "runtime_completed"
                     [] stage = "acknowledge" -> FALSE
                     [] OTHER -> @,
        !.receipt = CASE stage = "sync" -> at[p].ok /\ at[p].row.receipts > 0
                      [] stage = "acknowledge" -> FALSE
                      [] OTHER -> @,
        !.queued = @ \/ stage \in {"enqueue", "sync"}]

(* Where the caller goes on, and where when the update was refused.        *)
Onward(stage) ==
    CASE stage = "start" -> "run"
      [] stage = "acknowledge" -> "continue"
      [] stage = "finish" -> "outbound"
      [] stage = "enqueue" -> "deliver"
      [] stage = "sync" -> "idle"

Refused(stage) == IF stage = "finish" THEN "idle" ELSE Onward(stage)

Continue(p, label) == IF label = "idle" THEN Stop(p) ELSE Goto(p, label)

ReadFlow(p, stage, to) ==
    IF flow[at[p].m].status = "absent"
    THEN Continue(p, IF stage = "start" THEN "run" ELSE "idle")
    ELSE IF IsRegression(flow[at[p].m].status, to)
    THEN Continue(p, Refused(stage))
    ELSE Become(p, [at[p] EXCEPT !.pc = "write", !.stage = stage, !.to = to])

WriteFlow(p) ==
    /\ At(p, "write")
    /\ LET f == at[p].m IN flow' = [flow EXCEPT ![f] = Patched(@, p)]
    /\ Continue(p, Onward(at[p].stage))
    /\ UNCHANGED <<clock, turn, incident, outbox, posted, bounds>>
=============================================================================
