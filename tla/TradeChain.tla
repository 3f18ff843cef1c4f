------------------------------- MODULE TradeChain -------------------------------
(***************************************************************************)
(* From an approved Human Gate to an order: the risk decision of cat_tail, *)
(* the executable trade intent and the receipts of the trading core.  One  *)
(* trade proposal, which every gate of the stage is bound to; what is only *)
(* a check of the request's own fields is left out, and a request that     *)
(* fails one leaves a rejected intent, as here one whose parents are not   *)
(* in order does.                                                          *)
(***************************************************************************)
EXTENDS HumanGate

CONSTANTS
    Trader,           \* processes that record decisions and intents
    Core,             \* processes that record receipts of the trading core
    Key,              \* idempotency keys of intents
    Verdicts,         \* statuses of the risk decisions that come in
    Receipts          \* statuses of the receipts that come in

VARIABLES
    risk,             \* the risk_decision object and the gate it names
    intent,           \* executable_trade_intents by idempotency key
    trade             \* where traders and the core stand

trades == <<risk, intent, trade>>

(* TRADING_CORE_RECEIPT_TRANSITIONS, by the status of the intent.          *)
Transitions ==
    [ready |-> {"accepted", "submitted", "partial", "filled", "cancelled", "rejected", "failed"},
     accepted |-> {"submitted", "partial", "filled", "cancelled", "rejected", "failed"},
     submitted |-> {"partial", "filled", "cancelled", "failed", "rejected"},
     partial |-> {"partial", "filled", "cancelled", "failed"}]

ASSUME TradeAssumption ==
    /\ Verdicts \subseteq {"pending", "approved", "rejected", "revise_required"}
    /\ Receipts \subseteq Transitions.ready

Resting == [pc |-> "idle", gate |-> None, key |-> None, what |-> None, sound |-> TRUE]

TradeInit ==
    /\ risk = [status |-> "absent", gate |-> None]
    /\ intent = [k \in Key |-> [status |-> "absent", gate |-> None]]
    /\ trade = [p \in Trader \cup Core |-> Resting]

Trades(p, pc) == trade[p].pc = pc
Proceed(p, local) == trade' = [trade EXCEPT ![p] = local]
Rest(p) == Proceed(p, Resting)

(* readProtocolObject of the gate: an approved human_gate_record.          *)
Approved(g) == gate[g].status = "approved"

(* findCatTailPreOrderRiskAuditDispatch for the gate.                      *)
(* Faulty, for IntentsAreAudited: any dispatch of the type will do.        *)
AuditedAnyhow(g) == TRUE

Audited(g) ==
    \E b \in Button :
        Decision[b] = "approved" /\ dispatch[g][b] \notin {"absent", "cancelled"}

(* riskDecision: one that is not final is recorded as it comes.            *)
Final(verdict) == verdict \in {"approved", "rejected"}

RiskReadsGate(p, g, verdict) ==
    /\ Trades(p, "idle") /\ risk.status # verdict
    /\ Final(verdict) => Approved(g)
    /\ Proceed(p, [Resting EXCEPT !.pc = IF Final(verdict) THEN "risk dispatch" ELSE "risk record",
                                  !.gate = g, !.what = verdict])
    /\ UNCHANGED <<vars, risk, intent>>

RiskFindsDispatch(p) ==
    /\ Trades(p, "risk dispatch")
    /\ IF Audited(trade[p].gate) THEN Proceed(p, [trade[p] EXCEPT !.pc = "risk record"])
       ELSE Rest(p)
    /\ UNCHANGED <<vars, risk, intent>>

RiskRecords(p) ==
    /\ Trades(p, "risk record")
    /\ risk' = [status |-> trade[p].what, gate |-> trade[p].gate]
    /\ Rest(p)
    /\ UNCHANGED <<vars, intent>>

(* tradeIntent: parents are read one after the other, and what is wrong    *)
(* with them is collected; a key that is taken is replayed or refused.     *)
IntentReadsRisk(p, k, g) ==
    /\ Trades(p, "idle") /\ intent[k].status = "absent"
    /\ Proceed(p, [Resting EXCEPT !.pc = "intent gate", !.gate = g, !.key = k,
                     !.sound = risk.status = "approved" /\ risk.gate = g])
    /\ UNCHANGED <<vars, risk, intent>>

IntentReadsGate(p) ==
    /\ Trades(p, "intent gate")
    /\ Proceed(p, [trade[p] EXCEPT !.pc = "intent dispatch",
                     !.sound = @ /\ Approved(trade[p].gate) /\ ~gate[trade[p].gate].lapsed])
    /\ UNCHANGED <<vars, risk, intent>>

IntentFindsDispatch(p) ==
    /\ Trades(p, "intent dispatch")
    /\ Proceed(p, [trade[p] EXCEPT !.pc = "insert", !.sound = @ /\ Audited(trade[p].gate)])
    /\ UNCHANGED <<vars, risk, intent>>

IntentInserts(p) ==
    LET t == trade[p] IN
    /\ Trades(p, "insert")
    /\ intent' = IF intent[t.key].status # "absent" THEN intent
                 ELSE [intent EXCEPT ![t.key] =
                         [status |-> IF t.sound THEN "ready" ELSE "rejected", gate |-> t.gate]]
    /\ Rest(p)
    /\ UNCHANGED <<vars, risk>>

(* tradingCoreReceipt: checked against the status that was read, written   *)
(* by the id of the intent.  The statement before, in the same script,     *)
(* inserts the receipt's own row, which nothing reads.                     *)
Allowed(status) == IF status \in DOMAIN Transitions THEN Transitions[status] ELSE {}

ReceiptReadsIntent(c, k, status) ==
    /\ Trades(c, "idle") /\ status \in Allowed(intent[k].status)
    /\ Proceed(c, [Resting EXCEPT !.pc = "receipt", !.key = k, !.what = status])
    /\ UNCHANGED <<vars, risk, intent>>

ReceiptWrites(c) ==
    /\ Trades(c, "receipt")
    /\ intent' = [intent EXCEPT ![trade[c].key].status = trade[c].what]
    /\ Rest(c)
    /\ UNCHANGED <<vars, risk>>

TradeStep(p) ==
    \/ \E g \in Gate, verdict \in Verdicts : RiskReadsGate(p, g, verdict)
    \/ RiskFindsDispatch(p) \/ RiskRecords(p)
    \/ \E k \in Key, g \in Gate : IntentReadsRisk(p, k, g)
    \/ IntentReadsGate(p) \/ IntentFindsDispatch(p) \/ IntentInserts(p)

CoreStep(c) ==
    \/ \E k \in Key, status \in Receipts : ReceiptReadsIntent(c, k, status)
    \/ ReceiptWrites(c)
=============================================================================
