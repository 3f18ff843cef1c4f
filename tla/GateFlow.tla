------------------------------- MODULE GateFlow -------------------------------
(***************************************************************************)
(* Requests, ticks, callbacks and trades over the gates of one stage, with *)
(* the sender of messages, the bridge that takes dispatches, the passing   *)
(* of an expiry and the death of a process around them.                    *)
(***************************************************************************)
EXTENDS TradeChain

CONSTANTS
    Mortal,           \* the processes that may die
    Delivered,        \* bound: gates whose request the outbox delivers
    Bridged           \* bound: buttons whose dispatch a drain takes

ASSUME FlowAssumption ==
    Mortal \subseteq Process /\ Delivered \subseteq Gate /\ Bridged \subseteq Button

around == <<trades, room>>
flowVars == <<vars, around>>

(* telegram.outbox.deliver, taken apart in TelegramOutbox.                 *)
AskDelivered(g) ==
    /\ ask[g] = "queued"
    /\ \E status \in {"sent", "failed"} : ask' = [ask EXCEPT ![g] = status]
    /\ UNCHANGED <<gate, button, run, dispatch, retry, at, bounds>>

(* runtime.bridge.drain, taken apart in DispatchBridge.                    *)
DispatchTaken(g, b) ==
    /\ dispatch[g][b] = "queued"
    /\ dispatch' = [dispatch EXCEPT ![g][b] = "sent"]
    /\ UNCHANGED <<gate, button, ask, run, retry, at, bounds>>

Expire(g) ==
    /\ g \in MayExpire /\ gate[g].born > 0 /\ ~gate[g].lapsed
    /\ Count("mishaps", MaxMishaps)
    /\ gate' = [gate EXCEPT ![g].lapsed = TRUE]
    /\ UNCHANGED <<button, ask, run, dispatch, retry, at>>

(* A process that dies between two statements, or whose statement throws   *)
(* where nobody catches it.  Requests and ticks are made again; a callback *)
(* is over, and of a button that it selected a click finds it processed.   *)
Die(p) ==
    /\ p \in Mortal /\ ~At(p, "idle") /\ ~At(p, "dead")
    /\ Count("mishaps", MaxMishaps)
    /\ IF p \in Human THEN Goto(p, "dead") ELSE Stop(p)
    /\ UNCHANGED tables

(* Gates of other stages are asked and answered.                           *)
OthersMove == room' \in 0..AskLimit /\ UNCHANGED <<vars, trades>>

Begins ==
    \/ \E q \in Requester, kind \in Kinds, g \in Gate : RequestBegins(q, kind, g)
    \/ \E h \in Human, g \in Gate, b \in Button, words \in BOOLEAN :
         CallbackBegins(h, g, b, words)

TickBegins(k) ==
    \/ TickReadsAsks(k)
    \/ \E g \in Gate, b \in Button : RetryRuns(k, g, b)

Mishap ==
    \/ \E p \in Human \cup Ticker : DispatchThrows(p)
    \/ \E p \in Mortal : Die(p)
    \/ \E g \in Gate : Expire(g)

Outside ==
    \/ \E g \in Delivered : AskDelivered(g)
    \/ \E g \in Gate, b \in Bridged : DispatchTaken(g, b)

GateStep ==
    \/ Begins \/ Mishap \/ Outside
    \/ \E q \in Requester : RequestStep(q)
    \/ \E h \in Human : CallbackStep(h)
    \/ \E k \in Ticker : TickBegins(k) \/ TickStep(k) \/ DispatchStep(k)

Next ==
    \/ GateStep /\ UNCHANGED around
    \/ OthersMove
    \/ \E p \in Trader : TradeStep(p) /\ UNCHANGED room
    \/ \E c \in Core : CoreStep(c) /\ UNCHANGED room

FlowInit == Init /\ TradeInit

Spec == FlowInit /\ [][Next]_flowVars

(* The timer keeps starting ticks that look after the gates and run every  *)
(* job, and what a tick, a request or a callback has begun goes on; nobody *)
(* has to ask or to click, and no gate has to come into a tick's LIMIT.    *)
FairSpec ==
    /\ Spec
    /\ \A q \in Requester : WF_flowVars(RequestStep(q) /\ UNCHANGED around)
    /\ \A h \in Human : WF_flowVars(CallbackStep(h) /\ UNCHANGED around)
    /\ \A k \in Ticker :
         /\ WF_flowVars((TickStep(k) \/ DispatchStep(k)) /\ UNCHANGED around)
         /\ SF_flowVars(TickReadsAsks(k) /\ UNCHANGED around)
         /\ SF_flowVars((\E g \in Gate, b \in Button : RetryRuns(k, g, b)) /\ UNCHANGED around)

-----------------------------------------------------------------------------
(* One choice for each gate: never two buttons that wait for words or are  *)
(* selected, however many people submit at once, also while a tick or a    *)
(* request creates or revives buttons.                                     *)
OneChoice ==
    \A g \in Gate : Cardinality(ButtonsOf(g, {"feedback_pending", "selected"})) <= 1

(* A selected button stays selected: no later request, refresh,            *)
(* replacement, expiry or other submission takes the choice back.          *)
SelectionIsFinal ==
    [][\A g \in Gate, b \in Button :
         button[g][b] = "selected" => button'[g][b] = "selected"]_flowVars

(* An intent that reached the trading core names a gate whose approval was *)
(* handed to cat_tail for the pre-order audit.                             *)
IntentsAreAudited ==
    \A k \in Key :
        intent[k].status \notin {"absent", "rejected"} =>
            \E b \in Button : /\ Decision[b] = "approved"
                              /\ dispatch[intent[k].gate][b] # "absent"

(* A pending gate that nobody has answered is asked with all its buttons,  *)
(* though the request that created it died half way, as long as its record *)
(* keeps the options and older pending gates do not again and again fill   *)
(* the LIMIT of the ticks.                                                 *)
Unanswered(g) == gate[g].status = "pending" /\ gate[g].stored /\ ~Locked(g)

Asked(g) == Active(g) = Button /\ ask[g] \in {"queued", "sent"}

GatesAreAsked ==
    \A g \in Gate :
        Unanswered(g) ~> (~Unanswered(g) \/ Asked(g)) \/ []<>(~InWindow(g))

(* A choice that carries the workflow on is followed by its dispatch, also *)
(* when creating it throws and a job has to repeat it, unless the job was  *)
(* cancelled with the workflow or failed for good, or the callback itself  *)
(* did not come as far as the dispatch.                                    *)
Lost(g, b) ==
    \/ retry[g][b] \in {"cancelled", "failed"}
    \/ \E h \in Human : At(h, "dead") /\ at[h].gate = g /\ at[h].button = b

ChoicesAreDispatched ==
    \A g \in Gate, b \in Button :
        button[g][b] = "selected" /\ Decision[b] # "paused"
            ~> dispatch[g][b] # "absent" \/ Lost(g, b)
=============================================================================
