------------------------------ MODULE GateProofs ------------------------------
(***************************************************************************)
(* Theorems about the Human Gates of a stage and the trades that follow    *)
(* them, for any number of gates, buttons, people, requests, ticks and     *)
(* traders, and any bounds.                                                *)
(***************************************************************************)
EXTENDS GateFlow, FiniteSetTheorems, TLAPS

DispatchStatus == {"absent", "queued", "sent", "cancelled"}

ButtonsTyped == button \in [Gate -> [Button -> ButtonStatus]]

-----------------------------------------------------------------------------
(* The steps that write a button.                                          *)
ButtonStep(p) ==
    \/ SupersedeButtons(p) \/ CreateButton(p)
    \/ TickRefreshes(p) \/ TickWithdraws(p)
    \/ ExpireButtons(p) \/ ChooseButton(p) \/ SelectButton(p)

LEMMA RequestOnButtons ==
  ASSUME NEW q, RequestStep(q)
  PROVE  UNCHANGED button \/ ButtonStep(q)
  BY DEF RequestStep, RequestReadsLocked, RequestMatchesStage, Supersede, SupersedeReadsAsk,
     SupersedeCancelsAsk, RequestRecords, RequestReadsButtons, CreateReadsLocked,
     RequestAsks, ButtonStep, tables

LEMMA TickOnButtons ==
  ASSUME NEW k, TickBegins(k) \/ TickStep(k)
  PROVE  UNCHANGED button \/ ButtonStep(k)
  BY DEF TickBegins, TickReadsAsks, RetryRuns, TickStep, TickReadsGates, TickReadsLocked,
     TickLooksAgain, TickCancelsAsk,
     TickReadsButtons, CreateReadsLocked, TickAsks, ButtonStep, tables

LEMMA DispatchOnButtons ==
  ASSUME NEW p, DispatchStep(p)
  PROVE  UNCHANGED button
  BY DEF DispatchStep, DispatchLooksUp, DispatchInserts, DispatchMade,
     RetryEnqueued, RetryFails, tables

LEMMA CallbackOnButtons ==
  ASSUME NEW h, CallbackStep(h)
  PROVE  UNCHANGED button \/ ButtonStep(h)
  BY DispatchOnButtons DEF CallbackStep, ExpireRecord, RecordAwaitsWords,
     RecordDecision, ApplyContinue, ApplyPause, ApplyTerminate,
     CancelDispatches, CancelJobs, ButtonStep, tables

LEMMA AroundOnButtons ==
  ASSUME Begins \/ Mishap \/ Outside
  PROVE  UNCHANGED button
  BY DEF Begins, RequestBegins, CallbackBegins, Mishap, DispatchThrows, Die,
     Expire, Outside, AskDelivered, DispatchTaken, tables

LEMMA TradeOnGates ==
  ASSUME NEW p, TradeStep(p) \/ CoreStep(p)
  PROVE  UNCHANGED vars
  BY DEF TradeStep, CoreStep, RiskReadsGate, RiskFindsDispatch, RiskRecords,
     IntentReadsRisk, IntentReadsGate, IntentFindsDispatch, IntentInserts,
     ReceiptReadsIntent, ReceiptWrites

LEMMA StepsOnButtons ==
  ASSUME [Next]_flowVars
  PROVE  UNCHANGED button \/ \E p \in Process : ButtonStep(p)
<1>1. CASE GateStep
  BY <1>1, RequestOnButtons, TickOnButtons, DispatchOnButtons, CallbackOnButtons,
     AroundOnButtons DEF GateStep, Process
<1>2. CASE UNCHANGED vars
  BY <1>2 DEF vars, tables
<1> QED
  BY <1>1, <1>2, TradeOnGates DEF Next, flowVars, OthersMove

-----------------------------------------------------------------------------
(* What a step does to the buttons of one gate.                            *)
Chosen == {"feedback_pending", "selected"}

Loses(g) ==                  \* nobody is chosen, a selected button stays
    \A b \in Button :
        /\ button'[g][b] \in Chosen => button'[g][b] = button[g][b]
        /\ button[g][b] = "selected" => button'[g][b] = "selected"

Chooses(g) ==                \* one button is chosen where none was selected
    /\ \A b \in Button : button[g][b] # "selected"
    /\ \E c \in Button \cup {None} :
         \A b \in Button : b # c => button'[g][b] \notin Chosen

LEMMA Moves ==
  ASSUME NEW g, NEW S, NEW to, NEW b \in Button
  PROVE  MoveButtons(g, S, to)[b] = IF button[g][b] \in S THEN to ELSE button[g][b]
  BY DEF MoveButtons

LEMMA MoveTyped ==
  ASSUME ButtonsTyped, NEW g \in Gate, NEW S, NEW to \in ButtonStatus
  PROVE  MoveButtons(g, S, to) \in [Button -> ButtonStatus]
  BY DEF ButtonsTyped, MoveButtons

LEMMA MoveLoses ==
  ASSUME ButtonsTyped, NEW x, NEW S, "selected" \notin S,
         NEW to \in {"superseded", "expired"},
         button' = [button EXCEPT ![x] = MoveButtons(x, S, to)], NEW g \in Gate
  PROVE  Loses(g) /\ button'[g] \in [Button -> ButtonStatus]
<1>1. CASE x = g
  <2>1. button'[g] = MoveButtons(g, S, to)
    BY <1>1 DEF ButtonsTyped
  <2>2. button'[g] \in [Button -> ButtonStatus]
    BY <2>1, MoveTyped DEF ButtonStatus
  <2>3. to \notin Chosen
    BY DEF Chosen
  <2> QED
    BY <2>1, <2>2, <2>3, Moves DEF Loses
<1>2. CASE x # g
  BY <1>2 DEF ButtonsTyped, Loses
<1> QED
  BY <1>1, <1>2

LEMMA ButtonStepEffect ==
  ASSUME ButtonsTyped, NEW p, ButtonStep(p), NEW g \in Gate
  PROVE  /\ Loses(g) \/ Chooses(g)
         /\ button'[g] \in [Button -> ButtonStatus]
<1> DEFINE mine == at[p].gate
           open == {"active", "feedback_pending"}
<1>0. button[g] \in [Button -> ButtonStatus]
  BY DEF ButtonsTyped
<1>1. CASE SupersedeButtons(p)
  BY <1>1, MoveLoses DEF SupersedeButtons
<1>2. CASE CreateButton(p)
  <2>1. button' = [button EXCEPT ![mine][Buttons[at[p].next]] = Revived(@)]
    BY <1>2 DEF CreateButton
  <2>2. \A b \in Button :
          \/ button'[g][b] = button[g][b]
          \/ button'[g][b] = Revived(button[g][b])
    BY <1>0, <2>1 DEF ButtonsTyped
  <2>3. \A s \in ButtonStatus : /\ Revived(s) \in ButtonStatus
                                /\ Revived(s) = s \/ Revived(s) = "active"
    BY DEF Revived, ButtonStatus
  <2>4. Loses(g)
    <3>1. \A b \in Button : button[g][b] = "selected" => button'[g][b] = "selected"
      BY <2>2 DEF Revived
    <3> QED
      BY <1>0, <2>2, <2>3, <3>1 DEF Loses, Chosen
  <2>5. button'[g] \in [Button -> ButtonStatus]
    BY <1>0, <2>1, <2>2, <2>3 DEF ButtonsTyped
  <2> QED
    BY <2>4, <2>5
<1>3. CASE TickRefreshes(p) \/ TickWithdraws(p)
  BY <1>3, MoveLoses DEF TickRefreshes, TickWithdraws
<1>4. CASE ExpireButtons(p)
  BY <1>4, MoveLoses DEF ExpireButtons
<1>5. CASE UNCHANGED button
  BY <1>0, <1>5 DEF Loses
<1>6. CASE ChooseButton(p) /\ Choosable(mine)
  <2> DEFINE moved == MoveButtons(mine, {"active"}, "superseded")
             new == [b \in Button |-> IF b = at[p].button /\ button[mine][b] = "active"
                                      THEN "feedback_pending" ELSE moved[b]]
  <2>1. button' = [button EXCEPT ![mine] = new]
    BY <1>6 DEF ChooseButton
  <2>2. CASE mine # g
    BY <1>0, <2>1, <2>2 DEF ButtonsTyped, Loses
  <2>3. CASE mine = g
    <3>1. button'[g] = new
      BY <2>1, <2>3 DEF ButtonsTyped
    <3>2. \A b \in Button : button[g][b] \notin Chosen
      BY <1>6, <2>3 DEF Choosable, Locked, ButtonsOf, Chosen
    <3>3. \A b \in Button : moved[b] \in ButtonStatus \ Chosen
      BY <1>0, <2>3, <3>2, Moves DEF ButtonStatus, Chosen
    <3>4. \A b \in Button : b # at[p].button => button'[g][b] \notin Chosen
      BY <3>1, <3>3
    <3>5. Chooses(g)
      <4>1. CASE at[p].button \in Button
        BY <3>2, <3>4, <4>1 DEF Chooses, Chosen
      <4>2. CASE at[p].button \notin Button
        BY <3>2, <3>4, <4>2 DEF Chooses, Chosen
      <4> QED
        BY <4>1, <4>2
    <3> QED
      BY <3>1, <3>3, <3>5 DEF ButtonStatus
  <2> QED
    BY <2>2, <2>3
<1>7. CASE SelectButton(p) /\ Selectable(mine)
  <2> DEFINE moved == MoveButtons(mine, open, "superseded")
             new == [b \in Button |-> IF b = at[p].button /\ button[mine][b] \in open
                                      THEN "selected" ELSE moved[b]]
  <2>1. button' = [button EXCEPT ![mine] = new]
    BY <1>7 DEF SelectButton
  <2>2. CASE mine # g
    BY <1>0, <2>1, <2>2 DEF ButtonsTyped, Loses
  <2>3. CASE mine = g
    <3>1. button'[g] = new
      BY <2>1, <2>3 DEF ButtonsTyped
    <3>2. \A b \in Button : button[g][b] # "selected"
      BY <1>7, <2>3 DEF Selectable, ButtonsOf
    <3>3. \A b \in Button : moved[b] \in ButtonStatus \ Chosen
      BY <1>0, <2>3, <3>2, Moves DEF ButtonStatus, Chosen
    <3>4. \A b \in Button : b # at[p].button => button'[g][b] \notin Chosen
      BY <3>1, <3>3
    <3>5. Chooses(g)
      <4>1. CASE at[p].button \in Button
        BY <3>2, <3>4, <4>1 DEF Chooses
      <4>2. CASE at[p].button \notin Button
        BY <3>2, <3>4, <4>2 DEF Chooses
      <4> QED
        BY <4>1, <4>2
    <3> QED
      BY <3>1, <3>3, <3>5 DEF ButtonStatus
  <2> QED
    BY <2>2, <2>3
<1> QED
  BY <1>1, <1>2, <1>3, <1>4, <1>5, <1>6, <1>7
     DEF ButtonStep, ChooseButton, SelectButton

LEMMA ButtonsStayTyped ==
  ASSUME ButtonsTyped, [Next]_flowVars
  PROVE  ButtonsTyped'
<1>1. CASE UNCHANGED button
  BY <1>1 DEF ButtonsTyped
<1>2. ASSUME NEW p \in Process, ButtonStep(p) PROVE ButtonsTyped'
  <2>1. \A g \in Gate : button'[g] \in [Button -> ButtonStatus]
    BY <1>2, ButtonStepEffect
  <2>2. button' = button \/ \E x, v : button' = [button EXCEPT ![x] = v]
    BY <1>2 DEF ButtonStep, SupersedeButtons, CreateButton, TickRefreshes, TickWithdraws,
       ExpireButtons, ChooseButton, SelectButton
  <2>3. button' = [g \in Gate |-> button'[g]]
    BY <2>2 DEF ButtonsTyped
  <2> QED
    BY <2>1, <2>3 DEF ButtonsTyped
<1> QED
  BY <1>1, <1>2, StepsOnButtons

LEMMA ButtonsInit == Init => ButtonsTyped
  BY DEF Init, ButtonsTyped, ButtonStatus

LEMMA ButtonEffect ==
  ASSUME ButtonsTyped, [Next]_flowVars, NEW g \in Gate
  PROVE  Loses(g) \/ Chooses(g)
<1>1. CASE UNCHANGED button
  BY <1>1 DEF Loses
<1> QED
  BY <1>1, ButtonStepEffect, StepsOnButtons

-----------------------------------------------------------------------------
(* Two chosen buttons of a gate are one.                                   *)
NoTwoChosen ==
    \A g \in Gate : \A b, c \in Button :
        button[g][b] \in Chosen /\ button[g][c] \in Chosen => b = c

LEMMA ChosenStep == ButtonsTyped /\ NoTwoChosen /\ [Next]_flowVars => NoTwoChosen'
<1> SUFFICES ASSUME ButtonsTyped, NoTwoChosen, [Next]_flowVars,
                    NEW g \in Gate, NEW b \in Button, NEW c \in Button,
                    button'[g][b] \in Chosen, button'[g][c] \in Chosen
             PROVE  b = c
  BY DEF NoTwoChosen
<1>1. CASE Loses(g)
  BY <1>1 DEF Loses, NoTwoChosen
<1>2. CASE Chooses(g)
  BY <1>2 DEF Chooses
<1> QED
  BY <1>1, <1>2, ButtonEffect

(* At most one button of a gate waits for words or is selected, whoever    *)
(* submits at once and whatever a tick or a request does to the buttons.   *)
THEOREM GateHasOneChoice == Spec => []OneChoice
<1>1. Init => NoTwoChosen
  BY DEF Init, NoTwoChosen, Chosen
<1>2. ASSUME NoTwoChosen PROVE OneChoice
  <2> SUFFICES ASSUME NEW g \in Gate
               PROVE  Cardinality(ButtonsOf(g, {"feedback_pending", "selected"})) <= 1
    BY DEF OneChoice
  <2> DEFINE C == ButtonsOf(g, {"feedback_pending", "selected"})
  <2>1. CASE C = {}
    BY <2>1, FS_EmptySet
  <2>2. CASE C # {}
    <3>1. PICK b \in C : TRUE
      BY <2>2
    <3>2. C = {b}
      BY <1>2, <3>1 DEF ButtonsOf, NoTwoChosen, Chosen
    <3>3. Cardinality({b}) = 1
      BY FS_Singleton
    <3> QED
      BY <3>2, <3>3
  <2> QED
    BY <2>1, <2>2
<1> QED
  BY <1>1, <1>2, ButtonsInit, ButtonsStayTyped, ChosenStep, PTL DEF Spec, FlowInit

(* A selected button stays selected.                                       *)
THEOREM SelectionLasts == Spec => SelectionIsFinal
<1>1. ButtonsTyped /\ [Next]_flowVars =>
        [\A g \in Gate, b \in Button :
            button[g][b] = "selected" => button'[g][b] = "selected"]_flowVars
  <2> SUFFICES ASSUME ButtonsTyped, [Next]_flowVars, NEW g \in Gate,
                      NEW b \in Button, button[g][b] = "selected"
               PROVE  button'[g][b] = "selected"
    OBVIOUS
  <2> QED
    BY ButtonEffect DEF Loses, Chooses
<1> QED
  BY <1>1, ButtonsInit, ButtonsStayTyped, PTL DEF Spec, FlowInit, SelectionIsFinal

-----------------------------------------------------------------------------
(* A dispatch that exists may be taken or cancelled and is never gone.     *)
DispatchTyped == dispatch \in [Gate -> [Button -> DispatchStatus]]

Handed(g) == \E b \in Button : Decision[b] = "approved" /\ dispatch[g][b] # "absent"

DispatchesStay ==
    \A g \in Gate, b \in Button : dispatch[g][b] # "absent" => dispatch'[g][b] # "absent"

LEMMA DispatchStep1 ==
  ASSUME DispatchTyped, NEW p, DispatchInserts(p) \/ CancelDispatches(p)
  PROVE  DispatchTyped' /\ DispatchesStay
<1>1. CASE DispatchInserts(p)
  <2> DEFINE new(old) == IF old = "absent" THEN "queued" ELSE old
  <2>1. dispatch' = [dispatch EXCEPT ![at[p].gate][at[p].button] =
                       IF @ = "absent" THEN "queued" ELSE @]
    BY <1>1 DEF DispatchInserts
  <2> QED
    BY <2>1 DEF DispatchTyped, DispatchStatus, DispatchesStay
<1>2. CASE CancelDispatches(p)
  BY <1>2 DEF CancelDispatches, DispatchTyped, DispatchStatus, DispatchesStay
<1> QED
  BY <1>1, <1>2

LEMMA TakenStep ==
  ASSUME DispatchTyped, NEW g \in Gate, NEW b \in Button, DispatchTaken(g, b)
  PROVE  DispatchTyped' /\ DispatchesStay
  BY DEF DispatchTaken, DispatchTyped, DispatchStatus, DispatchesStay

LEMMA RequestOnDispatches ==
  ASSUME NEW q, RequestStep(q)
  PROVE  UNCHANGED dispatch
  BY DEF RequestStep, RequestReadsLocked, RequestMatchesStage, Supersede, SupersedeButtons,
     SupersedeReadsAsk, SupersedeCancelsAsk, RequestRecords, RequestReadsButtons,
     CreateReadsLocked, CreateButton, RequestAsks, tables

LEMMA TickOnDispatches ==
  ASSUME NEW k, TickBegins(k) \/ TickStep(k)
  PROVE  UNCHANGED dispatch
  BY DEF TickBegins, TickReadsAsks, RetryRuns, TickStep, TickReadsGates, TickReadsLocked,
     TickLooksAgain, TickCancelsAsk,
     TickReadsButtons, TickRefreshes, TickWithdraws, CreateReadsLocked, CreateButton, TickAsks,
     tables

LEMMA DispatchOnDispatches ==
  ASSUME NEW p, DispatchStep(p)
  PROVE  UNCHANGED dispatch \/ DispatchInserts(p)
  BY DEF DispatchStep, DispatchLooksUp, DispatchMade, RetryEnqueued, RetryFails, tables

LEMMA CallbackOnDispatches ==
  ASSUME NEW h, CallbackStep(h)
  PROVE  UNCHANGED dispatch \/ DispatchInserts(h) \/ CancelDispatches(h)
  BY DispatchOnDispatches DEF CallbackStep, ExpireButtons, ExpireRecord,
     ChooseButton, RecordAwaitsWords, SelectButton, RecordDecision,
     ApplyContinue, ApplyPause, ApplyTerminate, CancelJobs, tables

LEMMA AroundOnDispatches ==
  ASSUME Begins \/ Mishap \/ Outside
  PROVE  UNCHANGED dispatch \/ \E g \in Gate, b \in Button : DispatchTaken(g, b)
  BY FlowAssumption DEF Begins, RequestBegins, CallbackBegins, Mishap,
     DispatchThrows, Die, Expire, Outside, AskDelivered, tables

LEMMA DispatchesKept ==
  ASSUME DispatchTyped, [Next]_flowVars
  PROVE  DispatchTyped' /\ DispatchesStay
<1>1. CASE UNCHANGED dispatch
  BY <1>1 DEF DispatchTyped, DispatchesStay
<1>2. CASE GateStep
  BY <1>1, <1>2, RequestOnDispatches, TickOnDispatches, DispatchOnDispatches,
     CallbackOnDispatches, AroundOnDispatches, DispatchStep1, TakenStep
     DEF GateStep
<1>3. CASE UNCHANGED vars
  BY <1>1, <1>3 DEF vars, tables
<1> QED
  BY <1>2, <1>3, TradeOnGates DEF Next, flowVars, OthersMove

-----------------------------------------------------------------------------
(* What a trader or the core relies on between its reads and its write.    *)
Traders == Trader \cup Core

IntentType ==
    [status : {"absent", "ready", "rejected"} \cup Receipts, gate : Gate \cup {None}]

IntentTyped == intent \in [Key -> IntentType]

TradePc == {"idle", "risk dispatch", "risk record", "intent gate",
            "intent dispatch", "insert", "receipt"}

LocalType == [pc : TradePc, gate : Gate \cup {None}, key : Key \cup {None},
              what : Verdicts \cup Receipts \cup {None}, sound : BOOLEAN]

TradeTyped == IntentTyped /\ trade \in [Traders -> LocalType]

Backed(k) == intent[k].gate \in Gate /\ Handed(intent[k].gate)

LiveIntentsBacked ==
    \A k \in Key : intent[k].status \notin {"absent", "rejected"} => Backed(k)

SoundInsertsHanded ==
    \A p \in Traders :
        /\ trade[p].pc \in {"intent gate", "intent dispatch", "insert"} => trade[p].gate \in Gate
        /\ trade[p].pc = "insert" /\ trade[p].sound => Handed(trade[p].gate)

ReceiptsBacked ==
    \A p \in Traders :
        trade[p].pc = "receipt" =>
            /\ trade[p].key \in Key
            /\ intent[trade[p].key].status # "absent"
            /\ Backed(trade[p].key)
            /\ trade[p].what \in Receipts

TradeInv ==
    /\ DispatchTyped
    /\ TradeTyped
    /\ LiveIntentsBacked
    /\ SoundInsertsHanded
    /\ ReceiptsBacked

LEMMA HandedStays ==
  ASSUME DispatchesStay, NEW g \in Gate, Handed(g)
  PROVE  Handed(g)'
  BY DEF DispatchesStay, Handed

(* Steps of the gates leave trades alone.                                  *)
LEMMA GatesKeepTrades ==
  ASSUME TradeInv, DispatchesStay, DispatchTyped', UNCHANGED trades
  PROVE  TradeInv'
<1>0. /\ intent' = intent
      /\ trade' = trade
  BY DEF trades
<1>1. TradeTyped'
  BY <1>0 DEF TradeInv, TradeTyped, IntentTyped
<1>2. ASSUME NEW k, Backed(k) PROVE Backed(k)'
  BY <1>0, <1>2, HandedStays DEF Backed
<1>3. LiveIntentsBacked'
  BY <1>0, <1>2 DEF TradeInv, LiveIntentsBacked
<1>4. SoundInsertsHanded'
  BY <1>0, HandedStays DEF TradeInv, SoundInsertsHanded
<1>5. ReceiptsBacked'
  BY <1>0, <1>2 DEF TradeInv, ReceiptsBacked
<1> QED
  BY <1>1, <1>3, <1>4, <1>5 DEF TradeInv

(* A step of a trader that writes no intent.                               *)
LEMMA ReadsKeepTrades ==
  ASSUME TradeInv, UNCHANGED <<vars, intent>>, NEW p \in Traders,
         NEW local \in LocalType, trade' = [trade EXCEPT ![p] = local],
         local.pc \in {"intent gate", "intent dispatch", "insert"} => local.gate \in Gate,
         local.pc = "insert" /\ local.sound => Handed(local.gate),
         local.pc = "receipt" =>
            /\ local.key \in Key
            /\ intent[local.key].status # "absent"
            /\ Backed(local.key)
            /\ local.what \in Receipts
  PROVE  TradeInv'
<1>0. /\ dispatch' = dispatch
      /\ intent' = intent
      /\ trade \in [Traders -> LocalType]
      /\ \A q \in Traders : trade'[q] = IF q = p THEN local ELSE trade[q]
  BY DEF vars, tables, TradeInv, TradeTyped
<1>1. TradeTyped' /\ DispatchTyped'
  BY <1>0 DEF TradeInv, TradeTyped, IntentTyped, DispatchTyped
<1>2. \A k : Backed(k)' <=> Backed(k)
  BY <1>0 DEF Backed, Handed
<1>3. LiveIntentsBacked'
  BY <1>0, <1>2 DEF TradeInv, LiveIntentsBacked
<1>4. \A g : Handed(g)' <=> Handed(g)
  BY <1>0 DEF Handed
<1>5. SoundInsertsHanded'
  BY <1>0, <1>4 DEF TradeInv, SoundInsertsHanded
<1>6. ReceiptsBacked'
  BY <1>0, <1>2 DEF TradeInv, ReceiptsBacked
<1> QED
  BY <1>1, <1>3, <1>5, <1>6 DEF TradeInv

LEMMA RestingTyped ==
  /\ Resting \in LocalType
  /\ Resting.pc = "idle"
  BY DEF Resting, LocalType, TradePc, None

LEMMA TraderReads ==
  ASSUME TradeInv, NEW p \in Trader,
         \/ \E g \in Gate, verdict \in Verdicts : RiskReadsGate(p, g, verdict)
         \/ RiskFindsDispatch(p) \/ RiskRecords(p)
         \/ \E k \in Key, g \in Gate : IntentReadsRisk(p, k, g)
         \/ IntentReadsGate(p) \/ IntentFindsDispatch(p)
  PROVE  TradeInv'
<1>0. /\ p \in Traders
      /\ trade[p] \in LocalType
  BY DEF TradeInv, TradeTyped, Traders
<1>1. ASSUME NEW g \in Gate, NEW v \in Verdicts, RiskReadsGate(p, g, v)
      PROVE  TradeInv'
  <2> DEFINE local == [Resting EXCEPT !.pc = IF Final(v) THEN "risk dispatch" ELSE "risk record",
                                      !.gate = g, !.what = v]
  <2>1. local \in LocalType /\ local.pc \in {"risk dispatch", "risk record"}
    BY <1>0 DEF Resting, LocalType, TradePc, None
  <2>2. trade' = [trade EXCEPT ![p] = local] /\ UNCHANGED <<vars, intent>>
    BY <1>1 DEF RiskReadsGate, Proceed
  <2> QED
    BY <1>0, <2>1, <2>2, ReadsKeepTrades
<1>2. CASE RiskFindsDispatch(p)
  <2>1. PICK local \in LocalType :
          /\ trade' = [trade EXCEPT ![p] = local]
          /\ local.pc \in {"risk record", "idle"}
    <3>1. [trade[p] EXCEPT !.pc = "risk record"] \in LocalType
      BY <1>0 DEF LocalType, TradePc
    <3>2. [trade[p] EXCEPT !.pc = "risk record"].pc = "risk record"
      BY <1>0 DEF LocalType, TradePc
    <3> QED
      BY <1>2, <3>1, <3>2, RestingTyped DEF RiskFindsDispatch, Proceed, Rest
  <2>2. UNCHANGED <<vars, intent>>
    BY <1>2 DEF RiskFindsDispatch
  <2> QED
    BY <1>0, <2>1, <2>2, ReadsKeepTrades
<1>3. CASE RiskRecords(p)
  <2>1. trade' = [trade EXCEPT ![p] = Resting] /\ UNCHANGED <<vars, intent>>
    BY <1>3 DEF RiskRecords, Rest, Proceed
  <2> QED
    BY <1>0, <2>1, RestingTyped, ReadsKeepTrades
<1>4. ASSUME NEW k \in Key, NEW g \in Gate, IntentReadsRisk(p, k, g)
      PROVE  TradeInv'
  <2> DEFINE local == [Resting EXCEPT !.pc = "intent gate", !.gate = g, !.key = k,
                         !.sound = risk.status = "approved" /\ risk.gate = g]
  <2>1. local \in LocalType /\ local.pc = "intent gate" /\ local.gate = g
    BY DEF Resting, LocalType, TradePc, None
  <2>2. trade' = [trade EXCEPT ![p] = local] /\ UNCHANGED <<vars, intent>>
    BY <1>4 DEF IntentReadsRisk, Proceed
  <2> QED
    BY <1>0, <2>1, <2>2, ReadsKeepTrades
<1>5. CASE IntentReadsGate(p)
  <2> DEFINE local == [trade[p] EXCEPT !.pc = "intent dispatch",
                         !.sound = @ /\ Approved(trade[p].gate) /\ ~gate[trade[p].gate].lapsed]
  <2>1. local \in LocalType /\ local.pc = "intent dispatch" /\ local.gate = trade[p].gate
    BY <1>0 DEF LocalType, TradePc
  <2>2. trade' = [trade EXCEPT ![p] = local] /\ UNCHANGED <<vars, intent>>
    BY <1>5 DEF IntentReadsGate, Proceed
  <2>3. trade[p].gate \in Gate
    BY <1>0, <1>5 DEF IntentReadsGate, Trades, TradeInv, SoundInsertsHanded
  <2> QED
    BY <1>0, <2>1, <2>2, <2>3, ReadsKeepTrades
<1>6. CASE IntentFindsDispatch(p)
  <2> DEFINE local == [trade[p] EXCEPT !.pc = "insert", !.sound = @ /\ Audited(trade[p].gate)]
  <2>1. /\ local \in LocalType
        /\ local.pc = "insert"
        /\ local.gate = trade[p].gate
        /\ local.sound => Audited(trade[p].gate)
    BY <1>0 DEF LocalType, TradePc
  <2>2. trade' = [trade EXCEPT ![p] = local] /\ UNCHANGED <<vars, intent>>
    BY <1>6 DEF IntentFindsDispatch, Proceed
  <2>3. trade[p].gate \in Gate
    BY <1>0, <1>6 DEF IntentFindsDispatch, Trades, TradeInv, SoundInsertsHanded
  <2>4. Audited(trade[p].gate) => Handed(trade[p].gate)
    BY DEF Audited, Handed
  <2> QED
    BY <1>0, <2>1, <2>2, <2>3, <2>4, ReadsKeepTrades
<1> QED
  BY <1>1, <1>2, <1>3, <1>4, <1>5, <1>6

LEMMA CoreReads ==
  ASSUME TradeInv, NEW c \in Core, NEW k \in Key, NEW status \in Receipts,
         ReceiptReadsIntent(c, k, status)
  PROVE  TradeInv'
<1> DEFINE local == [Resting EXCEPT !.pc = "receipt", !.key = k, !.what = status]
<1>1. c \in Traders
  BY DEF Traders
<1>2. /\ local \in LocalType
      /\ local.pc = "receipt"
      /\ local.key = k
      /\ local.what = status
  BY <1>1 DEF Resting, LocalType, TradePc, None
<1>3. trade' = [trade EXCEPT ![c] = local] /\ UNCHANGED <<vars, intent>>
  BY DEF ReceiptReadsIntent, Proceed
<1>4. intent[k].status \in {"ready", "accepted", "submitted", "partial"}
  BY DEF ReceiptReadsIntent, Allowed, Transitions
<1>5. Backed(k)
  BY <1>4 DEF TradeInv, LiveIntentsBacked
<1> QED
  BY <1>1, <1>2, <1>3, <1>4, <1>5, ReadsKeepTrades

(* What is inserted is backed when it is live; a key that is taken keeps   *)
(* its intent.                                                             *)
LEMMA TraderInserts ==
  ASSUME TradeInv, NEW p \in Trader, IntentInserts(p)
  PROVE  TradeInv'
<1> DEFINE t == trade[p]
           new == [status |-> IF t.sound THEN "ready" ELSE "rejected", gate |-> t.gate]
<1>0. /\ p \in Traders
      /\ t \in LocalType
      /\ t.gate \in Gate
      /\ t.sound => Handed(t.gate)
      /\ trade \in [Traders -> LocalType]
      /\ intent \in [Key -> IntentType]
      /\ trade' = [trade EXCEPT ![p] = Resting]
      /\ dispatch' = dispatch
  BY DEF TradeInv, TradeTyped, IntentTyped, Traders, IntentInserts, Rest, Proceed,
     Trades, SoundInsertsHanded, vars, tables
<1>1. \A k \in Key : \/ intent'[k] = intent[k]
                     \/ intent[k].status = "absent" /\ intent'[k] = new
  BY <1>0 DEF IntentInserts
<1>2. new \in IntentType
  BY <1>0 DEF IntentType
<1>3. intent' \in [Key -> IntentType]
  <2>1. intent' = intent \/ intent' = [intent EXCEPT ![t.key] = new]
    BY DEF IntentInserts
  <2> QED
    BY <1>0, <1>2, <2>1
<1>4. TradeTyped' /\ DispatchTyped'
  BY <1>0, <1>3, RestingTyped DEF TradeInv, TradeTyped, IntentTyped, DispatchTyped
<1>5. \A g : Handed(g)' <=> Handed(g)
  BY <1>0 DEF Handed
<1>6. ASSUME NEW k \in Key, intent'[k].status \notin {"absent", "rejected"}
      PROVE  Backed(k)'
  <2>1. CASE intent'[k] = intent[k]
    BY <1>5, <1>6, <2>1 DEF Backed, TradeInv, LiveIntentsBacked
  <2>2. CASE intent'[k] = new
    BY <1>0, <1>5, <1>6, <2>2 DEF Backed
  <2> QED
    BY <1>1, <2>1, <2>2
<1>7. LiveIntentsBacked'
  BY <1>6 DEF LiveIntentsBacked
<1>8. SoundInsertsHanded'
  BY <1>0, <1>5, RestingTyped DEF TradeInv, SoundInsertsHanded
<1>9. ReceiptsBacked'
  <2> SUFFICES ASSUME NEW q \in Traders, trade'[q].pc = "receipt"
               PROVE  /\ trade'[q].key \in Key
                      /\ intent'[trade'[q].key].status # "absent"
                      /\ Backed(trade[q].key)'
                      /\ trade'[q].what \in Receipts
    BY DEF ReceiptsBacked
  <2>1. trade'[q] = trade[q]
    BY <1>0, RestingTyped
  <2>2. /\ trade[q].key \in Key
        /\ intent[trade[q].key].status # "absent"
        /\ Backed(trade[q].key)
        /\ trade[q].what \in Receipts
    BY <2>1 DEF TradeInv, ReceiptsBacked
  <2>3. intent'[trade[q].key] = intent[trade[q].key]
    BY <1>1, <2>2
  <2> QED
    BY <1>5, <2>1, <2>2, <2>3 DEF Backed
<1> QED
  BY <1>4, <1>7, <1>8, <1>9 DEF TradeInv

LEMMA CoreWrites ==
  ASSUME TradeInv, NEW c \in Core, ReceiptWrites(c)
  PROVE  TradeInv'
<1> DEFINE k == trade[c].key
           what == trade[c].what
<1>0. /\ c \in Traders
      /\ trade[c] \in LocalType
      /\ k \in Key
      /\ intent[k].status # "absent"
      /\ Backed(k)
      /\ what \in Receipts
      /\ what # "absent"
      /\ trade \in [Traders -> LocalType]
      /\ intent \in [Key -> IntentType]
      /\ trade' = [trade EXCEPT ![c] = Resting]
      /\ dispatch' = dispatch
      /\ intent' = [intent EXCEPT ![k].status = what]
  BY TradeAssumption DEF TradeInv, TradeTyped, IntentTyped, Traders, ReceiptWrites,
     Rest, Proceed, Trades, ReceiptsBacked, LocalType, Transitions, vars, tables
<1>1. /\ \A i \in Key : intent'[i].gate = intent[i].gate
      /\ \A i \in Key \ {k} : intent'[i] = intent[i]
      /\ intent'[k].status = what
      /\ intent' \in [Key -> IntentType]
  BY <1>0 DEF IntentType
<1>2. TradeTyped' /\ DispatchTyped'
  BY <1>0, <1>1, RestingTyped DEF TradeInv, TradeTyped, IntentTyped, DispatchTyped
<1>3. \A g : Handed(g)' <=> Handed(g)
  BY <1>0 DEF Handed
<1>4. \A i \in Key : Backed(i)' <=> Backed(i)
  BY <1>1, <1>3 DEF Backed
<1>5. LiveIntentsBacked'
  BY <1>0, <1>1, <1>4 DEF TradeInv, LiveIntentsBacked
<1>6. SoundInsertsHanded'
  BY <1>0, <1>3, RestingTyped DEF TradeInv, SoundInsertsHanded
<1>7. ReceiptsBacked'
  <2> SUFFICES ASSUME NEW q \in Traders, trade'[q].pc = "receipt"
               PROVE  /\ trade'[q].key \in Key
                      /\ intent'[trade'[q].key].status # "absent"
                      /\ Backed(trade[q].key)'
                      /\ trade'[q].what \in Receipts
    BY DEF ReceiptsBacked
  <2>1. trade'[q] = trade[q]
    BY <1>0, RestingTyped
  <2> QED
    BY <1>0, <1>1, <1>4, <2>1 DEF TradeInv, ReceiptsBacked
<1> QED
  BY <1>2, <1>5, <1>6, <1>7 DEF TradeInv

LEMMA TradeStepKeeps == TradeInv /\ [Next]_flowVars => TradeInv'
<1> SUFFICES ASSUME TradeInv, [Next]_flowVars PROVE TradeInv'
  OBVIOUS
<1>1. DispatchTyped' /\ DispatchesStay
  BY DispatchesKept DEF TradeInv
<1>2. CASE UNCHANGED trades
  BY <1>1, <1>2, GatesKeepTrades
<1>3. ASSUME NEW p \in Trader, TradeStep(p) PROVE TradeInv'
  BY <1>3, TraderReads, TraderInserts DEF TradeStep
<1>4. ASSUME NEW c \in Core, CoreStep(c) PROVE TradeInv'
  BY <1>4, CoreReads, CoreWrites DEF CoreStep
<1> QED
  BY <1>2, <1>3, <1>4 DEF Next, flowVars, around, OthersMove

(* An intent that reached the trading core names a gate whose approval was *)
(* handed to cat_tail, although the parents of an intent and the status a  *)
(* receipt is checked against are read long before they are written.       *)
THEOREM IntentsWereAudited == Spec => []IntentsAreAudited
<1>1. ASSUME Init, TradeInit PROVE TradeInv
  <2>1. DispatchTyped
    BY <1>1 DEF Init, DispatchTyped, DispatchStatus
  <2>2. TradeTyped
    BY <1>1, RestingTyped DEF TradeInit, TradeTyped, IntentTyped, IntentType, Traders
  <2>3. \A p \in Traders : trade[p].pc = "idle"
    BY <1>1, RestingTyped DEF TradeInit, Traders
  <2>4. \A k \in Key : intent[k].status = "absent"
    BY <1>1 DEF TradeInit
  <2> QED
    BY <2>1, <2>2, <2>3, <2>4 DEF TradeInv, LiveIntentsBacked,
       SoundInsertsHanded, ReceiptsBacked
<1>2. TradeInv => IntentsAreAudited
  BY DEF TradeInv, LiveIntentsBacked, Backed, Handed, IntentsAreAudited
<1> QED
  BY <1>1, <1>2, TradeStepKeeps, PTL DEF Spec, FlowInit

-----------------------------------------------------------------------------
(* What a process keeps between its steps: one that decides has picked a   *)
(* button.                                                                 *)
IsLocal(l) ==
    l = [pc |-> l.pc, kind |-> l.kind, gate |-> l.gate, old |-> l.old,
         button |-> l.button, seen |-> l.seen, todo |-> l.todo, kept |-> l.kept,
           next |-> l.next, fresh |-> l.fresh]

Picks(l) == IsLocal(l) /\ (l.pc \in {"select", "decide"} => l.button \in Button)

Picked == at = [p \in Process |-> at[p]] /\ \A p \in Process : Picks(at[p])

LEMMA IdlePicks == Picks(Idle)
  BY DEF Picks, IsLocal, Idle

LEMMA BecomePicks ==
  ASSUME Picked, NEW p, NEW l, Picks(l), Become(p, l)
  PROVE  Picked'
<1>1. \A q \in Process : at'[q] = l \/ at'[q] = at[q]
  BY DEF Picked, Become
<1>2. at' = [q \in Process |-> at'[q]]
  BY DEF Picked, Become
<1>3. \A q \in Process : Picks(at'[q])
  BY <1>1 DEF Picked
<1> QED
  BY <1>2, <1>3 DEF Picked

LEMMA StopPicks ==
  ASSUME Picked, NEW p, Stop(p)
  PROVE  Picked'
  BY IdlePicks, BecomePicks DEF Stop

LEMMA FieldPicks ==
  ASSUME NEW l, IsLocal(l), NEW pc
  PROVE  /\ IsLocal([l EXCEPT !.pc = pc])
         /\ [l EXCEPT !.pc = pc].pc = pc
         /\ [l EXCEPT !.pc = pc].button = l.button
<1>1. l = [pc |-> l.pc, kind |-> l.kind, gate |-> l.gate, old |-> l.old,
           button |-> l.button, seen |-> l.seen, todo |-> l.todo, kept |-> l.kept,
           next |-> l.next, fresh |-> l.fresh]
  BY DEF IsLocal
<1>2. [l EXCEPT !.pc = pc] =
        [pc |-> pc, kind |-> l.kind, gate |-> l.gate, old |-> l.old,
         button |-> l.button, seen |-> l.seen, todo |-> l.todo, kept |-> l.kept,
           next |-> l.next, fresh |-> l.fresh]
  BY <1>1
<1> QED
  BY <1>2 DEF IsLocal

LEMMA GotoPicks ==
  ASSUME Picked, NEW p, NEW pc, Goto(p, pc),
         pc \in {"select", "decide"} /\ p \in Process => at[p].button \in Button
  PROVE  Picked'
<1> DEFINE l == [at[p] EXCEPT !.pc = pc]
<1>1. \A q \in Process : at'[q] = IF q = p THEN l ELSE at[q]
  BY DEF Picked, Goto
<1>2. at' = [q \in Process |-> at'[q]]
  BY DEF Picked, Goto
<1>3. p \in Process => Picks(l)
  BY FieldPicks DEF Picked, Picks
<1>4. \A q \in Process : Picks(at'[q])
  BY <1>1, <1>3 DEF Picked
<1> QED
  BY <1>2, <1>4 DEF Picked

LEMMA FieldLocal ==
  ASSUME NEW l, IsLocal(l), NEW v
  PROVE  /\ IsLocal([l EXCEPT !.kind = v])
         /\ IsLocal([l EXCEPT !.gate = v])
         /\ IsLocal([l EXCEPT !.old = v])
         /\ IsLocal([l EXCEPT !.button = v])
         /\ IsLocal([l EXCEPT !.seen = v])
         /\ IsLocal([l EXCEPT !.next = v])
         /\ IsLocal([l EXCEPT !.fresh = v])
         /\ IsLocal([l EXCEPT !.todo = v])
         /\ IsLocal([l EXCEPT !.kept = v])
<1>1. IsLocal([l EXCEPT !.kind = v])
  <2>1. [l EXCEPT !.kind = v] =
          [pc |-> l.pc, kind |-> v, gate |-> l.gate, old |-> l.old,
           button |-> l.button, seen |-> l.seen, todo |-> l.todo, kept |-> l.kept,
           next |-> l.next, fresh |-> l.fresh]
    BY DEF IsLocal
  <2> QED
    BY <2>1 DEF IsLocal
<1>2. IsLocal([l EXCEPT !.gate = v])
  <2>1. [l EXCEPT !.gate = v] =
          [pc |-> l.pc, kind |-> l.kind, gate |-> v, old |-> l.old,
           button |-> l.button, seen |-> l.seen, todo |-> l.todo, kept |-> l.kept,
           next |-> l.next, fresh |-> l.fresh]
    BY DEF IsLocal
  <2> QED
    BY <2>1 DEF IsLocal
<1>3. IsLocal([l EXCEPT !.old = v])
  <2>1. [l EXCEPT !.old = v] =
          [pc |-> l.pc, kind |-> l.kind, gate |-> l.gate, old |-> v,
           button |-> l.button, seen |-> l.seen, todo |-> l.todo, kept |-> l.kept,
           next |-> l.next, fresh |-> l.fresh]
    BY DEF IsLocal
  <2> QED
    BY <2>1 DEF IsLocal
<1>4. IsLocal([l EXCEPT !.button = v])
  <2>1. [l EXCEPT !.button = v] =
          [pc |-> l.pc, kind |-> l.kind, gate |-> l.gate, old |-> l.old,
           button |-> v, seen |-> l.seen, todo |-> l.todo, kept |-> l.kept,
           next |-> l.next, fresh |-> l.fresh]
    BY DEF IsLocal
  <2> QED
    BY <2>1 DEF IsLocal
<1>5. IsLocal([l EXCEPT !.seen = v])
  <2>1. [l EXCEPT !.seen = v] =
          [pc |-> l.pc, kind |-> l.kind, gate |-> l.gate, old |-> l.old,
           button |-> l.button, seen |-> v, todo |-> l.todo, kept |-> l.kept,
           next |-> l.next, fresh |-> l.fresh]
    BY DEF IsLocal
  <2> QED
    BY <2>1 DEF IsLocal
<1>6. IsLocal([l EXCEPT !.next = v])
  <2>1. [l EXCEPT !.next = v] =
          [pc |-> l.pc, kind |-> l.kind, gate |-> l.gate, old |-> l.old,
           button |-> l.button, seen |-> l.seen, todo |-> l.todo, kept |-> l.kept,
           next |-> v, fresh |-> l.fresh]
    BY DEF IsLocal
  <2> QED
    BY <2>1 DEF IsLocal
<1>7. IsLocal([l EXCEPT !.fresh = v])
  <2>1. [l EXCEPT !.fresh = v] =
          [pc |-> l.pc, kind |-> l.kind, gate |-> l.gate, old |-> l.old,
           button |-> l.button, seen |-> l.seen, todo |-> l.todo, kept |-> l.kept,
           next |-> l.next, fresh |-> v]
    BY DEF IsLocal
  <2> QED
    BY <2>1 DEF IsLocal
<1>8. IsLocal([l EXCEPT !.todo = v])
  <2>1. [l EXCEPT !.todo = v] =
          [pc |-> l.pc, kind |-> l.kind, gate |-> l.gate, old |-> l.old,
           button |-> l.button, seen |-> l.seen, todo |-> v, kept |-> l.kept,
           next |-> l.next, fresh |-> l.fresh]
    BY DEF IsLocal
  <2> QED
    BY <2>1 DEF IsLocal
<1>9. IsLocal([l EXCEPT !.kept = v])
  <2>1. [l EXCEPT !.kept = v] =
          [pc |-> l.pc, kind |-> l.kind, gate |-> l.gate, old |-> l.old,
           button |-> l.button, seen |-> l.seen, todo |-> l.todo, kept |-> v,
           next |-> l.next, fresh |-> l.fresh]
    BY DEF IsLocal
  <2> QED
    BY <2>1 DEF IsLocal
<1> QED
  BY <1>1, <1>2, <1>3, <1>4, <1>5, <1>6, <1>7, <1>8, <1>9

LEMMA AlteredPicks ==
  ASSUME NEW l, IsLocal(l), NEW pc, NEW v, pc \notin {"select", "decide"}
  PROVE  /\ Picks([l EXCEPT !.pc = pc, !.old = v])
         /\ Picks([l EXCEPT !.pc = pc, !.gate = v])
         /\ Picks([l EXCEPT !.pc = pc, !.next = v])
         /\ Picks([l EXCEPT !.pc = pc, !.fresh = v])
         /\ Picks([l EXCEPT !.pc = pc, !.seen = v])
<1> DEFINE m == [l EXCEPT !.pc = pc]
<1>1. IsLocal(m) /\ m.pc = pc
  BY FieldPicks
<1>2. /\ [l EXCEPT !.pc = pc, !.old = v] = [m EXCEPT !.old = v]
      /\ [l EXCEPT !.pc = pc, !.gate = v] = [m EXCEPT !.gate = v]
      /\ [l EXCEPT !.pc = pc, !.next = v] = [m EXCEPT !.next = v]
      /\ [l EXCEPT !.pc = pc, !.fresh = v] = [m EXCEPT !.fresh = v]
      /\ [l EXCEPT !.pc = pc, !.seen = v] = [m EXCEPT !.seen = v]
  OBVIOUS
<1>3. /\ [m EXCEPT !.old = v].pc = pc
      /\ [m EXCEPT !.gate = v].pc = pc
      /\ [m EXCEPT !.next = v].pc = pc
      /\ [m EXCEPT !.fresh = v].pc = pc
      /\ [m EXCEPT !.seen = v].pc = pc
  BY <1>1 DEF IsLocal
<1>4. /\ IsLocal([m EXCEPT !.old = v])
      /\ IsLocal([m EXCEPT !.gate = v])
      /\ IsLocal([m EXCEPT !.next = v])
      /\ IsLocal([m EXCEPT !.fresh = v])
      /\ IsLocal([m EXCEPT !.seen = v])
  BY <1>1, FieldLocal
<1> QED
  BY <1>2, <1>3, <1>4 DEF Picks

(* A tick that goes on to the next of its gates, or is done.               *)
LEMMA NextPicks ==
  ASSUME NEW l, IsLocal(l)
  PROVE  Picks(NextGate(l))
<1> DEFINE g == CHOOSE g \in l.todo : \A h \in l.todo : gate[g].born <= gate[h].born
           m == [l EXCEPT !.pc = "tick gate"]
           n == [[[m EXCEPT !.gate = g] EXCEPT !.todo = l.todo \ {g}] EXCEPT !.fresh = FALSE]
<1>1. IsLocal(n)
  BY FieldPicks, FieldLocal
<1>2. m.pc = "tick gate"
  BY FieldPicks
<1>3. n.pc = m.pc
  OBVIOUS
<1>4. Picks(n)
  BY <1>1, <1>2, <1>3 DEF Picks
<1>5. NextGate(l) = Idle \/ NextGate(l) = n
  BY DEF NextGate
<1> QED
  BY <1>4, <1>5, IdlePicks

(* A process that begins something new.                                    *)
LEMMA FreshPicks ==
  ASSUME NEW pc, NEW v, NEW w
  PROVE  /\ pc \notin {"select", "decide"} =>
              /\ Picks([Idle EXCEPT !.pc = pc, !.kind = v, !.gate = w])
              /\ Picks([Idle EXCEPT !.pc = pc, !.seen = w])
              /\ Picks([Idle EXCEPT !.pc = pc, !.gate = v, !.button = w])
         /\ w \in Button => Picks([Idle EXCEPT !.gate = v, !.button = w, !.pc = pc])
<1> DEFINE m == [Idle EXCEPT !.pc = pc]
           n == [Idle EXCEPT !.gate = v]
<1>1. IsLocal(Idle)
  BY IdlePicks DEF Picks
<1>2. IsLocal(m)
  BY <1>1, FieldPicks
<1>3. IsLocal(n)
  BY <1>1, FieldLocal
<1>4. /\ [Idle EXCEPT !.pc = pc, !.kind = v, !.gate = w] = [[m EXCEPT !.kind = v] EXCEPT !.gate = w]
      /\ [Idle EXCEPT !.pc = pc, !.seen = w] = [m EXCEPT !.seen = w]
      /\ [Idle EXCEPT !.pc = pc, !.gate = v, !.button = w] = [[m EXCEPT !.gate = v] EXCEPT !.button = w]
      /\ [Idle EXCEPT !.gate = v, !.button = w, !.pc = pc] = [[n EXCEPT !.button = w] EXCEPT !.pc = pc]
  OBVIOUS
<1>5. /\ IsLocal([Idle EXCEPT !.pc = pc, !.kind = v, !.gate = w])
      /\ IsLocal([Idle EXCEPT !.pc = pc, !.seen = w])
      /\ IsLocal([Idle EXCEPT !.pc = pc, !.gate = v, !.button = w])
      /\ IsLocal([Idle EXCEPT !.gate = v, !.button = w, !.pc = pc])
  BY <1>2, <1>3, <1>4, FieldLocal, FieldPicks
<1>6. /\ [Idle EXCEPT !.pc = pc, !.kind = v, !.gate = w].pc = pc
      /\ [Idle EXCEPT !.pc = pc, !.seen = w].pc = pc
      /\ [Idle EXCEPT !.pc = pc, !.gate = v, !.button = w].pc = pc
      /\ [Idle EXCEPT !.gate = v, !.button = w, !.pc = pc].button = w
  BY DEF Idle
<1> QED
  BY <1>5, <1>6 DEF Picks

LEMMA CreatePicks ==
  ASSUME Picked, NEW p \in Process, CreateReadsLocked(p) \/ CreateButton(p)
  PROVE  Picked'
<1>1. IsLocal(at[p])
  BY DEF Picked, Picks
<1>2. CASE CreateReadsLocked(p)
  <2>1. CASE Locked(at[p].gate)
    <3>1. Goto(p, "ask")
      BY <1>2, <2>1 DEF CreateReadsLocked, Become, Goto, Picked
    <3> QED
      BY <3>1, GotoPicks
  <2>2. CASE ~Locked(at[p].gate)
    BY <1>1, <1>2, <2>2, AlteredPicks, BecomePicks DEF CreateReadsLocked
  <2> QED
    BY <2>1, <2>2
<1>3. CASE CreateButton(p)
  <2>1. at[p].pc = "create button"
    BY <1>3 DEF CreateButton, At
  <2>2. [at[p] EXCEPT !.next = @ + 1] = [at[p] EXCEPT !.pc = "create button", !.next = at[p].next + 1]
    BY <1>1, <2>1 DEF IsLocal
  <2>3. Picks([at[p] EXCEPT !.next = @ + 1])
    BY <1>1, <2>2, AlteredPicks
  <2>4. Picks([at[p] EXCEPT !.pc = "ask", !.next = 0])
    BY <1>1, AlteredPicks
  <2>5. \E l : Picks(l) /\ Become(p, l)
    BY <1>3, <2>3, <2>4 DEF CreateButton
  <2> QED
    BY <2>5, BecomePicks
<1> QED
  BY <1>2, <1>3

LEMMA RequestPicks ==
  ASSUME Picked, NEW q \in Process, RequestStep(q)
  PROVE  Picked'
<1>1. IsLocal(at[q])
  BY DEF Picked, Picks
<1>2. CASE RequestMatchesStage(q)
  <2> DEFINE excluded == IF at[q].kind = "named" THEN at[q].gate ELSE None
  <2>1. \/ Goto(q, "record")
        \/ Become(q, [at[q] EXCEPT !.pc = "supersede", !.old = PendingForStage(excluded)])
        \/ Become(q, [at[q] EXCEPT !.pc = "buttons", !.gate = PendingForStage(excluded)])
    BY <1>2 DEF RequestMatchesStage
  <2>2. /\ Picks([at[q] EXCEPT !.pc = "supersede", !.old = PendingForStage(excluded)])
        /\ Picks([at[q] EXCEPT !.pc = "buttons", !.gate = PendingForStage(excluded)])
    BY <1>1, AlteredPicks
  <2> QED
    BY <2>1, <2>2, GotoPicks, BecomePicks
<1>3. CASE CreateReadsLocked(q) \/ CreateButton(q)
  BY <1>3, CreatePicks
<1>4. CASE \/ RequestReadsLocked(q) \/ Supersede(q) \/ SupersedeButtons(q) \/ SupersedeReadsAsk(q)
           \/ SupersedeCancelsAsk(q) \/ RequestRecords(q) \/ RequestReadsButtons(q)
           \/ RequestAsks(q)
  <2>1. Stop(q) \/ \E pc \in {"match", "supersede buttons", "read ask", "cancel ask", "record", "buttons", "create", "ask"} : Goto(q, pc)
    BY <1>4 DEF RequestReadsLocked, Supersede, SupersedeButtons, SupersedeReadsAsk,
       SupersedeCancelsAsk, RequestRecords, RequestReadsButtons, RequestAsks
  <2> QED
    BY <2>1, GotoPicks, StopPicks
<1> QED
  BY <1>2, <1>3, <1>4 DEF RequestStep

LEMMA TickPicks ==
  ASSUME Picked, NEW k \in Process, TickStep(k)
  PROVE  Picked'
<1>1. IsLocal(at[k])
  BY DEF Picked, Picks
<1>2. CASE TickReadsButtons(k)
  <2> DEFINE pc == IF Active(at[k].gate) = {} THEN "create" ELSE "refresh"
  <2>1. Picks([at[k] EXCEPT !.pc = pc, !.fresh = TRUE])
    BY <1>1, AlteredPicks
  <2>2. \/ \E to \in {"ask", "withdraw"} : Goto(k, to)
        \/ Become(k, [at[k] EXCEPT !.pc = pc, !.fresh = TRUE])
    BY <1>2 DEF TickReadsButtons
  <2> QED
    BY <2>1, <2>2, GotoPicks, BecomePicks
<1>3. CASE CreateReadsLocked(k) \/ CreateButton(k)
  BY <1>3, CreatePicks
<1>4. CASE TickRefreshes(k) \/ TickWithdraws(k)
  <2>1. \E pc \in {"create", "look again", "cancel"} : Goto(k, pc)
    BY <1>4 DEF TickRefreshes, TickWithdraws
  <2> QED
    BY <2>1, GotoPicks
<1>5. CASE TickReadsLocked(k) \/ TickCancelsAsk(k) \/ TickAsks(k)
  <2>1. Goto(k, "tick buttons") \/ Become(k, NextGate(at[k]))
    BY <1>5 DEF TickReadsLocked, TickCancelsAsk, TickAsks
  <2> QED
    BY <1>1, <2>1, GotoPicks, NextPicks, BecomePicks
<1>6. CASE TickReadsGates(k)
  <2> DEFINE window == {g \in Gate : InWindow(g)}
             kept == {g \in Gate : gate[g].stored}
             l == [[at[k] EXCEPT !.todo = window] EXCEPT !.kept = kept]
  <2>1. IsLocal(l)
    BY <1>1, FieldLocal
  <2>2. Become(k, NextGate(l))
    BY <1>6 DEF TickReadsGates
  <2> QED
    BY <2>1, <2>2, NextPicks, BecomePicks
<1>7. CASE TickLooksAgain(k)
  <2> DEFINE g == at[k].gate
             seen == [at[k].seen EXCEPT ![g] = ask[g]]
             l == [at[k] EXCEPT !.pc = "cancel", !.seen = seen]
  <2>1. Picks(l)
    BY <1>1, AlteredPicks
  <2>2. Become(k, l)
    BY <1>7 DEF TickLooksAgain
  <2> QED
    BY <2>1, <2>2, BecomePicks
<1> QED
  BY <1>2, <1>3, <1>4, <1>5, <1>6, <1>7 DEF TickStep

LEMMA DispatchPicks ==
  ASSUME Picked, NEW p \in Process, DispatchStep(p) \/ DispatchThrows(p)
  PROVE  Picked'
<1>1. Stop(p) \/ \E pc \in {"insert", "made", "thrown"} : Goto(p, pc)
  BY DEF DispatchStep, DispatchLooksUp, DispatchInserts, DispatchMade,
     RetryEnqueued, RetryFails, DispatchThrows
<1> QED
  BY <1>1, GotoPicks, StopPicks

LEMMA CallbackPicks ==
  ASSUME Picked, NEW h \in Process, CallbackStep(h)
  PROVE  Picked'
<1>1. CASE DispatchStep(h)
  BY <1>1, DispatchPicks
<1>2. CASE SelectButton(h)
  <2>1. at[h].button \in Button
    BY <1>2 DEF SelectButton, At, Picked, Picks
  <2>2. Stop(h) \/ Goto(h, "decide")
    BY <1>2 DEF SelectButton
  <2> QED
    BY <2>1, <2>2, GotoPicks, StopPicks
<1>3. CASE \/ ExpireButtons(h) \/ ExpireRecord(h) \/ ChooseButton(h)
           \/ RecordAwaitsWords(h) \/ RecordDecision(h) \/ ApplyContinue(h)
           \/ ApplyPause(h) \/ ApplyTerminate(h) \/ CancelDispatches(h) \/ CancelJobs(h)
  <2>1. \/ Stop(h)
        \/ \E pc \in {"expire record", "await words", "apply", "look up",
                      "cancel jobs", "cancel dispatches"} : Goto(h, pc)
    BY <1>3 DEF ExpireButtons, ExpireRecord, ChooseButton, RecordAwaitsWords,
       RecordDecision, ApplyContinue, ApplyPause, ApplyTerminate,
       CancelDispatches, CancelJobs
  <2> QED
    BY <2>1, GotoPicks, StopPicks
<1> QED
  BY <1>1, <1>2, <1>3 DEF CallbackStep

LEMMA BeginsPicks ==
  ASSUME Picked, Begins \/ \E k \in Ticker : TickBegins(k)
  PROVE  Picked'
<1>1. ASSUME NEW q, NEW kind, NEW g, RequestBegins(q, kind, g)
      PROVE  Picked'
  <2> DEFINE l == [Idle EXCEPT !.pc = IF kind = "replace" THEN "match" ELSE "locked?",
                               !.kind = kind, !.gate = g]
  <2>1. Picks(l)
    BY FreshPicks
  <2>2. Become(q, l)
    BY <1>1 DEF RequestBegins
  <2> QED
    BY <2>1, <2>2, BecomePicks
<1>2. ASSUME NEW h, NEW g, NEW b \in Button, NEW words, CallbackBegins(h, g, b, words)
      PROVE  Picked'
  <2> DEFINE l == [Idle EXCEPT !.gate = g, !.button = b,
                     !.pc = CASE gate[g].lapsed -> "expire buttons"
                              [] ~gate[g].lapsed /\ words -> "select"
                              [] OTHER -> "choose"]
  <2>1. Picks(l)
    BY FreshPicks
  <2>2. Become(h, l)
    BY <1>2 DEF CallbackBegins
  <2> QED
    BY <2>1, <2>2, BecomePicks
<1>3. ASSUME NEW k, TickReadsAsks(k)
      PROVE  Picked'
  <2> DEFINE l == [Idle EXCEPT !.pc = "tick gates", !.seen = ask]
  <2>1. Picks(l)
    BY FreshPicks
  <2>2. Become(k, l)
    BY <1>3 DEF TickReadsAsks
  <2> QED
    BY <2>1, <2>2, BecomePicks
<1>4. ASSUME NEW k, NEW g, NEW b, RetryRuns(k, g, b)
      PROVE  Picked'
  <2> DEFINE l == [Idle EXCEPT !.pc = "look up", !.gate = g, !.button = b]
  <2>1. Picks(l)
    BY FreshPicks
  <2>2. Become(k, l)
    BY <1>4 DEF RetryRuns
  <2> QED
    BY <2>1, <2>2, BecomePicks
<1> QED
  BY <1>1, <1>2, <1>3, <1>4 DEF Begins, TickBegins

LEMMA MishapPicks ==
  ASSUME Picked, Mishap \/ Outside
  PROVE  Picked'
<1>1. ASSUME NEW p \in Human \cup Ticker, DispatchThrows(p) PROVE Picked'
  BY <1>1, DispatchPicks DEF Process
<1>2. ASSUME NEW p, Die(p) PROVE Picked'
  BY <1>2, StopPicks, GotoPicks DEF Die
<1>3. CASE UNCHANGED at
  BY <1>3 DEF Picked
<1> QED
  BY <1>1, <1>2, <1>3 DEF Mishap, Outside, Expire, AskDelivered, DispatchTaken

LEMMA StepsPick ==
  ASSUME Picked, [Next]_flowVars
  PROVE  Picked'
<1>1. CASE GateStep
  BY <1>1, RequestPicks, TickPicks, DispatchPicks, CallbackPicks, BeginsPicks,
     MishapPicks DEF GateStep, Process
<1>2. CASE UNCHANGED vars
  BY <1>2 DEF vars, Picked
<1> QED
  BY <1>1, <1>2, TradeOnGates DEF Next, flowVars, OthersMove

-----------------------------------------------------------------------------
RecordTyped ==
    gate \in [Gate -> [status : GateStatus, born : 0..Cardinality(Gate),
                      lapsed : BOOLEAN, stored : BOOLEAN]]

RetryStatus == {"absent", "queued", "running", "completed", "failed", "cancelled"}

RetryTyped == retry \in [Gate -> [Button -> RetryStatus]]

RestTyped ==
    /\ ask \in [Gate -> AskStatus]
    /\ run \in {"active", "paused", "stopped"}
    /\ RetryTyped

RoomTyped == room \in 0..AskLimit

TypeInv == RecordTyped /\ RestTyped /\ ButtonsTyped /\ DispatchTyped /\ Picked /\ RoomTyped

LEMMA GateFinite == IsFiniteSet(Gate) /\ Cardinality(Gate) \in Nat
<1>1. FreshGates \in Surjection(1..Len(FreshGates), Fresh)
  <2>1. FreshGates \in [1..Len(FreshGates) -> Fresh] /\ DOMAIN FreshGates = 1..Len(FreshGates)
    BY GateAssumption
  <2>2. \A g \in Fresh : \E i \in 1..Len(FreshGates) : FreshGates[i] = g
    BY <2>1 DEF Fresh
  <2> QED
    BY <2>1, <2>2 DEF Surjection
<1>2. IsFiniteSet(1..Len(FreshGates))
  BY GateAssumption, FS_Interval
<1>3. IsFiniteSet(Fresh)
  BY <1>1, <1>2, FS_Surjection
<1>4. IsFiniteSet(Fresh \cup {StageGate})
  BY <1>3, FS_AddElement
<1>5. Gate = Fresh \cup {StageGate}
  BY DEF Gate
<1> QED
  BY <1>4, <1>5, FS_CardinalityType

(* The order of creation: a record that is created comes after those that  *)
(* are there, and there are never more than there are gates.               *)
LEMMA NextBorn ==
  ASSUME RecordTyped, NEW g \in Gate, ~(gate[g].born > 0)
  PROVE  1 + Cardinality({h \in Gate : gate[h].born > 0}) \in 0..Cardinality(Gate)
<1> DEFINE Born == {h \in Gate : gate[h].born > 0}
           Others == Gate \ {g}
<1>1. IsFiniteSet(Others) /\ Cardinality(Others) = Cardinality(Gate) - 1
  BY GateFinite, FS_RemoveElement
<1>2. Born \in SUBSET Others
  OBVIOUS
<1>3. IsFiniteSet(Born) /\ Cardinality(Born) <= Cardinality(Others)
  BY <1>1, <1>2, FS_Subset
<1>4. Cardinality(Born) \in Nat
  BY <1>3, FS_CardinalityType
<1>5. Cardinality(Gate) \in Nat
  BY GateFinite
<1>6. \A c, d, n \in Int : c \in Nat /\ n \in Nat /\ d = n - 1 /\ c <= d => 1 + c \in 0..n
  OBVIOUS
<1> QED
  BY <1>1, <1>3, <1>4, <1>5, <1>6

LEMMA RecordPendingTyped ==
  ASSUME RecordTyped, NEW g, RecordPending(g)
  PROVE  RecordTyped'
<1> DEFINE born == IF gate[g].born > 0 THEN gate[g].born
                   ELSE 1 + Cardinality({h \in Gate : gate[h].born > 0})
<1>1. PICK stored \in BOOLEAN :
        gate' = [gate EXCEPT ![g] =
                   [status |-> "pending", lapsed |-> FALSE, stored |-> stored, born |-> born]]
  BY GateAssumption DEF RecordPending
<1>2. g \in Gate => born \in 0..Cardinality(Gate)
  BY NextBorn DEF RecordTyped
<1>3. g \in Gate =>
        [status |-> "pending", lapsed |-> FALSE, stored |-> stored, born |-> born]
          \in [status : GateStatus, born : 0..Cardinality(Gate),
                      lapsed : BOOLEAN, stored : BOOLEAN]
  BY <1>2 DEF GateStatus
<1>4. gate' \in [Gate -> [status : GateStatus, born : 0..Cardinality(Gate),
                      lapsed : BOOLEAN, stored : BOOLEAN]]
  BY <1>1, <1>3 DEF RecordTyped
<1> QED
  BY <1>4 DEF RecordTyped

LEMMA RecordMovesTyped ==
  ASSUME RecordTyped, NEW g, NEW status \in GateStatus,
         gate' = [gate EXCEPT ![g].status = status]
  PROVE  RecordTyped'
  BY DEF RecordTyped

LEMMA RecordsStayTyped ==
  ASSUME TypeInv, GateStep
  PROVE  RecordTyped'
<1> USE DEF TypeInv
<1>0. UNCHANGED gate => RecordTyped'
  BY DEF RecordTyped
<1>1. ASSUME NEW q \in Requester, RequestStep(q) PROVE RecordTyped'
  <2>1. CASE Supersede(q)
    <3> DEFINE g == at[q].old
    <3>1. gate' = [gate EXCEPT ![g].status = IF gate[g].status = "pending" THEN "superseded" ELSE gate[g].status]
      BY <2>1 DEF Supersede
    <3>2. g \in Gate => (IF gate[g].status = "pending" THEN "superseded" ELSE gate[g].status) \in GateStatus
      BY DEF RecordTyped, GateStatus
    <3>3. g \notin Gate => UNCHANGED gate
      BY <3>1 DEF RecordTyped
    <3> QED
      BY <1>0, <3>1, <3>2, <3>3, RecordMovesTyped
  <2>2. CASE RequestRecords(q)
    BY <2>2, RecordPendingTyped DEF RequestRecords
  <2>3. CASE ~Supersede(q) /\ ~RequestRecords(q)
    BY <1>0, <1>1, <2>3 DEF RequestStep, RequestReadsLocked, RequestMatchesStage, SupersedeButtons,
       SupersedeReadsAsk, SupersedeCancelsAsk, RequestReadsButtons,
       CreateReadsLocked, CreateButton, RequestAsks, tables
  <2> QED
    BY <2>1, <2>2, <2>3
<1>2. ASSUME NEW h \in Human, CallbackStep(h) PROVE RecordTyped'
  <2>1. CASE ExpireRecord(h)
    <3> DEFINE g == at[h].gate
    <3>1. gate' = [gate EXCEPT ![g].status = IF gate[g].status = "pending" THEN "expired" ELSE gate[g].status]
      BY <2>1 DEF ExpireRecord
    <3>2. g \in Gate => (IF gate[g].status = "pending" THEN "expired" ELSE gate[g].status) \in GateStatus
      BY DEF RecordTyped, GateStatus
    <3>3. g \notin Gate => UNCHANGED gate
      BY <3>1 DEF RecordTyped
    <3> QED
      BY <1>0, <3>1, <3>2, <3>3, RecordMovesTyped
  <2>2. CASE RecordAwaitsWords(h)
    <3>1. "pending" \in GateStatus
      BY DEF GateStatus
    <3> QED
      BY <2>2, <3>1, RecordMovesTyped DEF RecordAwaitsWords
  <2>3. CASE RecordDecision(h)
    <3>1. at[h].button \in Button
      BY <2>3 DEF RecordDecision, At, Picked, Picks, Process
    <3>2. Decision[at[h].button] \in GateStatus
      BY <3>1, GateAssumption DEF GateStatus
    <3> QED
      BY <2>3, <3>2, RecordMovesTyped DEF RecordDecision
  <2>4. CASE ~ExpireRecord(h) /\ ~RecordAwaitsWords(h) /\ ~RecordDecision(h)
    BY <1>0, <1>2, <2>4 DEF CallbackStep, ExpireButtons, ChooseButton, SelectButton,
       ApplyContinue, ApplyPause, ApplyTerminate, CancelDispatches, CancelJobs,
       DispatchStep, DispatchLooksUp, DispatchInserts, DispatchMade,
       RetryEnqueued, RetryFails, tables
  <2> QED
    BY <2>1, <2>2, <2>3, <2>4
<1>3. ASSUME NEW k \in Ticker, TickBegins(k) \/ TickStep(k) \/ DispatchStep(k)
      PROVE  RecordTyped'
  BY <1>0, <1>3 DEF TickBegins, TickReadsAsks, RetryRuns, TickStep, TickReadsGates, TickReadsLocked,
     TickLooksAgain, TickCancelsAsk,
     TickReadsButtons, TickRefreshes, TickWithdraws, CreateReadsLocked, CreateButton, TickAsks,
     DispatchStep, DispatchLooksUp, DispatchInserts, DispatchMade, RetryEnqueued, RetryFails, tables
<1>4. CASE Begins \/ Outside
  BY <1>0, <1>4 DEF Begins, RequestBegins, CallbackBegins, Outside, AskDelivered,
     DispatchTaken, tables
<1>5. CASE Mishap
  <2>1. ASSUME NEW g \in Gate, Expire(g) PROVE RecordTyped'
    BY <2>1 DEF Expire, RecordTyped
  <2> QED
    BY <1>0, <1>5, <2>1 DEF Mishap, DispatchThrows, Die, tables
<1> QED
  BY <1>1, <1>2, <1>3, <1>4, <1>5 DEF GateStep

-----------------------------------------------------------------------------
LEMMA AskMovesTyped ==
  ASSUME ask \in [Gate -> AskStatus], NEW g, NEW status, g \in Gate => status \in AskStatus,
         ask' = [ask EXCEPT ![g] = status]
  PROVE  ask' \in [Gate -> AskStatus]
  OBVIOUS

LEMMA EnqueuedTyped ==
  ASSUME ask \in [Gate -> AskStatus], NEW g \in Gate
  PROVE  Enqueued(g) \in AskStatus
  BY DEF Enqueued, AskStatus

LEMMA AsksStayTyped ==
  ASSUME ask \in [Gate -> AskStatus], GateStep
  PROVE  ask' \in [Gate -> AskStatus]
<1>1. "queued" \in AskStatus /\ "cancelled" \in AskStatus
  BY DEF AskStatus
<1>2. ASSUME NEW q \in Requester, RequestStep(q) PROVE ask' \in [Gate -> AskStatus]
  <2>1. CASE SupersedeCancelsAsk(q)
    BY <1>1, <2>1, AskMovesTyped DEF SupersedeCancelsAsk
  <2>2. CASE RequestAsks(q)
    BY <2>2, AskMovesTyped, EnqueuedTyped DEF RequestAsks
  <2>3. CASE ~SupersedeCancelsAsk(q) /\ ~RequestAsks(q)
    BY <1>2, <2>3 DEF RequestStep, RequestReadsLocked, RequestMatchesStage, Supersede, SupersedeButtons,
       SupersedeReadsAsk, RequestRecords, RequestReadsButtons, CreateReadsLocked,
       CreateButton, tables
  <2> QED
    BY <2>1, <2>2, <2>3
<1>3. ASSUME NEW k \in Ticker, TickBegins(k) \/ TickStep(k) \/ DispatchStep(k)
      PROVE  ask' \in [Gate -> AskStatus]
  <2>1. CASE TickAsks(k)
    <3> DEFINE g == at[k].gate
    <3>1. \/ UNCHANGED ask
          \/ ask' = [ask EXCEPT ![g] = "queued"]
          \/ ask' = [ask EXCEPT ![g] = Enqueued(g)]
      BY <2>1 DEF TickAsks
    <3> QED
      BY <1>1, <3>1, AskMovesTyped, EnqueuedTyped
  <2>2. CASE TickCancelsAsk(k)
    BY <1>1, <2>2, AskMovesTyped DEF TickCancelsAsk
  <2>3. CASE ~TickAsks(k) /\ ~TickCancelsAsk(k)
    BY <1>3, <2>3 DEF TickBegins, TickReadsAsks, RetryRuns, TickStep, TickReadsGates,
       TickReadsLocked, TickLooksAgain, TickReadsButtons, TickRefreshes, TickWithdraws, CreateReadsLocked, CreateButton,
       DispatchStep, DispatchLooksUp, DispatchInserts, DispatchMade, RetryEnqueued, RetryFails, tables
  <2> QED
    BY <2>1, <2>2, <2>3
<1>4. ASSUME NEW h \in Human, CallbackStep(h) PROVE ask' \in [Gate -> AskStatus]
  BY <1>4 DEF CallbackStep, ExpireButtons, ExpireRecord, ChooseButton,
     RecordAwaitsWords, SelectButton, RecordDecision, ApplyContinue, ApplyPause,
     ApplyTerminate, CancelDispatches, CancelJobs, DispatchStep, DispatchLooksUp,
     DispatchInserts, DispatchMade, RetryEnqueued, RetryFails, tables
<1>5. CASE Begins \/ Mishap
  BY <1>5 DEF Begins, RequestBegins, CallbackBegins, Mishap, DispatchThrows, Die,
     Expire, tables
<1>6. CASE Outside
  <2>1. ASSUME NEW g, AskDelivered(g) PROVE ask' \in [Gate -> AskStatus]
    BY <2>1 DEF AskDelivered, AskStatus
  <2> QED
    BY <1>6, <2>1 DEF Outside, DispatchTaken
<1> QED
  BY <1>2, <1>3, <1>4, <1>5, <1>6 DEF GateStep

LEMMA RunsStayTyped ==
  ASSUME run \in {"active", "paused", "stopped"}, GateStep
  PROVE  run' \in {"active", "paused", "stopped"}
<1>1. ASSUME NEW h \in Human, CallbackStep(h)
      PROVE  run' \in {"active", "paused", "stopped"}
  BY <1>1 DEF CallbackStep, ExpireButtons, ExpireRecord, ChooseButton,
     RecordAwaitsWords, SelectButton, RecordDecision, ApplyContinue, ApplyPause,
     ApplyTerminate, CancelDispatches, CancelJobs, DispatchStep, DispatchLooksUp,
     DispatchInserts, DispatchMade, RetryEnqueued, RetryFails, tables
<1>2. ASSUME NEW q \in Requester, RequestStep(q) PROVE UNCHANGED run
  BY <1>2 DEF RequestStep, RequestReadsLocked, RequestMatchesStage, Supersede, SupersedeButtons,
     SupersedeReadsAsk, SupersedeCancelsAsk, RequestRecords, RequestReadsButtons,
     CreateReadsLocked, CreateButton, RequestAsks, tables
<1>3. ASSUME NEW k \in Ticker, TickBegins(k) \/ TickStep(k) \/ DispatchStep(k)
      PROVE  UNCHANGED run
  BY <1>3 DEF TickBegins, TickReadsAsks, RetryRuns, TickStep, TickReadsGates, TickReadsLocked,
     TickLooksAgain, TickCancelsAsk,
     TickReadsButtons, TickRefreshes, TickWithdraws, CreateReadsLocked, CreateButton, TickAsks,
     DispatchStep, DispatchLooksUp, DispatchInserts, DispatchMade, RetryEnqueued, RetryFails, tables
<1>4. CASE Begins \/ Mishap \/ Outside
  BY <1>4 DEF Begins, RequestBegins, CallbackBegins, Mishap, DispatchThrows, Die,
     Expire, Outside, AskDelivered, DispatchTaken, tables
<1> QED
  BY <1>1, <1>2, <1>3, <1>4 DEF GateStep

-----------------------------------------------------------------------------
LEMMA RetryMovesTyped ==
  ASSUME RetryTyped, NEW g, NEW b, NEW status,
         g \in Gate /\ b \in Button => status \in RetryStatus,
         retry' = [retry EXCEPT ![g][b] = status]
  PROVE  RetryTyped'
<1>1. g \in Gate => [retry[g] EXCEPT ![b] = status] \in [Button -> RetryStatus]
  BY DEF RetryTyped
<1> QED
  BY <1>1 DEF RetryTyped

LEMMA RetriesStayTyped ==
  ASSUME RetryTyped, GateStep
  PROVE  RetryTyped'
<1>0. UNCHANGED retry => RetryTyped'
  BY DEF RetryTyped
<1>1. ASSUME NEW p, DispatchStep(p) PROVE RetryTyped'
  <2> DEFINE g == at[p].gate
             b == at[p].button
  <2>1. CASE DispatchMade(p)
    <3>1. UNCHANGED retry \/ retry' = [retry EXCEPT ![g][b] = "completed"]
      BY <2>1 DEF DispatchMade
    <3>2. "completed" \in RetryStatus
      BY DEF RetryStatus
    <3> QED
      BY <1>0, <3>1, <3>2, RetryMovesTyped
  <2>2. CASE RetryEnqueued(p)
    <3> DEFINE to == IF retry[g][b] \in {"queued", "running"} THEN retry[g][b] ELSE "queued"
    <3>1. retry' = [retry EXCEPT ![g][b] = to]
      BY <2>2 DEF RetryEnqueued
    <3>2. g \in Gate /\ b \in Button => to \in RetryStatus
      BY DEF RetryTyped, RetryStatus
    <3> HIDE DEF to
    <3> QED
      BY <3>1, <3>2, RetryMovesTyped
  <2>3. CASE RetryFails(p)
    <3> DEFINE to(status) == IF retry[g][b] = "running" THEN status ELSE retry[g][b]
    <3>1. \E status \in {"queued", "failed"} : retry' = [retry EXCEPT ![g][b] = to(status)]
      BY <2>3 DEF RetryFails
    <3>2. \A status \in {"queued", "failed"} :
            g \in Gate /\ b \in Button => to(status) \in RetryStatus
      BY DEF RetryTyped, RetryStatus
    <3> HIDE DEF to
    <3> QED
      BY <3>1, <3>2, RetryMovesTyped
  <2>4. CASE DispatchLooksUp(p) \/ DispatchInserts(p)
    BY <1>0, <2>4 DEF DispatchLooksUp, DispatchInserts, tables
  <2> QED
    BY <1>1, <2>1, <2>2, <2>3, <2>4 DEF DispatchStep
<1>2. ASSUME NEW h, CancelJobs(h) PROVE RetryTyped'
  <2>1. retry' = [g \in Gate |-> [b \in Button |->
                   IF retry[g][b] \in {"queued", "running"} THEN "cancelled" ELSE retry[g][b]]]
    BY <1>2 DEF CancelJobs
  <2>2. \A g \in Gate, b \in Button : retry[g][b] \in RetryStatus
    BY DEF RetryTyped
  <2>3. "cancelled" \in RetryStatus
    BY DEF RetryStatus
  <2> QED
    BY <2>1, <2>2, <2>3 DEF RetryTyped
<1>3. ASSUME NEW h, CallbackStep(h) PROVE RetryTyped'
  BY <1>0, <1>1, <1>2, <1>3 DEF CallbackStep, ExpireButtons, ExpireRecord,
     ChooseButton, RecordAwaitsWords, SelectButton, RecordDecision, ApplyContinue,
     ApplyPause, ApplyTerminate, CancelDispatches, tables
<1>4. ASSUME NEW q, RequestStep(q) PROVE UNCHANGED retry
  BY <1>4 DEF RequestStep, RequestReadsLocked, RequestMatchesStage, Supersede, SupersedeButtons,
     SupersedeReadsAsk, SupersedeCancelsAsk, RequestRecords, RequestReadsButtons,
     CreateReadsLocked, CreateButton, RequestAsks, tables
<1>5. ASSUME NEW k, NEW g, NEW b, RetryRuns(k, g, b) PROVE RetryTyped'
  <2>1. "running" \in RetryStatus
    BY DEF RetryStatus
  <2> QED
    BY <1>5, <2>1, RetryMovesTyped DEF RetryRuns
<1>6. ASSUME NEW k, TickBegins(k) \/ TickStep(k) PROVE RetryTyped'
  BY <1>0, <1>5, <1>6 DEF TickBegins, TickReadsAsks, TickStep, TickReadsGates, TickReadsLocked,
     TickLooksAgain, TickCancelsAsk,
     TickReadsButtons, TickRefreshes, TickWithdraws, CreateReadsLocked, CreateButton, TickAsks, tables
<1>7. CASE Begins \/ Mishap \/ Outside
  BY <1>0, <1>7 DEF Begins, RequestBegins, CallbackBegins, Mishap, DispatchThrows, Die,
     Expire, Outside, AskDelivered, DispatchTaken, tables
<1> QED
  BY <1>1, <1>3, <1>4, <1>0, <1>6, <1>7 DEF GateStep

-----------------------------------------------------------------------------
(* The records, buttons, requests and dispatches of a stage, the status of *)
(* its workflow and the jobs that create a dispatch again stay what their  *)
(* columns may hold: a decision only ever writes one of the statuses of a  *)
(* gate, and no more records are created than there are gates.             *)
THEOREM TypeCorrect == Spec => []TypeOK
<1>1. ASSUME Init PROVE TypeInv
  <2>1. RecordTyped
    BY <1>1, GateFinite DEF Init, RecordTyped, GateStatus
  <2>2. RestTyped
    BY <1>1 DEF Init, RestTyped, RetryTyped, RetryStatus, AskStatus
  <2>3. ButtonsTyped /\ DispatchTyped
    BY <1>1 DEF Init, ButtonsTyped, ButtonStatus, DispatchTyped, DispatchStatus
  <2>4. Picked
    BY <1>1, IdlePicks DEF Init, Picked
  <2>5. RoomTyped
    BY <1>1 DEF Init, RoomTyped
  <2> QED
    BY <2>1, <2>2, <2>3, <2>4, <2>5 DEF TypeInv
<1>2. ASSUME TypeInv, [Next]_flowVars PROVE TypeInv'
  <2>1. ButtonsTyped' /\ DispatchTyped' /\ Picked'
    BY <1>2, ButtonsStayTyped, DispatchesKept, StepsPick DEF TypeInv
  <2>2. RoomTyped'
    BY <1>2 DEF TypeInv, RoomTyped, Next, flowVars, around, OthersMove
  <2>3. CASE GateStep
    BY <1>2, <2>1, <2>2, <2>3, RecordsStayTyped, AsksStayTyped, RunsStayTyped, RetriesStayTyped
       DEF TypeInv, RestTyped
  <2>4. CASE UNCHANGED vars
    BY <1>2, <2>1, <2>2, <2>4 DEF TypeInv, RecordTyped, RestTyped, RetryTyped, vars, tables
  <2> QED
    BY <1>2, <2>3, <2>4, TradeOnGates DEF Next, flowVars, OthersMove
<1>3. TypeInv => TypeOK
  BY DEF TypeInv, RoomTyped, TypeOK, RecordTyped, RestTyped, RetryTyped, RetryStatus, ButtonsTyped,
     DispatchTyped, DispatchStatus
<1> QED
  BY <1>1, <1>2, <1>3, PTL DEF Spec, FlowInit
=============================================================================
