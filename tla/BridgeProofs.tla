---------------------------- MODULE BridgeProofs ----------------------------
(***************************************************************************)
(* Theorems about DispatchBridge for any number of dispatches and drains,  *)
(* any stale window, delay and attempt limit, and any bounds.              *)
(***************************************************************************)
EXTENDS DispatchBridge, TLAPS

-----------------------------------------------------------------------------
(* Types                                                                   *)

LEMMA IdleTyped == Idle \in Locals /\ Idle.pc = "idle" /\ Idle.since = 0
<1>1. (CHOOSE d \in Dispatch : TRUE) \in Dispatch
  BY BridgeAssumption
<1>2. ASSUME NEW x \in Dispatch
      PROVE  [pc |-> "idle", d |-> x, attempt |-> 0, since |-> 0, done |-> 0, retry |-> FALSE,
              seen |-> [status |-> "failed", attempt |-> 0, completed |-> 0]] \in Locals
  BY DEF Locals, DrainPc, ReconcilerPc, Receipt, Outcome
<1>3. QED
  BY <1>1, <1>2 DEF Idle

LEMMA ReceiptTyped ==
  ASSUME TypeOK, NEW d \in Dispatch, NEW status \in Outcome, NEW attempt \in Nat,
         NEW completed \in Nat, AddReceipt(d, status, attempt, completed)
  PROVE  receipts' \in [Dispatch -> SUBSET Receipt]
<1> DEFINE new == [status |-> status, attempt |-> attempt, completed |-> completed]
           all == receipts[d] \cup {new}
<1>1. new \in Receipt
  BY DEF Receipt
<1>2. {r \in all : \A s \in all : s.completed <= r.completed} \in SUBSET Receipt
  BY <1>1 DEF TypeOK
<1>3. QED
  BY <1>2 DEF AddReceipt, TypeOK

LEMMA RowsTyped ==
  ASSUME TypeOK, NEW r \in DispatchRow, NEW attempt \in Nat
  PROVE  /\ Sent(r, attempt) \in DispatchRow
         /\ Acked(r, attempt) \in DispatchRow
         /\ Failed(r, attempt) \in DispatchRow
         /\ Requeued(r, attempt) \in DispatchRow
         /\ \A retry : RequeuedOrFailed(r, attempt, retry) \in DispatchRow
<1>1. clock \in Nat /\ clock + Delay \in Nat
  BY BridgeAssumption DEF TypeOK
<1>2. Sent(r, attempt) \in DispatchRow
  BY <1>1 DEF Sent, DispatchRow, Status
<1>3. Acked(r, attempt) \in DispatchRow
  BY DEF Acked, DispatchRow, Status
<1>4. Failed(r, attempt) \in DispatchRow
  BY DEF Failed, DispatchRow, Status
<1>5. Requeued(r, attempt) \in DispatchRow
  BY <1>1 DEF Requeued, DispatchRow, Status
<1>6. QED
  BY <1>2, <1>3, <1>4, <1>5 DEF RequeuedOrFailed

LEMMA DrainTypes ==
  ASSUME TypeOK, NEW p \in Drain, DrainStep(p)
  PROVE  TypeOK'
<1> p \in Process /\ at[p] \in Locals /\ at[p].attempt + 1 \in Nat
  BY DEF Process, TypeOK, Locals
<1> USE DEF bounds
<1>1. CASE \E d \in Dispatch : SelectDispatch(p, d)
  <2> PICK d \in Dispatch : SelectDispatch(p, d)
    BY <1>1
  <2>1. dispatch[d].attempt \in Nat
    BY DEF TypeOK, DispatchRow
  <2>2. ASSUME NEW pc \in {"claim", "reject"}
        PROVE  [Idle EXCEPT !.pc = pc, !.d = d, !.attempt = dispatch[d].attempt] \in Locals
    BY <2>1, IdleTyped DEF Locals, DrainPc, ReconcilerPc
  <2>3. at' \in [Process -> Locals]
    BY <2>2 DEF SelectDispatch, Become, TypeOK
  <2>4. QED
    BY <2>3 DEF SelectDispatch, TypeOK
<1>2. CASE Reject(p)
  BY <1>2, RowsTyped DEF Reject, TypeOK, Locals, DrainPc, ReconcilerPc, Become, Write, DispatchRow
<1>3. CASE Claim(p)
  <2>1. [at[p] EXCEPT !.pc = "start", !.since = clock] \in Locals
    BY DEF TypeOK, Locals, DrainPc
  <2>2. at' \in [Process -> Locals]
    BY <1>3, <2>1, IdleTyped DEF Claim, Become, Stop, TypeOK
  <2>3. dispatch' \in [Dispatch -> DispatchRow]
    <3>1. dispatch[at[p].d] \in DispatchRow /\ at[p].attempt \in Nat
      BY DEF TypeOK, Locals
    <3>2. QED
      BY <1>3, <3>1, RowsTyped DEF Claim, MayClaim, Write, TypeOK
  <2>4. QED
    BY <1>3, <2>2, <2>3 DEF Claim, TypeOK
<1>4. CASE Unavailable(p)
  BY <1>4 DEF Unavailable, TypeOK, Locals, DrainPc, ReconcilerPc, Become
<1>5. CASE Start(p)
  <2>1. [at[p] EXCEPT !.pc = "run", !.attempt = @ + 1, !.since = clock] \in Locals
    BY DEF TypeOK, Locals, DrainPc
  <2>2. at' \in [Process -> Locals]
    BY <1>5, <2>1 DEF Start, Become, TypeOK
  <2>3. dispatch' \in [Dispatch -> DispatchRow]
    <3>1. dispatch[at[p].d] \in DispatchRow
      BY DEF TypeOK, Locals
    <3>2. QED
      BY <1>5, <3>1, RowsTyped DEF Start, Write, TypeOK
  <2>4. begun' \in [Dispatch -> Nat]
    BY <1>5 DEF Start, TypeOK, Locals
  <2>5. QED
    BY <1>5, <2>2, <2>3, <2>4 DEF Start, TypeOK
<1>6. CASE RunEnds(p)
  <2>1. [at[p] EXCEPT !.pc = "ack", !.done = clock] \in Locals
    BY DEF TypeOK, Locals, DrainPc
  <2>2. ASSUME NEW retry \in BOOLEAN
        PROVE  [at[p] EXCEPT !.pc = "fail", !.done = clock, !.retry = retry] \in Locals
    BY DEF TypeOK, Locals, DrainPc
  <2>3. at' \in [Process -> Locals]
    BY <1>6, <2>1, <2>2 DEF RunEnds, Become, TypeOK
  <2>4. QED
    BY <1>6, <2>3 DEF RunEnds, TypeOK
<1>7. CASE Ack(p)
  BY <1>7, RowsTyped DEF Ack, TypeOK, Locals, DrainPc, ReconcilerPc, Become, Goto, Write
<1>8. CASE AckReceipt(p)
  <2>1. receipts' \in [Dispatch -> SUBSET Receipt]
    BY <1>8, ReceiptTyped DEF AckReceipt, Locals, DrainPc, ReconcilerPc, Outcome
  <2>2. QED
    BY <1>8, <2>1 DEF AckReceipt, TypeOK, Locals, DrainPc, ReconcilerPc, Become, Goto
<1>9. CASE Fail(p)
  BY <1>9, RowsTyped DEF Fail, TypeOK, Locals, DrainPc, ReconcilerPc, Become, Goto, Write
<1>10. CASE FailReceipt(p)
  <2>1. receipts' \in [Dispatch -> SUBSET Receipt]
    BY <1>10, ReceiptTyped DEF FailReceipt, Locals, DrainPc, ReconcilerPc, Outcome, FailureStatus
  <2>2. QED
    BY <1>10, <2>1, IdleTyped DEF FailReceipt, TypeOK, Become, Stop
<1>11. CASE FinishDrain(p)
  BY <1>11, IdleTyped DEF FinishDrain, TypeOK, Become, Stop
<1>12. CASE BridgeError(p)
  BY <1>12, IdleTyped, RowsTyped DEF BridgeError, TypeOK, Locals, DrainPc, ReconcilerPc, Become, Stop, Write,
     DispatchRow
<1>13. QED
  BY <1>1, <1>2, <1>3, <1>4, <1>5, <1>6, <1>7, <1>8, <1>9, <1>10, <1>11, <1>12
     DEF DrainStep

LEMMA ReconcilerTypes ==
  ASSUME TypeOK, NEW q \in Reconciler, ReconcileStep(q)
  PROVE  TypeOK'
<1> q \in Process /\ at[q] \in Locals
  BY DEF Process, TypeOK
<1> USE DEF bounds
<1>1. CASE \E d \in Dispatch : Scan(q, d)
  <2> PICK d \in Dispatch : Scan(q, d)
    BY <1>1
  <2>1. TerminalReceipts(d) \subseteq Receipt
    BY DEF TerminalReceipts, TypeOK
  <2>2. dispatch[d].attempt \in Nat /\ dispatch[d].attempt + 1 \in Nat
    BY DEF TypeOK, DispatchRow
  <2>3. ASSUME NEW r \in Receipt
        PROVE  [Idle EXCEPT !.pc = "sync", !.d = d, !.seen = r,
                            !.attempt = dispatch[d].attempt] \in Locals
    BY <2>2, IdleTyped DEF Locals, ReconcilerPc
  <2>4. [Idle EXCEPT !.pc = "requeue", !.d = d,
                     !.attempt = dispatch[d].attempt + 1] \in Locals
    BY <2>2, IdleTyped DEF Locals, ReconcilerPc
  <2>5. at' \in [Process -> Locals]
    BY <2>1, <2>3, <2>4 DEF Scan, Become, TypeOK
  <2>6. QED
    BY <2>5 DEF Scan, TypeOK
<1>2. CASE Sync(q)
  <2> at[q].d \in Dispatch /\ at[q].attempt \in Nat /\ at[q].seen.attempt \in Nat
    BY DEF Locals, Receipt
  <2>1. Later(at[q].attempt + 1, at[q].seen.attempt) \in Nat
    BY DEF Later
  <2>2. dispatch' \in [Dispatch -> DispatchRow]
    <3>1. dispatch[at[q].d] \in DispatchRow /\ dispatch[at[q].d].attempt \in Nat
      BY DEF TypeOK, Locals, DispatchRow
    <3>2. ASSUME NEW row \in DispatchRow, Write(at[q].d, row)
          PROVE  dispatch' \in [Dispatch -> DispatchRow]
      BY <3>2 DEF Write, TypeOK
    <3>3. CASE at[q].seen.status = "acked"
      BY <1>2, <3>1, <3>2, <3>3, RowsTyped DEF Sync
    <3>4. CASE at[q].seen.status # "acked"
      BY <1>2, <2>1, <3>1, <3>2, <3>4, RowsTyped DEF Sync
    <3>5. QED
      BY <3>3, <3>4
  <2>3. at' \in [Process -> Locals]
    BY <1>2, IdleTyped DEF Sync, Become, Stop, TypeOK
  <2>4. QED
    BY <1>2, <2>2, <2>3 DEF Sync, TypeOK
<1>3. CASE Requeue(q)
  BY <1>3, RowsTyped DEF Requeue, TypeOK, Locals, DrainPc, ReconcilerPc, Become, Write
<1>4. CASE StaleReceipt(q)
  <2>1. receipts' \in [Dispatch -> SUBSET Receipt]
    BY <1>4, ReceiptTyped DEF StaleReceipt, Locals, DrainPc, ReconcilerPc, Outcome, FailureStatus
  <2>2. QED
    BY <1>4, <2>1, IdleTyped DEF StaleReceipt, TypeOK, Become, Stop
<1>5. QED
  BY <1>1, <1>2, <1>3, <1>4 DEF ReconcileStep

LEMMA ThrowTypes ==
  ASSUME TypeOK, NEW p \in Drain, Throws(p)
  PROVE  TypeOK'
<1> p \in Process /\ at[p] \in Locals
  BY DEF Process, TypeOK
<1>1. receipts' \in [Dispatch -> SUBSET Receipt]
  BY ReceiptTyped DEF Throws, Locals, DrainPc, ReconcilerPc, Outcome, FailureStatus, TypeOK
<1>2. ASSUME NEW retry \in BOOLEAN
      PROVE  [at[p] EXCEPT !.pc = "fail", !.done = clock, !.retry = retry] \in Locals
  BY DEF TypeOK, Locals, DrainPc
<1>3. [at[p] EXCEPT !.pc = "bridge error"] \in Locals
  BY DEF Locals, DrainPc
<1>4. at' \in [Process -> Locals]
  <2>1. CASE \E retry \in BOOLEAN :
               Become(p, [at[p] EXCEPT !.pc = "fail", !.done = clock, !.retry = retry])
    BY <2>1, <1>2 DEF TypeOK, Become
  <2>2. CASE Goto(p, "bridge error")
    BY <2>2, <1>3 DEF TypeOK, Become, Goto
  <2>3. QED
    BY <2>1, <2>2 DEF Throws
<1>5. faults' \in Nat
  <2>1. faults' = faults + 1
    BY DEF Throws
  <2>2. QED
    BY <2>1 DEF TypeOK
<1>6. QED
  BY <1>1, <1>4, <1>5 DEF Throws, TypeOK

LEMMA EnvironmentTypes ==
  ASSUME TypeOK, Environment
  PROVE  TypeOK'
<1> USE DEF bounds
<1>1. CASE \E d \in Dispatch : Create(d)
  BY <1>1 DEF Create, TypeOK, Write, NoDispatch, DispatchRow, Status
<1>2. CASE \E d \in Dispatch : Register(d)
  BY <1>2 DEF Register, TypeOK
<1>3. CASE CancelDispatches
  BY <1>3 DEF CancelDispatches, TypeOK, DispatchRow, Status
<1>4. CASE \E p \in Drain : Throws(p)
  BY <1>4, ThrowTypes
<1>5. CASE \E p \in Process : Crash(p)
  BY <1>5, IdleTyped DEF Crash, TypeOK, Become, Stop
<1>6. QED
  BY <1>1, <1>2, <1>3, <1>4, <1>5 DEF Environment

LEMMA InitTypes == Init => TypeOK
  BY IdleTyped DEF Init, TypeOK, NoDispatch, DispatchRow, Status

LEMMA NextTypes == TypeOK /\ [Next]_vars => TypeOK'
<1> SUFFICES ASSUME TypeOK, [Next]_vars PROVE TypeOK'
  OBVIOUS
<1>1. CASE HandlerStep
  BY <1>1, DrainTypes, ReconcilerTypes DEF HandlerStep
<1>2. CASE Environment
  BY <1>2, EnvironmentTypes
<1>3. CASE TimePasses
  BY <1>3 DEF TimePasses, TypeOK, bounds
<1>4. CASE UNCHANGED vars
  BY <1>4 DEF vars, bounds, TypeOK
<1>5. QED
  BY <1>1, <1>2, <1>3, <1>4 DEF Next

(* Every reachable state of the bridge is well typed, whatever throws,     *)
(* dies or changes (DispatchBridge).                                       *)
THEOREM TypeCorrect == Spec => []TypeOK
  BY InitTypes, NextTypes, PTL DEF Spec

-----------------------------------------------------------------------------
(* The safety of the bridge holds where agents are killed within the stale *)
(* window and one reconciliation runs at a time; calls may throw,          *)
(* registrations change and processes die anywhere.                        *)
Settled ==
    /\ RunLimit <= StaleAfter
    /\ \A q, r \in Reconciler : q = r

Held == {"start", "run", "ack", "ack receipt", "ack flow", "fail"}
Working == Held \cup {"sync", "requeue"}

(* p has claimed d, or is about to settle it for a drain that is gone.     *)
Works(p, d) == at[p].d = d /\ at[p].pc \in Working

Exclusive == \A d \in Dispatch : \A p, q \in Process : Works(p, d) /\ Works(q, d) => p = q

(* While a drain holds a dispatch the row is as the drain stamped or       *)
(* acknowledged it, or somebody failed it without looking; the stamp is    *)
(* not stale.                                                              *)
DrainAgrees(l, row) ==
    /\ l.pc \in DrainPc
    /\ l.pc \in Held =>
         /\ row.status \in {"sent", "failed", "acked"}
         /\ row.status = "sent" => row.sent = l.since
         /\ row.status = "acked" =>
              l.pc \notin {"start", "run", "ack"} /\ row.attempt = l.attempt
         /\ clock <= l.since + RunLimit
         /\ row.attempt <= l.attempt
    /\ l.pc = "start" => l.attempt < MaxAttempts /\ row.attempt = l.attempt

ReconcilerAgrees(l, row) ==
    /\ l.pc \in ReconcilerPc
    /\ l.pc \in {"sync", "requeue"} =>
         row.status \in {"sent", "failed"} /\ row.attempt <= l.attempt

(* n is how often the agent was run for the dispatch.                      *)
Counted(row, n) ==
    /\ row.status = "queued" => row.attempt < MaxAttempts
    /\ row.status = "absent" => n = 0
    /\ n <= row.attempt /\ n <= MaxAttempts

BridgeInv ==
    /\ Exclusive
    /\ \A p \in Drain : DrainAgrees(at[p], dispatch[at[p].d])
    /\ \A q \in Reconciler : ReconcilerAgrees(at[q], dispatch[at[q].d])
    /\ \A d \in Dispatch : Counted(dispatch[d], begun[d])

LEMMA AckedAgrees ==
  ASSUME TypeOK, NEW l \in Locals, NEW row \in DispatchRow, l.pc \in DrainPc,
         l.pc \notin {"start", "run", "ack"}, row.status = "acked",
         row.attempt = l.attempt, clock <= l.since + RunLimit
  PROVE  DrainAgrees(l, row)
<1>1. /\ l.attempt \in Nat /\ l.since \in Nat /\ clock \in Nat
      /\ RunLimit \in Nat /\ MaxAttempts \in Nat
  BY BridgeAssumption DEF Locals, TypeOK
<1>2. QED
  BY <1>1 DEF DrainAgrees

LEMMA ProcessKinds ==
  ASSUME NEW p \in Process
  PROVE  /\ p \in Drain <=> p \notin Reconciler
         /\ p \in Drain \/ p \in Reconciler
  BY BridgeAssumption DEF Process

(* One process and one row change, and nobody else works on that row.      *)
LEMMA RowMoves ==
  ASSUME TypeOK, BridgeInv, NEW p \in Process, NEW d \in Dispatch,
         \A other \in Process : other # p => ~Works(other, d),
         NEW l \in Locals, at' = [at EXCEPT ![p] = l],
         NEW row \in DispatchRow, dispatch' = [dispatch EXCEPT ![d] = row],
         UNCHANGED clock,
         NEW n \in Nat, begun' = [begun EXCEPT ![d] = n],
         l.pc \in Working => l.d = d,
         p \in Drain => DrainAgrees(l, dispatch'[l.d]),
         p \in Reconciler => ReconcilerAgrees(l, dispatch'[l.d]),
         Counted(row, n)
  PROVE  BridgeInv'
<1>1. \A other \in Process : other # p => at'[other] = at[other]
  BY DEF TypeOK
<1>2. at'[p] = l
  BY DEF TypeOK
<1>3. \A e \in Dispatch : e # d => dispatch'[e] = dispatch[e] /\ begun'[e] = begun[e]
  BY DEF TypeOK
<1>4. dispatch'[d] = row /\ begun'[d] = n
  BY DEF TypeOK
<1>5. \A other \in Process : at[other].d \in Dispatch
  BY DEF TypeOK, Locals
<1>6. Exclusive'
  <2> SUFFICES ASSUME NEW e \in Dispatch, NEW q \in Process, NEW r \in Process,
                      Works(q, e)', Works(r, e)', q # r
               PROVE  FALSE
    BY DEF Exclusive
  <2>1. CASE q # p /\ r # p
    BY <2>1, <1>1 DEF BridgeInv, Exclusive, Works
  <2>2. CASE q = p
    BY <2>2, <1>1, <1>2 DEF Works
  <2>3. CASE r = p
    BY <2>3, <1>1, <1>2 DEF Works
  <2>4. QED
    BY <2>1, <2>2, <2>3
<1>7. ASSUME NEW q \in Drain PROVE DrainAgrees(at[q], dispatch[at[q].d])'
  <2> q \in Process
    BY DEF Process
  <2>1. CASE q = p
    BY <2>1, <1>2 DEF DrainAgrees
  <2>2. CASE q # p /\ at[q].d # d
    <3>1. at'[q] = at[q] /\ dispatch'[at[q].d] = dispatch[at[q].d]
      BY <2>2, <1>1, <1>3, <1>5
    <3>2. DrainAgrees(at[q], dispatch[at[q].d])
      BY DEF BridgeInv
    <3>3. QED
      BY <3>1, <3>2 DEF DrainAgrees
  <2>3. CASE q # p /\ at[q].d = d
    <3>1. at[q].pc \notin Held /\ at[q].pc # "start"
      BY <2>3 DEF Works, Working, Held
    <3>2. QED
      BY <2>3, <3>1, <1>1, <1>3 DEF BridgeInv, DrainAgrees, Held
  <2>4. QED
    BY <2>1, <2>2, <2>3
<1>8. ASSUME NEW q \in Reconciler PROVE ReconcilerAgrees(at[q], dispatch[at[q].d])'
  <2> q \in Process
    BY DEF Process
  <2>1. CASE q = p
    BY <2>1, <1>2 DEF ReconcilerAgrees
  <2>2. CASE q # p /\ at[q].d # d
    BY <2>2, <1>1, <1>3, <1>5 DEF BridgeInv, ReconcilerAgrees
  <2>3. CASE q # p /\ at[q].d = d
    <3>1. at[q].pc \notin {"sync", "requeue"}
      BY <2>3 DEF Works, Working
    <3>2. QED
      BY <2>3, <3>1, <1>1, <1>3 DEF BridgeInv, ReconcilerAgrees
  <2>4. QED
    BY <2>1, <2>2, <2>3
<1>9. ASSUME NEW e \in Dispatch PROVE Counted(dispatch[e], begun[e])'
  BY <1>3, <1>4 DEF BridgeInv, Counted
<1>10. QED
  BY <1>6, <1>7, <1>8, <1>9 DEF BridgeInv

(* A process turns to something that needs nothing of any row.             *)
LEMMA LetsGo ==
  ASSUME TypeOK, BridgeInv, NEW p \in Process,
         NEW l \in Locals, at' = [at EXCEPT ![p] = l],
         UNCHANGED <<clock, dispatch, begun>>,
         \/ l.pc = "idle"
         \/ p \in Drain /\ l.pc \in {"fail receipt", "bridge error"}
         \/ p \in Reconciler /\ l.pc = "stale receipt"
  PROVE  BridgeInv'
<1>1. \A other \in Process : at'[other] = IF other = p THEN l ELSE at[other]
  BY DEF TypeOK
<1>2. l.pc \notin Working /\ l.pc \notin Held
  BY DEF Working, Held
<1>3. Exclusive'
  <2> SUFFICES ASSUME NEW e \in Dispatch, NEW q \in Process, NEW r \in Process,
                      Works(q, e)', Works(r, e)'
               PROVE  q = r
    BY DEF Exclusive
  <2>1. q # p /\ r # p
    BY <1>1, <1>2 DEF Works
  <2>2. at'[q] = at[q] /\ at'[r] = at[r]
    BY <2>1, <1>1
  <2>3. Works(q, e) /\ Works(r, e)
    BY <2>2 DEF Works
  <2>4. QED
    BY <2>3 DEF BridgeInv, Exclusive
<1>4. ASSUME NEW q \in Drain PROVE DrainAgrees(at[q], dispatch[at[q].d])'
  <2> q \in Process
    BY DEF Process
  <2>1. CASE q = p
    BY <2>1, <1>1, <1>2, ProcessKinds DEF DrainAgrees, DrainPc
  <2>2. CASE q # p
    <3>1. at'[q] = at[q] /\ DrainAgrees(at[q], dispatch[at[q].d])
      BY <2>2, <1>1 DEF BridgeInv
    <3>2. QED
      BY <3>1 DEF DrainAgrees
  <2>3. QED
    BY <2>1, <2>2
<1>5. ASSUME NEW q \in Reconciler PROVE ReconcilerAgrees(at[q], dispatch[at[q].d])'
  <2> q \in Process
    BY DEF Process
  <2>1. CASE q = p
    BY <2>1, <1>1, ProcessKinds DEF ReconcilerAgrees, ReconcilerPc
  <2>2. CASE q # p
    BY <2>2, <1>1 DEF BridgeInv, ReconcilerAgrees
  <2>3. QED
    BY <2>1, <2>2
<1>6. QED
  BY <1>3, <1>4, <1>5 DEF BridgeInv, Counted

(* Nobody works on a dispatch that is queued or cancelled; who works on    *)
(* one is alone.                                                           *)
LEMMA AtWork ==
  ASSUME TypeOK, BridgeInv, NEW p \in Process, NEW d \in Dispatch, Works(p, d)
  PROVE  /\ dispatch[d].status \in {"sent", "failed", "acked"}
         /\ \A other \in Process : other # p => ~Works(other, d)
<1>1. \A other \in Process : other # p => ~Works(other, d)
  BY DEF BridgeInv, Exclusive
<1>2. dispatch[d].status \in {"sent", "failed", "acked"}
  <2>1. CASE p \in Drain
    BY <2>1 DEF BridgeInv, DrainAgrees, DrainPc, Works, Working, Held
  <2>2. CASE p \in Reconciler
    BY <2>2 DEF BridgeInv, ReconcilerAgrees, ReconcilerPc, Works, Working, Held
  <2>3. QED
    BY <2>1, <2>2, ProcessKinds
<1>3. QED
  BY <1>1, <1>2

LEMMA Nobody ==
  ASSUME TypeOK, BridgeInv, NEW d \in Dispatch,
         dispatch[d].status \notin {"sent", "failed", "acked"}
  PROVE  \A other \in Process : ~Works(other, d)
  BY AtWork

(* A drain fails a dispatch that another process may hold: that process    *)
(* goes on, and finds a row that no claim and no reconciliation takes.     *)
LEMMA FailsBlindly ==
  ASSUME TypeOK, BridgeInv, NEW p \in Drain, at[p].pc \in {"reject", "bridge error"},
         NEW l \in Locals, at' = [at EXCEPT ![p] = l], l.pc \in {"idle", "fail receipt"},
         dispatch' = [dispatch EXCEPT ![at[p].d] =
                        Failed(dispatch[at[p].d], dispatch[at[p].d].attempt)],
         UNCHANGED clock, UNCHANGED begun
  PROVE  BridgeInv'
<1> DEFINE d == at[p].d
<1> p \in Process /\ p \notin Reconciler
  BY BridgeAssumption DEF Process
<1> d \in Dispatch /\ dispatch[d] \in DispatchRow
  BY DEF TypeOK, Locals
<1>1. \A other \in Process : at'[other] = IF other = p THEN l ELSE at[other]
  BY DEF TypeOK
<1>2. l.pc \notin Working /\ l.pc \notin Held
  BY DEF Working, Held
<1>3. /\ dispatch'[d].status = "failed" /\ dispatch'[d].attempt = dispatch[d].attempt
      /\ \A e \in Dispatch : e # d => dispatch'[e] = dispatch[e]
  BY DEF TypeOK, Failed, DispatchRow
<1>4. Exclusive'
  <2> SUFFICES ASSUME NEW e \in Dispatch, NEW q \in Process, NEW r \in Process,
                      Works(q, e)', Works(r, e)'
               PROVE  q = r
    BY DEF Exclusive
  <2>1. q # p /\ r # p
    BY <1>1, <1>2 DEF Works
  <2>2. at'[q] = at[q] /\ at'[r] = at[r]
    BY <2>1, <1>1
  <2>3. Works(q, e) /\ Works(r, e)
    BY <2>2 DEF Works
  <2>4. QED
    BY <2>3 DEF BridgeInv, Exclusive
<1>5. ASSUME NEW q \in Drain PROVE DrainAgrees(at[q], dispatch[at[q].d])'
  <2> q \in Process /\ at[q].d \in Dispatch
    BY DEF Process, TypeOK, Locals
  <2>1. CASE q = p
    BY <2>1, <1>1, <1>2 DEF DrainAgrees, DrainPc
  <2>2. CASE q # p
    <3>1. at'[q] = at[q] /\ DrainAgrees(at[q], dispatch[at[q].d])
      BY <2>2, <1>1 DEF BridgeInv
    <3>2. QED
      BY <3>1, <1>3 DEF DrainAgrees
  <2>3. QED
    BY <2>1, <2>2
<1>6. ASSUME NEW q \in Reconciler PROVE ReconcilerAgrees(at[q], dispatch[at[q].d])'
  <2> q \in Process /\ at[q].d \in Dispatch /\ q # p
    BY DEF Process, TypeOK, Locals
  <2>1. at'[q] = at[q] /\ ReconcilerAgrees(at[q], dispatch[at[q].d])
    BY <1>1 DEF BridgeInv
  <2>2. QED
    BY <2>1, <1>3 DEF ReconcilerAgrees
<1>7. ASSUME NEW e \in Dispatch PROVE Counted(dispatch[e], begun[e])'
  <2>1. Counted(dispatch[e], begun[e])
    BY DEF BridgeInv
  <2>2. QED
    BY <2>1, <1>3 DEF Counted
<1>8. QED
  BY <1>4, <1>5, <1>6, <1>7 DEF BridgeInv

-----------------------------------------------------------------------------
LEMMA DrainInvs ==
  ASSUME TypeOK, TypeOK', BridgeInv, Settled, NEW p \in Drain, DrainStep(p)
  PROVE  BridgeInv'
<1> DEFINE d == at[p].d  row == dispatch[d]
<1> p \in Process /\ p \notin Reconciler /\ at[p] \in Locals /\ at'[p] \in Locals
  BY BridgeAssumption DEF Process, TypeOK
<1> d \in Dispatch /\ row \in DispatchRow /\ dispatch'[d] \in DispatchRow
  BY DEF TypeOK, Locals
<1> /\ at[p].attempt \in Nat /\ at[p].since \in Nat
    /\ row.attempt \in Nat /\ begun[d] \in Nat /\ begun'[d] \in Nat
    /\ clock \in Nat /\ MaxAttempts \in Nat /\ RunLimit \in Nat
  BY BridgeAssumption DEF Locals, DispatchRow, TypeOK
<1>a. DrainAgrees(at[p], row) /\ Counted(row, begun[d])
  BY DEF BridgeInv
<1>b. Works(p, d) => \A other \in Process : other # p => ~Works(other, d)
  BY AtWork
<1>c. clock <= clock + RunLimit
  OBVIOUS
<1>1. CASE \E e \in Dispatch : SelectDispatch(p, e)
  <2> PICK e \in Dispatch : SelectDispatch(p, e)
    BY <1>1
  <2> DEFINE l == at'[p]
  <2>1. at' = [at EXCEPT ![p] = l]
    BY DEF SelectDispatch, Become, TypeOK
  <2>2. /\ l.pc = IF valid[e] THEN "claim" ELSE "reject"
        /\ l.d = e
    BY IdleTyped DEF SelectDispatch, Become, TypeOK, Locals
  <2>3. \A other \in Process : ~Works(other, e)
    BY Nobody DEF SelectDispatch, Due
  <2>4. DrainAgrees(l, dispatch'[l.d])
    BY <2>2 DEF DrainAgrees, SelectDispatch, DrainPc, Held
  <2>5. l.pc \notin Working
    BY <2>2 DEF Working, Held
  <2>6. /\ dispatch' = [dispatch EXCEPT ![e] = dispatch[e]]
        /\ begun' = [begun EXCEPT ![e] = begun[e]]
        /\ UNCHANGED clock
    BY DEF SelectDispatch, TypeOK
  <2>7. Counted(dispatch[e], begun[e]) /\ dispatch[e] \in DispatchRow /\ begun[e] \in Nat
    BY DEF BridgeInv, TypeOK
  <2> HIDE DEF l
  <2>8. QED
    BY <2>1, <2>3, <2>4, <2>5, <2>6, <2>7, RowMoves DEF l
<1>2. CASE Reject(p)
  <2>1. /\ at[p].pc = "reject"
        /\ at' = [at EXCEPT ![p] = at'[p]]
        /\ at'[p].pc = "fail receipt"
        /\ dispatch' = [dispatch EXCEPT ![d] = Failed(row, row.attempt)]
    BY <1>2 DEF Reject, At, Become, Write, TypeOK, Locals
  <2>2. QED
    BY <1>2, <2>1, FailsBlindly DEF Reject
<1>3. CASE Claim(p)
  <2>1. CASE ~MayClaim(p)
    BY <1>3, <2>1, IdleTyped, LetsGo DEF Claim, Stop, Become
  <2>2. CASE MayClaim(p)
    <3>1. at[p].pc = "claim" /\ row.status = "queued" /\ row.attempt = at[p].attempt
      BY <1>3, <2>2, <1>a DEF Claim, At, DrainAgrees, MayClaim
    <3>2. \A other \in Process : ~Works(other, d)
      BY <3>1, Nobody
    <3>3. /\ at' = [at EXCEPT ![p] = at'[p]]
          /\ at'[p].pc = "start" /\ at'[p].d = d /\ at'[p].since = clock
          /\ at'[p].attempt = at[p].attempt
      BY <1>3, <2>2 DEF Claim, Become, TypeOK, Locals
    <3>a. dispatch' = [dispatch EXCEPT ![d] = Sent(row, at[p].attempt)]
      BY <1>3, <2>2 DEF Claim, Write
    <3>4. /\ dispatch' = [dispatch EXCEPT ![d] = dispatch'[d]]
          /\ dispatch'[d].status = "sent" /\ dispatch'[d].attempt = at[p].attempt
          /\ dispatch'[d].sent = clock
          /\ begun' = [begun EXCEPT ![d] = begun[d]]
          /\ UNCHANGED clock
      BY <1>3, <3>a DEF Claim, Sent, TypeOK, DispatchRow
    <3>5. at[p].attempt < MaxAttempts
      BY <3>1, <1>a DEF Counted
    <3>6. DrainAgrees(at'[p], dispatch'[at'[p].d])
      BY <1>c, <3>1, <3>3, <3>4, <3>5 DEF DrainAgrees, DrainPc, Held
    <3>7. Counted(dispatch'[d], begun[d])
      BY <1>a, <3>1, <3>4 DEF Counted
    <3>8. QED
      BY <3>2, <3>3, <3>4, <3>6, <3>7, RowMoves
  <2>3. QED
    BY <2>1, <2>2
<1>4. CASE Unavailable(p)
  <2>1. at[p].pc = "start" /\ \A other \in Process : other # p => ~Works(other, d)
    BY <1>4, <1>b DEF Unavailable, At, Works, Working, Held
  <2>2. /\ at' = [at EXCEPT ![p] = at'[p]]
        /\ at'[p].pc = "fail" /\ at'[p].d = d /\ at'[p].since = at[p].since
        /\ at'[p].attempt = at[p].attempt + 1
        /\ dispatch' = [dispatch EXCEPT ![d] = row]
        /\ begun' = [begun EXCEPT ![d] = begun[d]]
        /\ UNCHANGED clock /\ dispatch' = dispatch
    BY <1>4 DEF Unavailable, Become, TypeOK, Locals
  <2>3. DrainAgrees(at'[p], dispatch'[at'[p].d])
    BY <2>1, <2>2, <1>a DEF DrainAgrees, DrainPc, Held
  <2>4. QED
    BY <2>1, <2>2, <2>3, <1>a, RowMoves
<1>5. CASE Start(p)
  <2>1. at[p].pc = "start" /\ \A other \in Process : other # p => ~Works(other, d)
    BY <1>5, <1>b DEF Start, At, Works, Working, Held
  <2>2. /\ at' = [at EXCEPT ![p] = at'[p]]
        /\ at'[p].pc = "run" /\ at'[p].d = d /\ at'[p].since = clock
        /\ at'[p].attempt = at[p].attempt + 1
    BY <1>5 DEF Start, Become, TypeOK, Locals
  <2>3. /\ dispatch' = [dispatch EXCEPT ![d] = dispatch'[d]]
        /\ dispatch'[d].status = "sent" /\ dispatch'[d].attempt = at[p].attempt + 1
        /\ dispatch'[d].sent = clock
    BY <1>5 DEF Start, Write, Sent, TypeOK, DispatchRow
  <2>4. /\ begun' = [begun EXCEPT ![d] = begun[d] + 1]
        /\ UNCHANGED clock
    BY <1>5 DEF Start
  <2>5. DrainAgrees(at'[p], dispatch'[at'[p].d])
    BY <1>c, <2>1, <2>2, <2>3, <2>4, <1>a DEF DrainAgrees, DrainPc, Held
  <2>6. Counted(dispatch'[d], begun[d] + 1)
    <3>1. row.attempt = at[p].attempt /\ at[p].attempt < MaxAttempts
      BY <2>1, <1>a DEF DrainAgrees
    <3>2. QED
      BY <3>1, <1>a, <2>3 DEF Counted
  <2> begun[d] + 1 \in Nat
    OBVIOUS
  <2>7. QED
    BY <2>1, <2>2, <2>3, <2>4, <2>5, <2>6, RowMoves
<1>6. CASE RunEnds(p)
  <2>1. at[p].pc = "run" /\ \A other \in Process : other # p => ~Works(other, d)
    BY <1>6, <1>b DEF RunEnds, At, Works, Working, Held
  <2>2. /\ at' = [at EXCEPT ![p] = at'[p]]
        /\ at'[p].pc \in {"ack", "fail"} /\ at'[p].d = d /\ at'[p].since = at[p].since
        /\ at'[p].attempt = at[p].attempt
    <3>1. CASE Become(p, [at[p] EXCEPT !.pc = "ack", !.done = clock])
      BY <3>1 DEF Become, TypeOK, Locals
    <3>2. CASE \E retry \in BOOLEAN :
                 Become(p, [at[p] EXCEPT !.pc = "fail", !.done = clock, !.retry = retry])
      BY <3>2 DEF Become, TypeOK, Locals
    <3>3. QED
      BY <1>6, <3>1, <3>2 DEF RunEnds
  <2>3. /\ dispatch' = [dispatch EXCEPT ![d] = row]
        /\ begun' = [begun EXCEPT ![d] = begun[d]]
        /\ UNCHANGED clock /\ dispatch' = dispatch
    BY <1>6 DEF RunEnds, TypeOK
  <2>4. DrainAgrees(at'[p], dispatch'[at'[p].d])
    BY <2>1, <2>2, <2>3, <1>a DEF DrainAgrees, DrainPc, Held
  <2>5. QED
    BY <2>1, <2>2, <2>3, <2>4, <1>a, RowMoves
<1>7. CASE Ack(p)
  <2>1. at[p].pc = "ack" /\ \A other \in Process : other # p => ~Works(other, d)
    BY <1>7, <1>b DEF Ack, At, Works, Working, Held
  <2>2. /\ at' = [at EXCEPT ![p] = at'[p]]
        /\ at'[p].pc = "ack receipt" /\ at'[p].d = d /\ at'[p].since = at[p].since
        /\ at'[p].attempt = at[p].attempt
    BY <1>7 DEF Ack, Goto, Become, TypeOK, Locals
  <2>3. /\ dispatch' = [dispatch EXCEPT ![d] = dispatch'[d]]
        /\ begun' = [begun EXCEPT ![d] = begun[d]]
        /\ UNCHANGED clock
    BY <1>7 DEF Ack, Write, Acked, TypeOK, DispatchRow
  <2>d. dispatch'[d].status = "acked" /\ dispatch'[d].attempt = at[p].attempt
    BY <1>7 DEF Ack, Write, Acked, TypeOK, DispatchRow
  <2>a. row.attempt <= at[p].attempt /\ clock <= at[p].since + RunLimit
    BY <2>1, <1>a DEF DrainAgrees, Held
  <2>b. at'[p].d = d /\ clock <= at'[p].since + RunLimit
    BY <2>a, <2>2
  <2>4. DrainAgrees(at'[p], dispatch'[at'[p].d])
    <3>1. at'[p].pc \in DrainPc /\ at'[p].pc \notin {"start", "run", "ack"}
      BY <2>2 DEF DrainPc
    <3>2. DrainAgrees(at'[p], dispatch'[d])
      BY <2>b, <2>d, <2>2, <3>1, AckedAgrees
    <3>3. QED
      BY <3>2, <2>b
  <2>5. Counted(dispatch'[d], begun[d])
    BY <2>d, <2>a, <1>a DEF Counted
  <2>6. QED
    BY <2>1, <2>2, <2>3, <2>4, <2>5, RowMoves
<1>8. CASE AckReceipt(p)
  <2>1. at[p].pc = "ack receipt" /\ \A other \in Process : other # p => ~Works(other, d)
    BY <1>8, <1>b DEF AckReceipt, At, Works, Working, Held
  <2>2. /\ at' = [at EXCEPT ![p] = at'[p]]
        /\ at'[p].pc = "ack flow" /\ at'[p].d = d /\ at'[p].since = at[p].since
        /\ at'[p].attempt = at[p].attempt
        /\ dispatch' = [dispatch EXCEPT ![d] = row]
        /\ begun' = [begun EXCEPT ![d] = begun[d]]
        /\ UNCHANGED clock /\ dispatch' = dispatch
    BY <1>8 DEF AckReceipt, Goto, Become, TypeOK, Locals
  <2>3. DrainAgrees(at'[p], dispatch'[at'[p].d])
    BY <2>1, <2>2, <1>a DEF DrainAgrees, DrainPc, Held
  <2>4. QED
    BY <2>1, <2>2, <2>3, <1>a, RowMoves
<1>9. CASE Fail(p)
  <2>1. at[p].pc = "fail" /\ \A other \in Process : other # p => ~Works(other, d)
    BY <1>9, <1>b DEF Fail, At, Works, Working, Held
  <2>2. /\ at' = [at EXCEPT ![p] = at'[p]]
        /\ at'[p].pc = "fail receipt" /\ at'[p].d = d
    BY <1>9 DEF Fail, Goto, Become, TypeOK, Locals
  <2>3. /\ dispatch' = [dispatch EXCEPT ![d] = dispatch'[d]]
        /\ begun' = [begun EXCEPT ![d] = begun[d]]
        /\ UNCHANGED clock
    BY <1>9 DEF Fail, Write, TypeOK
  <2>4. /\ dispatch'[d].attempt = at[p].attempt
        /\ \/ dispatch'[d].status = "queued" /\ at[p].attempt < MaxAttempts
           \/ dispatch'[d].status = "failed"
    <3>1. dispatch'[d] = RequeuedOrFailed(row, at[p].attempt, at[p].retry)
      BY <1>9 DEF Fail, Write, TypeOK
    <3>2. QED
      BY <3>1 DEF RequeuedOrFailed, MayRetry, Requeued, Failed, DispatchRow
  <2>5. DrainAgrees(at'[p], dispatch'[at'[p].d]) /\ at'[p].pc \notin Working
    BY <2>2 DEF DrainAgrees, DrainPc, Working, Held
  <2>6. Counted(dispatch'[d], begun[d])
    <3>1. row.attempt <= at[p].attempt
      BY <2>1, <1>a DEF DrainAgrees, Held
    <3>2. QED
      BY <3>1, <2>4, <1>a DEF Counted
  <2>7. QED
    BY <2>1, <2>2, <2>3, <2>5, <2>6, RowMoves
<1>10. CASE FailReceipt(p) \/ FinishDrain(p)
  BY <1>10, IdleTyped, LetsGo DEF FailReceipt, FinishDrain, Stop, Become
<1>11. CASE BridgeError(p)
  <2>1. /\ at[p].pc = "bridge error"
        /\ at' = [at EXCEPT ![p] = Idle] /\ Idle.pc = "idle" /\ Idle \in Locals
        /\ dispatch' = [dispatch EXCEPT ![d] = Failed(row, row.attempt)]
    BY <1>11, IdleTyped DEF BridgeError, At, Become, Stop, Write
  <2>2. QED
    BY <1>11, <2>1, FailsBlindly DEF BridgeError
<1>12. QED
  BY <1>1, <1>2, <1>3, <1>4, <1>5, <1>6, <1>7, <1>8, <1>9, <1>10, <1>11 DEF DrainStep

LEMMA ReconcilerInvs ==
  ASSUME TypeOK, TypeOK', BridgeInv, Settled, NEW q \in Reconciler, ReconcileStep(q)
  PROVE  BridgeInv'
<1> DEFINE d == at[q].d  row == dispatch[d]
<1> q \in Process /\ q \notin Drain /\ at[q] \in Locals /\ at'[q] \in Locals
  BY BridgeAssumption DEF Process, TypeOK
<1> d \in Dispatch /\ row \in DispatchRow /\ dispatch'[d] \in DispatchRow
  BY DEF TypeOK, Locals
<1> /\ at[q].attempt \in Nat /\ at[q].seen.attempt \in Nat
    /\ row.attempt \in Nat /\ begun[d] \in Nat
    /\ clock \in Nat /\ MaxAttempts \in Nat /\ RunLimit \in Nat /\ StaleAfter \in Nat
  BY BridgeAssumption DEF Locals, DispatchRow, TypeOK, Receipt
<1>a. ReconcilerAgrees(at[q], row) /\ Counted(row, begun[d])
  BY DEF BridgeInv
<1>b. Works(q, d) => \A other \in Process : other # q => ~Works(other, d)
  BY AtWork
<1>1. CASE \E e \in Dispatch : Scan(q, e)
  <2> PICK e \in Dispatch : Scan(q, e)
    BY <1>1
  <2>0. dispatch[e] \in DispatchRow /\ dispatch[e].attempt \in Nat /\ dispatch[e].sent \in Nat
    BY DEF TypeOK, DispatchRow
  <2>1. /\ at' = [at EXCEPT ![q] = at'[q]]
        /\ at'[q].d = e /\ at'[q].pc \in {"sync", "requeue"}
        /\ dispatch[e].attempt <= at'[q].attempt
    <3>1. CASE \E r \in TerminalReceipts(e) :
                 Become(q, [Idle EXCEPT !.pc = "sync", !.d = e, !.seen = r,
                                        !.attempt = dispatch[e].attempt])
      BY <2>0, <3>1, IdleTyped DEF Become, TypeOK, Locals
    <3>2. CASE Become(q, [Idle EXCEPT !.pc = "requeue", !.d = e,
                                      !.attempt = dispatch[e].attempt + 1])
      BY <2>0, <3>2, IdleTyped DEF Become, TypeOK, Locals
    <3>3. QED
      BY <3>1, <3>2 DEF Scan
  <2>2. dispatch[e].status = "sent" /\ dispatch[e].sent + StaleAfter < clock
    BY DEF Scan, IsStale
  <2>3. ASSUME NEW other \in Process, other # q, Works(other, e) PROVE FALSE
    <3>1. other \in Drain
      BY <2>3, ProcessKinds DEF Settled
    <3>2. DrainAgrees(at[other], dispatch[e])
      BY <2>3, <3>1 DEF BridgeInv, Works
    <3>3. /\ dispatch[e].sent = at[other].since
          /\ clock <= at[other].since + RunLimit
      BY <2>2, <2>3, <3>2 DEF DrainAgrees, Works, Working, Held, DrainPc
    <3>4. QED
      BY <2>0, <2>2, <3>3 DEF Settled
  <2>4. /\ dispatch' = [dispatch EXCEPT ![e] = dispatch[e]] /\ dispatch' = dispatch
        /\ begun' = [begun EXCEPT ![e] = begun[e]]
        /\ UNCHANGED clock
    BY DEF Scan, TypeOK
  <2>5. ReconcilerAgrees(at'[q], dispatch'[at'[q].d])
    BY <2>1, <2>2, <2>4 DEF ReconcilerAgrees, ReconcilerPc
  <2>6. Counted(dispatch[e], begun[e]) /\ begun[e] \in Nat
    BY DEF BridgeInv, TypeOK
  <2>7. QED
    BY <2>0, <2>1, <2>3, <2>4, <2>5, <2>6, RowMoves
<1>2. CASE Sync(q)
  <2>1. /\ at[q].pc = "sync" /\ row.attempt <= at[q].attempt
        /\ \A other \in Process : other # q => ~Works(other, d)
    BY <1>2, <1>a, <1>b DEF Sync, At, ReconcilerAgrees, Works, Working
  <2>2. /\ at' = [at EXCEPT ![q] = Idle]
        /\ begun' = [begun EXCEPT ![d] = begun[d]]
        /\ UNCHANGED clock
    BY <1>2 DEF Sync, Stop, Become, TypeOK
  <2>3. dispatch' = [dispatch EXCEPT ![d] = dispatch'[d]]
    BY <1>2 DEF Sync, Write, TypeOK
  <2>4. ReconcilerAgrees(Idle, dispatch'[Idle.d]) /\ Idle.pc \notin Working /\ Idle \in Locals
    BY IdleTyped DEF ReconcilerAgrees, ReconcilerPc, Working, Held
  <2>5. Counted(dispatch'[d], begun[d])
    <3> DEFINE later == Later(at[q].attempt + 1, at[q].seen.attempt)
    <3>1. later \in Nat /\ row.attempt <= later
      BY <2>1 DEF Later
    <3>2. CASE at[q].seen.status = "acked"
      <4>1. dispatch'[d] = Acked(row, row.attempt)
        BY <1>2, <3>2 DEF Sync, Write, TypeOK
      <4>2. dispatch'[d].status = "acked" /\ dispatch'[d].attempt = row.attempt
        BY <4>1 DEF Acked, DispatchRow
      <4>3. QED
        BY <2>1, <4>2, <1>a DEF Counted
    <3>3. CASE at[q].seen.status # "acked"
      <4>1. dispatch'[d] = RequeuedOrFailed(row, later, at[q].seen.status = "retry_scheduled")
        BY <1>2, <3>3 DEF Sync, Write, TypeOK
      <4> HIDE DEF later
      <4>2. /\ dispatch'[d].attempt = later
            /\ \/ dispatch'[d].status = "queued" /\ later < MaxAttempts
               \/ dispatch'[d].status = "failed"
        BY <4>1 DEF RequeuedOrFailed, MayRetry, Requeued, Failed, DispatchRow
      <4>3. QED
        BY <3>1, <4>2, <1>a DEF Counted
    <3>4. QED
      BY <3>2, <3>3
  <2>6. QED
    BY <2>1, <2>2, <2>3, <2>4, <2>5, RowMoves
<1>3. CASE Requeue(q)
  <2>1. /\ at[q].pc = "requeue" /\ row.attempt <= at[q].attempt
        /\ \A other \in Process : other # q => ~Works(other, d)
    BY <1>3, <1>a, <1>b DEF Requeue, At, ReconcilerAgrees, Works, Working
  <2>2. /\ at' = [at EXCEPT ![q] = at'[q]]
        /\ at'[q].pc = "stale receipt" /\ at'[q].d = d
        /\ begun' = [begun EXCEPT ![d] = begun[d]]
        /\ UNCHANGED clock
    BY <1>3 DEF Requeue, Become, TypeOK, Locals
  <2>3. dispatch' = [dispatch EXCEPT ![d] = dispatch'[d]]
    BY <1>3 DEF Requeue, Write, TypeOK
  <2>4. ReconcilerAgrees(at'[q], dispatch'[at'[q].d]) /\ at'[q].pc \notin Working
    BY <2>2 DEF ReconcilerAgrees, ReconcilerPc, Working, Held
  <2>5. Counted(dispatch'[d], begun[d])
    <3>1. dispatch'[d] = RequeuedOrFailed(row, at[q].attempt, TRUE)
      BY <1>3 DEF Requeue, Write, TypeOK
    <3>2. /\ dispatch'[d].attempt = at[q].attempt
          /\ \/ dispatch'[d].status = "queued" /\ at[q].attempt < MaxAttempts
             \/ dispatch'[d].status = "failed"
      BY <3>1 DEF RequeuedOrFailed, MayRetry, Requeued, Failed, DispatchRow
    <3>3. QED
      BY <2>1, <3>2, <1>a DEF Counted
  <2>6. QED
    BY <2>1, <2>2, <2>3, <2>4, <2>5, RowMoves
<1>4. CASE StaleReceipt(q)
  BY <1>4, IdleTyped, LetsGo DEF StaleReceipt, Stop, Become
<1>5. QED
  BY <1>1, <1>2, <1>3, <1>4 DEF ReconcileStep

(* The environment writes only rows that nobody works on.                  *)
LEMMA RowsMove ==
  ASSUME TypeOK, TypeOK', BridgeInv, UNCHANGED <<at, clock, begun>>,
         \A d \in Dispatch :
            \/ dispatch'[d] = dispatch[d]
            \/ /\ \A p \in Process : ~Works(p, d)
               /\ Counted(dispatch'[d], begun[d])
  PROVE  BridgeInv'
<1>1. Exclusive'
  BY DEF BridgeInv, Exclusive, Works
<1>2. ASSUME NEW p \in Drain PROVE DrainAgrees(at[p], dispatch[at[p].d])'
  <2> p \in Process /\ at[p].d \in Dispatch
    BY DEF Process, TypeOK, Locals
  <2>1. DrainAgrees(at[p], dispatch[at[p].d])
    BY DEF BridgeInv
  <2>2. CASE dispatch'[at[p].d] = dispatch[at[p].d]
    BY <2>1, <2>2 DEF DrainAgrees
  <2>3. CASE at[p].pc \notin Held
    BY <2>1, <2>3 DEF DrainAgrees, Held
  <2>4. QED
    BY <2>2, <2>3 DEF Works, Working
<1>3. ASSUME NEW q \in Reconciler PROVE ReconcilerAgrees(at[q], dispatch[at[q].d])'
  <2> q \in Process /\ at[q].d \in Dispatch
    BY DEF Process, TypeOK, Locals
  <2>1. QED
    BY DEF BridgeInv, ReconcilerAgrees, Works, Working
<1>4. ASSUME NEW d \in Dispatch PROVE Counted(dispatch[d], begun[d])'
  BY DEF BridgeInv, Counted
<1>5. QED
  BY <1>1, <1>2, <1>3, <1>4 DEF BridgeInv

(* A call throws after an acknowledgement, or the run is given up.         *)
LEMMA ThrowInvs ==
  ASSUME TypeOK, TypeOK', BridgeInv, NEW p \in Drain, Throws(p)
  PROVE  BridgeInv'
<1> DEFINE d == at[p].d  row == dispatch[d]
<1> p \in Process /\ p \notin Reconciler /\ at[p] \in Locals /\ at'[p] \in Locals
  BY BridgeAssumption DEF Process, TypeOK
<1> d \in Dispatch /\ row \in DispatchRow /\ begun[d] \in Nat
  BY DEF TypeOK, Locals
<1>1. DrainAgrees(at[p], row) /\ Counted(row, begun[d])
  BY DEF BridgeInv
<1>2. CASE at[p].pc \in {"ack", "ack receipt", "ack flow"} /\ at'[p].pc = "fail"
  <2>1. PICK retry \in BOOLEAN :
          at' = [at EXCEPT ![p] = [at[p] EXCEPT !.pc = "fail", !.done = clock,
                                                !.retry = retry]]
    BY <1>2 DEF Throws, Become, Goto, TypeOK, Locals
  <2>2. /\ at' = [at EXCEPT ![p] = at'[p]]
        /\ at'[p].pc = "fail" /\ at'[p].d = d /\ at'[p].since = at[p].since
        /\ at'[p].attempt = at[p].attempt
    BY <2>1 DEF TypeOK, Locals
  <2>3. /\ dispatch' = [dispatch EXCEPT ![d] = row] /\ dispatch' = dispatch
        /\ begun' = [begun EXCEPT ![d] = begun[d]]
        /\ UNCHANGED clock
    BY DEF Throws, TypeOK
  <2>4. \A other \in Process : other # p => ~Works(other, d)
    BY <1>2, AtWork DEF Works, Working, Held
  <2>5. DrainAgrees(at'[p], dispatch'[at'[p].d])
    BY <1>1, <1>2, <2>2, <2>3 DEF DrainAgrees, DrainPc, Held
  <2>6. QED
    BY <1>1, <2>2, <2>3, <2>4, <2>5, RowMoves
<1>3. CASE at' = [at EXCEPT ![p] = at'[p]] /\ at'[p].pc = "bridge error"
  BY <1>3, LetsGo DEF Throws
<1>4. QED
  <2>1. CASE Goto(p, "bridge error")
    BY <2>1, <1>3 DEF Goto, Become, TypeOK, Locals
  <2>2. CASE at[p].pc \in {"ack", "ack receipt", "ack flow"} /\
             \E retry \in BOOLEAN :
               Become(p, [at[p] EXCEPT !.pc = "fail", !.done = clock, !.retry = retry])
    <3>1. PICK retry \in BOOLEAN :
            at' = [at EXCEPT ![p] = [at[p] EXCEPT !.pc = "fail", !.done = clock,
                                                  !.retry = retry]]
      BY <2>2 DEF Become
    <3>2. at'[p].pc = "fail"
      BY <3>1 DEF TypeOK, Locals
    <3>3. QED
      BY <2>2, <3>2, <1>2
  <2>3. QED
    BY <2>1, <2>2 DEF Throws

LEMMA EnvironmentInvs ==
  ASSUME TypeOK, TypeOK', BridgeInv, Settled, Environment
  PROVE  BridgeInv'
<1>1. CASE \E e \in Dispatch : Create(e)
  <2> PICK e \in Dispatch : Create(e)
    BY <1>1
  <2>1. ASSUME NEW d \in Dispatch, dispatch'[d] # dispatch[d]
        PROVE  /\ \A p \in Process : ~Works(p, d)
               /\ Counted(dispatch'[d], begun[d])
    <3>1. /\ dispatch[d].status = "absent"
          /\ dispatch'[d] = [NoDispatch EXCEPT !.status = "queued"]
      BY <2>1 DEF Create, Write, TypeOK
    <3>2. dispatch'[d].status = "queued" /\ dispatch'[d].attempt = 0
      BY <3>1 DEF NoDispatch
    <3>3. Counted(dispatch'[d], begun[d])
      BY <3>1, <3>2, BridgeAssumption DEF BridgeInv, Counted
    <3>4. QED
      BY <3>1, <3>3, Nobody
  <2>2. QED
    BY <2>1, RowsMove DEF Create
<1>2. CASE \E e \in Dispatch : Register(e)
  <2>1. UNCHANGED <<at, clock, begun, dispatch>>
    BY <1>2 DEF Register
  <2>2. QED
    BY <2>1, RowsMove
<1>3. CASE CancelDispatches
  <2>1. ASSUME NEW d \in Dispatch, dispatch'[d] # dispatch[d]
        PROVE  /\ \A p \in Process : ~Works(p, d)
               /\ Counted(dispatch'[d], begun[d])
    <3>1. /\ dispatch[d].status = "queued"
          /\ dispatch'[d] = [dispatch[d] EXCEPT !.status = "cancelled"]
          /\ dispatch[d] \in DispatchRow
      BY <1>3, <2>1 DEF CancelDispatches, TypeOK
    <3>2. dispatch'[d].status = "cancelled" /\ dispatch'[d].attempt = dispatch[d].attempt
      BY <3>1 DEF DispatchRow
    <3>3. QED
      BY <3>1, <3>2, Nobody DEF BridgeInv, Counted
  <2>2. QED
    BY <1>3, <2>1, RowsMove DEF CancelDispatches
<1>4. CASE \E p \in Drain : Throws(p)
  BY <1>4, ThrowInvs
<1>5. CASE \E p \in Process : Crash(p)
  BY <1>5, IdleTyped, LetsGo DEF Crash, Stop, Become
<1>6. QED
  BY <1>1, <1>2, <1>3, <1>4, <1>5 DEF Environment

(* Time does not pass while a drain's agent has run for as long as it may. *)
LEMMA TimeInvs ==
  ASSUME TypeOK, BridgeInv, TimePasses
  PROVE  BridgeInv'
<1> clock \in Nat
  BY DEF TypeOK
<1>1. Exclusive'
  BY DEF TimePasses, BridgeInv, Exclusive, Works
<1>2. ASSUME NEW p \in Drain PROVE DrainAgrees(at[p], dispatch[at[p].d])'
  <2>1. DrainAgrees(at[p], dispatch[at[p].d]) /\ at[p].d \in Dispatch /\ at[p].since \in Nat
    BY DEF BridgeInv, TypeOK, Locals, Process
  <2>2. at[p].pc \in Held => Runs(p, at[p].d)
    BY DEF Runs, Held
  <2>3. at[p].pc \in Held => clock + 1 <= at[p].since + RunLimit
    BY <2>1, <2>2, BridgeAssumption DEF TimePasses, WithinLimit
  <2>4. QED
    BY <2>1, <2>3 DEF DrainAgrees, TimePasses
<1>3. ASSUME NEW q \in Reconciler PROVE ReconcilerAgrees(at[q], dispatch[at[q].d])'
  BY DEF TimePasses, BridgeInv, ReconcilerAgrees
<1>4. ASSUME NEW d \in Dispatch PROVE Counted(dispatch[d], begun[d])'
  BY DEF TimePasses, BridgeInv, Counted
<1>5. QED
  BY <1>1, <1>2, <1>3, <1>4 DEF BridgeInv

LEMMA InitInv == Init => BridgeInv
<1> SUFFICES ASSUME Init PROVE BridgeInv
  OBVIOUS
<1>1. \A p \in Process : at[p] = Idle
  BY DEF Init
<1>2. \A p \in Process : at[p].pc = "idle"
  BY <1>1, IdleTyped
<1>3. Exclusive
  BY <1>2 DEF Exclusive, Works, Working, Held
<1>4. ASSUME NEW p \in Drain PROVE DrainAgrees(at[p], dispatch[at[p].d])
  BY <1>2 DEF DrainAgrees, DrainPc, Process, Held
<1>5. ASSUME NEW q \in Reconciler PROVE ReconcilerAgrees(at[q], dispatch[at[q].d])
  BY <1>2 DEF ReconcilerAgrees, ReconcilerPc, Process
<1>6. ASSUME NEW d \in Dispatch PROVE Counted(dispatch[d], begun[d])
  BY BridgeAssumption DEF Init, Counted, NoDispatch
<1>7. QED
  BY <1>3, <1>4, <1>5, <1>6 DEF BridgeInv

LEMMA NextInv ==
  ASSUME Settled
  PROVE  TypeOK /\ BridgeInv /\ [Next]_vars => TypeOK' /\ BridgeInv'
<1> SUFFICES ASSUME TypeOK, BridgeInv, [Next]_vars PROVE TypeOK' /\ BridgeInv'
  OBVIOUS
<1>0. TypeOK'
  BY NextTypes
<1>1. CASE HandlerStep
  BY <1>0, <1>1, DrainInvs, ReconcilerInvs DEF HandlerStep
<1>2. CASE Environment
  BY <1>0, <1>2, EnvironmentInvs
<1>3. CASE TimePasses
  BY <1>0, <1>3, TimeInvs
<1>4. CASE UNCHANGED vars
  <2>1. UNCHANGED <<at, clock, begun, dispatch>>
    BY <1>4 DEF vars
  <2>2. QED
    BY <1>0, <2>1, RowsMove
<1>5. QED
  BY <1>0, <1>1, <1>2, <1>3, <1>4 DEF Next

LEMMA InvHolds ==
  ASSUME Settled
  PROVE  Spec => [](TypeOK /\ BridgeInv)
<1>1. Init => TypeOK /\ BridgeInv
  BY InitTypes, InitInv
<1>2. TypeOK /\ BridgeInv /\ [Next]_vars => (TypeOK /\ BridgeInv)'
  BY NextInv
<1>3. QED
  BY <1>1, <1>2, PTL DEF Spec

LEMMA RunsWorks ==
  ASSUME NEW p \in Drain, NEW d \in Dispatch, Runs(p, d)
  PROVE  Works(p, d)
  BY DEF Runs, Works, Working, Held

(* At no time do two drains hold one dispatch: the claim's conditions and  *)
(* the stale window suffice (claimQueuedDispatch, staleDispatchReconcile). *)
THEOREM OneLiveRunHolds ==
  ASSUME Settled
  PROVE  Spec => []OneLiveRun
<1>1. TypeOK /\ BridgeInv => OneLiveRun
  BY RunsWorks DEF BridgeInv, Exclusive, OneLiveRun, Process
<1>2. QED
  BY <1>1, InvHolds, PTL

(* A cancelled dispatch is in no drain's hands: the claim that comes after *)
(* the button fails, and none that came before is cancelled                *)
(* (claimQueuedDispatch, the terminate button's UPDATE).                   *)
THEOREM CancelledNotRunHolds ==
  ASSUME Settled
  PROVE  Spec => []CancelledNotRun
<1>1. TypeOK /\ BridgeInv => CancelledNotRun
  BY RunsWorks, AtWork DEF CancelledNotRun, Process
<1>2. QED
  BY <1>1, InvHolds, PTL

(* No agent is run more than max_attempts times for a dispatch: every run  *)
(* is counted in the row before it starts, and a dispatch is queued again  *)
(* only below the limit (updateDispatch, dispatchRetryDecision).           *)
THEOREM RunsWithinBudgetHolds ==
  ASSUME Settled
  PROVE  Spec => []RunsWithinBudget
<1>1. TypeOK /\ BridgeInv => RunsWithinBudget
  BY DEF BridgeInv, Counted, RunsWithinBudget
<1>2. QED
  BY <1>1, InvHolds, PTL

(* Who writes a dispatch, and where that process is.                       *)
LEMMA Writers ==
  ASSUME TypeOK, HandlerStep, NEW d \in Dispatch, dispatch'[d] # dispatch[d]
  PROVE  \/ \E p \in Drain :
              /\ at[p].d = d
              /\ \/ BridgeError(p) \/ Reject(p) \/ Fail(p) \/ Start(p)
                 \/ Claim(p) /\ dispatch[d].status = "queued"
                 \/ dispatch'[d].status = "acked"
         \/ \E q \in Reconciler : at[q].d = d /\ at[q].pc \in {"sync", "requeue"}
<1>1. ASSUME NEW e \in Dispatch, NEW row, Write(e, row), e # d
      PROVE  dispatch'[d] = dispatch[d]
  BY <1>1 DEF Write
<1>2. CASE \E p \in Drain : DrainStep(p)
  <2> PICK p \in Drain : DrainStep(p)
    BY <1>2
  <2>1. at[p].d \in Dispatch
    BY DEF TypeOK, Locals, Process
  <2>2. CASE Reject(p) \/ Fail(p) \/ Start(p) \/ BridgeError(p)
    BY <1>1, <2>1, <2>2 DEF Reject, Fail, Start, BridgeError
  <2>3. CASE Claim(p)
    BY <1>1, <2>1, <2>3 DEF Claim, MayClaim
  <2>4. CASE Ack(p)
    <3>1. at[p].d = d
      BY <1>1, <2>1, <2>4 DEF Ack
    <3>2. dispatch'[d] = Acked(dispatch[d], at[p].attempt) /\ dispatch[d] \in DispatchRow
      BY <2>4, <3>1 DEF Ack, Write, TypeOK
    <3>3. QED
      BY <3>1, <3>2 DEF Acked, DispatchRow
  <2>5. QED
    BY <2>2, <2>3, <2>4
       DEF DrainStep, SelectDispatch, Unavailable, RunEnds, AckReceipt, FailReceipt, FinishDrain
<1>3. CASE \E q \in Reconciler : ReconcileStep(q)
  <2> PICK q \in Reconciler : ReconcileStep(q)
    BY <1>3
  <2>1. at[q].d \in Dispatch
    BY DEF TypeOK, Locals, Process
  <2>2. QED
    BY <1>1, <2>1 DEF ReconcileStep, Scan, Sync, Requeue, StaleReceipt, At
<1>4. QED
  BY <1>2, <1>3 DEF HandlerStep

LEMMA AckOverwritten ==
  ASSUME TypeOK, BridgeInv, [Next]_vars, NEW d \in Dispatch,
         dispatch[d].status = "acked", dispatch'[d].status # "acked"
  PROVE  \E p \in Drain :
            /\ at[p].d = d
            /\ \/ OwnFailure(p, d)
               \/ (BridgeError(p) \/ Reject(p)) /\ dispatch'[d].status = "failed"
<1> dispatch[d] \in DispatchRow /\ dispatch'[d] # dispatch[d]
  BY DEF TypeOK
<1>1. HandlerStep
  <2>1. ASSUME NEW e \in Dispatch, Create(e) PROVE FALSE
    BY <2>1 DEF Create, Write, TypeOK
  <2>2. dispatch' # dispatch
    OBVIOUS
  <2>3. ~CancelDispatches
    BY DEF CancelDispatches, TypeOK
  <2>4. ~Environment
    BY <2>1, <2>2, <2>3 DEF Environment, Register, Throws, Crash
  <2>5. QED
    BY <2>2, <2>4 DEF Next, TimePasses, vars
<1>2. CASE \E q \in Reconciler : at[q].d = d /\ at[q].pc \in {"sync", "requeue"}
  BY <1>2 DEF BridgeInv, ReconcilerAgrees
<1>3. ASSUME NEW p \in Drain, at[p].d = d,
             BridgeError(p) \/ Reject(p) \/ Fail(p) \/ Start(p)
      PROVE  \/ OwnFailure(p, d)
             \/ (BridgeError(p) \/ Reject(p)) /\ dispatch'[d].status = "failed"
  <2>1. DrainAgrees(at[p], dispatch[d])
    BY <1>3 DEF BridgeInv
  <2>2. CASE BridgeError(p) \/ Reject(p)
    <3>1. dispatch'[d] = Failed(dispatch[d], dispatch[d].attempt)
      BY <1>3, <2>2 DEF BridgeError, Reject, Write, TypeOK
    <3>2. QED
      BY <2>2, <3>1 DEF Failed, DispatchRow
  <2>3. CASE Fail(p)
    BY <2>1, <2>3 DEF Fail, At, DrainAgrees, Held, OwnFailure
  <2>4. CASE Start(p)
    BY <2>1, <2>4 DEF Start, At, DrainAgrees, Held
  <2>5. QED
    BY <1>3, <2>2, <2>3, <2>4
<1>4. QED
  BY <1>1, <1>2, <1>3, Writers

(* An acknowledgement gives way to a failure of its own drain's calls, or  *)
(* to a drain that fails the dispatch without looking, and to nothing      *)
(* else: no claim, reconciliation or late end of another run finds an      *)
(* acknowledged row in its hands (updateDispatch, staleDispatchReconcile). *)
THEOREM AckOutlivesOldHoldersHolds ==
  ASSUME Settled
  PROVE  Spec => AckOutlivesOldHolders
<1>1. TypeOK /\ BridgeInv /\ [Next]_vars
        => [\A d \in Dispatch :
              dispatch[d].status = "acked" /\ dispatch'[d].status # "acked"
              => \E p \in Drain :
                    /\ at[p].d = d
                    /\ \/ OwnFailure(p, d)
                       \/ (BridgeError(p) \/ Reject(p)) /\ dispatch'[d].status = "failed"]_vars
  BY AckOverwritten
<1>2. QED
  BY <1>1, InvHolds, PTL DEF AckOutlivesOldHolders, Spec
=============================================================================
