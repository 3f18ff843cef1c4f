--------------------------- MODULE ControlLoopProofs ---------------------------
(***************************************************************************)
(* Theorems about whole ticks of the control loop, with the file lease     *)
(* around them, for any number of processes, rows and operators: what is   *)
(* proved of the queue alone holds of it, and the file and the processes   *)
(* around it stay well typed.                                              *)
(***************************************************************************)
EXTENDS ControlLoop, LeasedTasksProofs

LEMMA LoopMoves ==
  ASSUME [LoopNext]_loopVars
  PROVE  Moves
<1>1. ASSUME NEW p \in Proc, LeaseStep(p) PROVE UNCHANGED vars
  <2>1. UNCHANGED <<clock, crashes>>
    BY <1>1 DEF LeaseStep, Lease!Step, Lease!ReadLease, Lease!MakeLock, Lease!Recheck,
       Lease!RemoveStaleLock, Lease!MakeLockAgain, Lease!OpenLease, Lease!WriteLease,
       Lease!EndTick, Lease!CheckLease, Lease!OpenIdleLease, Lease!WriteIdleLease,
       Lease!Unlock
  <2> QED
    BY <1>1, <2>1 DEF LeaseStep, queueVars, vars, procVars, boundVars
<1>2. ASSUME NEW p \in Proc, QueueStep(p) PROVE Next
  BY <1>2 DEF QueueStep, Next
<1>3. ASSUME NEW p \in Proc, Killed(p) PROVE Dies(p)
  BY <1>3 DEF Killed, Lease!Crash, Dies
<1>4. ASSUME NEW p \in Proc, TickThrows(p) PROVE Next
  BY <1>4 DEF TickThrows, Next
<1>5. CASE LoopWaits
  <2>1. CASE QuietTime
    BY <2>1 DEF QuietTime, Next, Moves
  <2>2. CASE Lease!TimePasses /\ UNCHANGED queueVars
    <3>1. TimePasses
      BY <2>2 DEF Lease!TimePasses, TimePasses, queueVars, procVars, boundVars
    <3> QED
      BY <3>1 DEF Next, Moves
  <2> QED
    BY <1>5, <2>1, <2>2 DEF LoopWaits
<1>6. CASE UNCHANGED loopVars
  BY <1>6 DEF loopVars, Moves
<1> QED
  BY <1>1, <1>2, <1>3, <1>4, <1>5, <1>6 DEF LoopNext, LoopStep, Moves

-----------------------------------------------------------------------------
(* The file lease, the lock directory and the processes around a tick.     *)
Gates == {"idle", "mkdir", "recheck", "rmdir", "mkdir again", "write", "fill",
          "tick", "check", "write idle", "fill idle", "unlock"}

LeaseVarsTyped ==
    /\ file \in Lease!LeaseType
    /\ text \in {"json", "empty", "torn"}
    /\ lock \in BOOLEAN
    /\ gate \in [Proc -> Gates]
    /\ asked \in [Proc -> Nat]
    /\ held \in [Proc -> Lease!LeaseType]

LEMMA NoLeaseTyped == Lease!NoLease \in Lease!LeaseType
  BY DEF Lease!NoLease, Lease!LeaseType

LEMMA StopTyped ==
  ASSUME LeaseVarsTyped, NEW p \in Proc, Lease!Stop(p)
  PROVE  /\ gate' \in [Proc -> Gates]
         /\ asked' \in [Proc -> Nat]
         /\ held' \in [Proc -> Lease!LeaseType]
  BY NoLeaseTyped DEF LeaseVarsTyped, Gates, Lease!Stop, Lease!Goto

LEMMA WrittenTyped ==
  ASSUME LeaseVarsTyped, clock \in Nat, NEW p \in Proc
  PROVE  /\ [acquiredAt |-> clock, lockedUntil |-> asked[p] + TickLeaseLen] \in Lease!LeaseType
         /\ [held[p] EXCEPT !.lockedUntil = clock] \in Lease!LeaseType
<1>1. asked[p] + TickLeaseLen \in Nat
  BY LoopAssumption DEF LeaseVarsTyped
<1> QED
  BY <1>1 DEF LeaseVarsTyped, Lease!LeaseType

LEMMA LeaseStepTyped ==
  ASSUME LeaseVarsTyped, clock \in Nat, NEW p \in Proc, Lease!Step(p)
  PROVE  LeaseVarsTyped'
<1>1. CASE Lease!ReadLease(p)
  BY <1>1 DEF LeaseVarsTyped, Gates, Lease!ReadLease, Lease!Goto
<1>2. CASE Lease!MakeLock(p)
  BY <1>2 DEF LeaseVarsTyped, Gates, Lease!MakeLock, Lease!Goto
<1>3. CASE Lease!Recheck(p)
  BY <1>3, StopTyped DEF LeaseVarsTyped, Gates, Lease!Recheck, Lease!Goto
<1>4. CASE Lease!RemoveStaleLock(p)
  BY <1>4 DEF LeaseVarsTyped, Gates, Lease!RemoveStaleLock, Lease!Goto
<1>5. CASE Lease!MakeLockAgain(p)
  BY <1>5, StopTyped DEF LeaseVarsTyped, Gates, Lease!MakeLockAgain, Lease!Goto
<1>6. CASE Lease!OpenLease(p)
  BY <1>6, NoLeaseTyped, WrittenTyped
     DEF LeaseVarsTyped, Gates, Lease!OpenLease, Lease!OpenFile, Lease!Goto
<1>7. CASE Lease!WriteLease(p)
  BY <1>7, NoLeaseTyped
     DEF LeaseVarsTyped, Gates, Lease!WriteLease, Lease!FillFile, Lease!Goto
<1>8. CASE Lease!EndTick(p)
  BY <1>8 DEF LeaseVarsTyped, Gates, Lease!EndTick, Lease!Goto
<1>9. CASE Lease!CheckLease(p)
  BY <1>9, StopTyped DEF LeaseVarsTyped, Gates, Lease!CheckLease, Lease!Goto
<1>10. CASE Lease!OpenIdleLease(p)
  BY <1>10, NoLeaseTyped, WrittenTyped
     DEF LeaseVarsTyped, Gates, Lease!OpenIdleLease, Lease!OpenFile, Lease!Goto
<1>11. CASE Lease!WriteIdleLease(p)
  BY <1>11, NoLeaseTyped
     DEF LeaseVarsTyped, Gates, Lease!WriteIdleLease, Lease!FillFile, Lease!Goto
<1>12. CASE Lease!Unlock(p)
  BY <1>12, StopTyped DEF LeaseVarsTyped, Lease!Unlock
<1> QED
  BY <1>1, <1>2, <1>3, <1>4, <1>5, <1>6, <1>7, <1>8, <1>9, <1>10, <1>11, <1>12
     DEF Lease!Step

LEMMA LeaseVarsStep ==
  ASSUME LeaseVarsTyped, clock \in Nat, [LoopNext]_loopVars
  PROVE  LeaseVarsTyped'
<1>0. UNCHANGED leaseVars => LeaseVarsTyped'
  BY DEF leaseVars, LeaseVarsTyped
<1>1. ASSUME NEW p \in Proc, Lease!Step(p) PROVE LeaseVarsTyped'
  BY <1>1, LeaseStepTyped
<1>2. ASSUME NEW p \in Proc, QueueStep(p) PROVE LeaseVarsTyped'
  BY <1>0, <1>1, <1>2 DEF QueueStep, Lease!Step
<1>3. ASSUME NEW p \in Proc, Killed(p) PROVE LeaseVarsTyped'
  <2>1. Lease!Stop(p) /\ UNCHANGED <<file, text, lock>>
    BY <1>3 DEF Killed, Lease!Crash
  <2> QED
    BY <2>1, StopTyped DEF LeaseVarsTyped
<1>4. ASSUME NEW p \in Proc, TickThrows(p) PROVE LeaseVarsTyped'
  BY <1>4 DEF TickThrows, Lease!Goto, LeaseVarsTyped, Gates
<1>5. CASE LoopWaits \/ UNCHANGED loopVars
  <2>1. UNCHANGED leaseVars
    BY <1>5 DEF LoopWaits, Lease!TimePasses, leaseVars, loopVars
  <2> QED
    BY <1>0, <2>1
<1> QED
  BY <1>1, <1>2, <1>3, <1>4, <1>5 DEF LoopNext, LoopStep, LeaseStep

LoopInv == QueueInv /\ LeaseVarsTyped

LEMMA LoopInvariance == LoopInit /\ [][LoopNext]_loopVars => []LoopInv
<1>1. ASSUME LoopInit PROVE LoopInv
  <2>1. QueueInv
    BY <1>1, InvInit DEF LoopInit
  <2>2. LeaseVarsTyped
    BY <1>1, NoLeaseTyped DEF LoopInit, Lease!Init, LeaseVarsTyped, Gates
  <2> QED
    BY <2>1, <2>2 DEF LoopInv
<1>2. ASSUME LoopInv, [LoopNext]_loopVars PROVE LoopInv'
  <2>1. QueueInv'
    BY <1>2, LoopMoves, InvStep DEF LoopInv
  <2>2. clock \in Nat
    BY <1>2 DEF LoopInv, QueueInv, TypeOK
  <2>3. LeaseVarsTyped'
    BY <1>2, <2>2, LeaseVarsStep DEF LoopInv
  <2> QED
    BY <2>1, <2>3 DEF LoopInv
<1> QED
  BY <1>1, <1>2, PTL

(* Every reachable state of the loop is well typed: the file holds a lease *)
(* or its idle remains whenever it parses, whoever dies between reading,   *)
(* emptying and writing it.                                                *)
THEOREM LoopTypeCorrect == LoopFairSpec => []LoopTypeOK
<1>1. LoopInv => LoopTypeOK
  BY DEF LoopInv, QueueInv, LeaseVarsTyped, LoopTypeOK, TypeOK, Lease!TypeOK, Gates
<1> QED
  BY <1>1, LoopInvariance, PTL DEF LoopFairSpec

(* The invariant of the queue is the loop's: with the file lease around    *)
(* its ticks, killed with or without a job in its hands and letting two of *)
(* them overlap, the job leases still exclude a second execution, a key    *)
(* has one active row and a row fails with its attempts used up.           *)
THEOREM LoopKeepsQueue == LoopFairSpec => [](LeaseExclusion /\ RetryBudget /\ UniqueActive)
<1>1. LoopInv => LeaseExclusion /\ RetryBudget /\ UniqueActive
  BY DEF LoopInv, QueueInv
<1> QED
  BY <1>1, LoopInvariance, PTL DEF LoopFairSpec

(* The loop as a whole implements the leased tasks that the queue alone    *)
(* implements.                                                             *)
THEOREM LoopImplements == LoopFairSpec => ImplementsLeasedTasks
<1>1. LoopInit => Tasks!Init
  BY MapsInit DEF LoopInit
<1>2. LoopInv /\ [LoopNext]_loopVars => [Tasks!Next]_(Tasks!vars)
  BY LoopMoves, MapsStep DEF LoopInv
<1> QED
  BY <1>1, <1>2, LoopInvariance, PTL DEF LoopFairSpec, ImplementsLeasedTasks, Tasks!Spec
=============================================================================
