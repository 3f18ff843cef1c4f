----------------------------- MODULE ControlLoop -----------------------------
(***************************************************************************)
(* workflowControlLoopTick as a whole: a process acquires the file lease   *)
(* (TickLease), runs one tick over the queue (JobQueue), and releases the  *)
(* lease in the finally block.  A process that is killed leaves both the   *)
(* lease and the row it was running.                                       *)
(***************************************************************************)
EXTENDS JobQueue

CONSTANTS TickLeaseLen    \* leaseMs of the file lease

ASSUME LoopAssumption == TickLeaseLen \in Nat \ {0}

VARIABLES
    file, text,  \* control-loop-lease.json, and whether it parses
    lock,        \* whether control-loop.lock exists
    gate,        \* where each process is around its tick
    asked,       \* "now" of the acquisition in progress
    held         \* the lease it holds

Lease == INSTANCE TickLease
    WITH pc <- gate, now <- asked, lease <- held, LeaseLen <- TickLeaseLen

queueVars == <<row, procVars, op, requeues>>
leaseVars == <<file, text, lock, gate, asked, held>>
loopVars == <<vars, leaseVars>>

LoopInit == Init /\ Lease!Init

LoopTypeOK == TypeOK /\ Lease!TypeOK

(* Acquire, and release after the tick.                                    *)
LeaseStep(p) ==
    /\ gate[p] # "tick"
    /\ Lease!Step(p)
    /\ UNCHANGED queueVars

(* The body of the tick; its end, with a result or a throw, is followed by *)
(* the release.                                                            *)
QueueStep(p) ==
    /\ gate[p] = "tick"
    /\ TickStep(p)
    /\ IF pc'[p] = "idle" THEN Lease!EndTick(p) ELSE UNCHANGED leaseVars

LoopStep(p) == LeaseStep(p) \/ QueueStep(p)

Killed(p) ==             \* the timer kills the worker process
    /\ Lease!Crash(p)
    /\ EndTick(p)
    /\ UNCHANGED <<row, op, requeues>>

(* A statement outside the try block around the job throws: the tick ends  *)
(* as failed, and releases the lease.                                      *)
TickThrows(p) ==
    /\ gate[p] = "tick" /\ pc[p] \notin {"run", "complete"}
    /\ Crash(p)
    /\ Lease!Goto(p, "check")
    /\ UNCHANGED <<file, text, lock, asked, held>>

(* Time passes while the queue waits for a retry or for the end of a row's *)
(* lease, and while the file lease keeps every process out.                *)
LoopWaits ==
    \/ QuietTime /\ UNCHANGED leaseVars
    \/ Lease!LeaseBlocksAll /\ Lease!TimePasses /\ UNCHANGED queueVars

LoopNext ==
    \/ \E p \in Proc : LoopStep(p)
    \/ \E p \in Proc : Killed(p) \/ TickThrows(p)
    \/ LoopWaits

(* The gateways' timers keep calling, the operating system runs whom they  *)
(* called, and time passes.                                                *)
LoopFairSpec ==
    /\ LoopInit
    /\ [][LoopNext]_loopVars
    /\ \A p \in Proc : WF_loopVars(LoopStep(p))
    /\ SF_loopVars(LoopWaits)

-----------------------------------------------------------------------------
(* The loop never stays locked out by anything but an unreadable file:     *)
(* whatever lease and lock directory dead processes leave behind, and      *)
(* whoever removes whose directory, some later tick acquires the lease     *)
(* (acquireControlLoopLease).                                              *)
TicksGoOn == Lease!TicksGoOn

(* What JobsSettle says of the queue holds of the loop: every active row   *)
(* is settled, although ticks must first get the lease, are killed with a  *)
(* row in their hands and lose races, and attempts fail, unless the lease  *)
(* file stays unreadable.                                                  *)
LoopSettlesJobs == JobsSettle \/ Lease!LockedOut
=============================================================================
