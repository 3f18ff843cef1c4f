--------------------------- MODULE JobQueueTasks ---------------------------
(***************************************************************************)
(* The queue of the control loop is a queue of leased tasks: its rows, as  *)
(* anyone who looks at the table sees them, change only as LeasedTasks     *)
(* says, although its handlers select before they update, compare leases   *)
(* with an instant that has passed, and settle with an attempt they        *)
(* remember.                                                               *)
(***************************************************************************)
EXTENDS JobQueue

Phase(status) ==
    CASE status \in Claimable -> "waiting"
      [] status = "running" -> "held"
      [] OTHER -> status

(* A cancelled row keeps its lease columns; they mean nothing any more.    *)
TaskOf(r) ==
    [phase |-> Phase(r.status),
     holder |-> IF r.status = "running" THEN r.owner ELSE NoProc,
     until |-> IF r.status = "running" THEN r.until ELSE 0,
     tries |-> r.attempt]

Tasks == INSTANCE LeasedTasks WITH
    Task <- Job, Worker <- Proc, Nobody <- NoProc, Key <- KeyOf,
    MaxTries <- MaxAttempts,
    now <- clock, task <- [j \in Job |-> TaskOf(row[j])]

(* Every behaviour of the queue is, row by row, one of leased tasks:       *)
(* claims by two ticks, late completions, failures, requeues by operators, *)
(* human gate cancellations and retention included.                        *)
ImplementsLeasedTasks == Tasks!Spec
=============================================================================
