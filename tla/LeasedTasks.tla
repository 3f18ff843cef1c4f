---------------------------- MODULE LeasedTasks ----------------------------
(***************************************************************************)
(* What a queue of leased tasks promises, as if every handler were one     *)
(* step: a task is taken by one worker at a time, for as long as its lease *)
(* lasts, ends once, and is tried a limited number of times.  Nothing is   *)
(* read here before the step that uses it, and no worker remembers         *)
(* anything.                                                               *)
(***************************************************************************)
EXTENDS Naturals

CONSTANTS
    Task,
    Worker,
    Nobody,      \* the holder of a task that is not held
    Key,         \* of each task; at most one open task for a key
    MaxTries,    \* after which a task is not tried again by itself
    LeaseLen     \* the longest a lease lasts from the moment it is taken

VARIABLES
    now,
    task         \* phase, holder, end of the lease, tries so far

vars == <<now, task>>

Unheld(phase, tries) ==
    [phase |-> phase, holder |-> Nobody, until |-> 0, tries |-> tries]

Is(t, phase) == task[t].phase = phase
Open(t) == Is(t, "waiting") \/ Is(t, "held")
Closed(t) == Is(t, "done") \/ Is(t, "failed") \/ Is(t, "cancelled")
Lapsed(t) == Is(t, "held") /\ task[t].until <= now
Alone(t) == \A other \in Task \ {t} : Key[other] = Key[t] => ~Open(other)

(* One task changes, to one of S.                                          *)
Becomes(t, S) ==
    /\ task'[t] \in S
    /\ task' = [task EXCEPT ![t] = task'[t]]
    /\ UNCHANGED now

Init ==
    /\ now = 1
    /\ task = [t \in Task |-> Unheld("absent", 0)]

Put(t) == Is(t, "absent") /\ Alone(t) /\ Becomes(t, {Unheld("waiting", 0)})

Take(t) ==
    /\ Is(t, "waiting") \/ Lapsed(t)
    /\ Becomes(t, [phase : {"held"}, holder : Worker, until : 0..(now + LeaseLen),
                   tries : {task[t].tries + 1}])

Finish(t) == Is(t, "held") /\ Becomes(t, {Unheld("done", task[t].tries)})

GiveUp(t) ==
    /\ Is(t, "held")
    /\ Becomes(t, {Unheld(IF task[t].tries < MaxTries THEN "waiting" ELSE "failed",
                          task[t].tries)})

Reopen(t) ==
    /\ Is(t, "failed") \/ Lapsed(t)
    /\ Alone(t)
    /\ Becomes(t, {Unheld("waiting", tries) : tries \in 0..MaxTries})

(* Some of the tasks in S end together.                                    *)
Some(S, phase) ==
    /\ UNCHANGED now
    /\ \A t \in Task :
         \/ task'[t] = task[t]
         \/ t \in S /\ task'[t] = Unheld(phase, task[t].tries)
    /\ task' = [t \in Task |-> task'[t]]

Cancel == Some({t \in Task : Open(t)}, "cancelled")

Forget == Some({t \in Task : Closed(t)}, "pruned")

TimePasses == now' = now + 1 /\ UNCHANGED task

Next ==
    \/ Cancel \/ Forget \/ TimePasses
    \/ \E t \in Task : Put(t) \/ Take(t) \/ Finish(t) \/ GiveUp(t) \/ Reopen(t)

Spec == Init /\ [][Next]_vars
=============================================================================
