---------------------------- MODULE WorkerReview ----------------------------
(***************************************************************************)
(* workflow.v2.manager_review.record: write the review, settle the worker  *)
(* under the condition that it still awaits review, patch its session run; *)
(* on any error put back the worker row read at the start and delete the   *)
(* review.  Each manager process records one review, of its own review id. *)
(***************************************************************************)
EXTENDS WorkerTables

StartReview(m, w) ==
    /\ At(m, "idle")
    /\ review[m] = "none"
    /\ worker[w].status = "submitted_for_review"
    /\ \E d \in Decision :
         Become(m, [Idle EXCEPT !.pc = "review insert", !.w = w,
                                !.raw = worker[w], !.decision = d])
    /\ UNCHANGED <<clock, tables, bounds>>

InsertReview(m) ==
    /\ At(m, "review insert")
    /\ review' = [review EXCEPT ![m] = at[m].decision]
    /\ Goto(m, "review worker")
    /\ UNCHANGED <<clock, plan, worker, session, job, bounds>>

ReviewWorker(m) ==
    /\ At(m, "review worker")
    /\ LET w == at[m].w IN
       IF worker[w].status = "submitted_for_review"
       THEN /\ worker' = [worker EXCEPT ![w] =
                            Unleased(worker[w], at[m].decision, 0)]
            /\ Goto(m, "review session")
       ELSE Goto(m, "review undo") /\ UNCHANGED worker
    /\ UNCHANGED <<clock, plan, session, job, review, bounds>>

ReviewSession(m) ==
    /\ At(m, "review session")
    /\ LET w == at[m].w IN
       \/ PatchSucceeds(w, "completed") /\ Stop(m)
       \/ PatchThrows(w, "completed") /\ Goto(m, "review undo")
    /\ UNCHANGED <<clock, plan, worker, job, review, crashes>>

ReviewUndo(m) ==
    /\ At(m, "review undo")
    /\ RestoreWorker(at[m].w, at[m].raw)
    /\ Goto(m, "review delete")
    /\ UNCHANGED <<clock, plan, session, job, review, bounds>>

ReviewDelete(m) ==
    /\ At(m, "review delete")
    /\ review' = [review EXCEPT ![m] = "none"]
    /\ Stop(m)
    /\ UNCHANGED <<clock, plan, worker, session, job, bounds>>

ReviewStep(m) ==
    \/ \E w \in Worker : StartReview(m, w)
    \/ InsertReview(m) \/ ReviewWorker(m) \/ ReviewSession(m)
    \/ ReviewUndo(m) \/ ReviewDelete(m)
=============================================================================
