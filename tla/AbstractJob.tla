----------------------------- MODULE AbstractJob -----------------------------
(***************************************************************************)
(* What a job promises its user, with the tracker's threads, ledger and   *)
(* minions abstracted away (spec sections 2 and 3): the job state moves   *)
(* along Pending -> Running -> {Completed, Failed, Killed}, tasks become  *)
(* Done one at a time and stay Done, a reduce task is Done only after     *)
(* every map task, and the job is Completed only when every task is Done. *)
(*                                                                         *)
(* JobTracker implements this specification under the refinement mapping  *)
(* state <- state_ and done <- the Done tasks of the two pools.            *)
(***************************************************************************)
EXTENDS Naturals

CONSTANTS MapTotal, ReduceTotal

VARIABLES
    state,  \* the job state the master reports
    done    \* done[p]: the task numbers of phase p that are Done

vars == <<state, done>>

Pending   == "JobPending"
Running   == "JobRunning"
Completed == "JobCompleted"
Failed    == "JobFailed"
Killed    == "JobKilled"
Ended     == {Completed, Failed, Killed}

Tasks == [map |-> 0 .. MapTotal - 1, reduce |-> 0 .. ReduceTotal - 1]

AllDone(p) == done[p] = Tasks[p]

Init ==
    /\ state = Pending
    /\ done = [p \in {"map", "reduce"} |-> {}]

\* The first hand-out starts the job.
Begin ==
    /\ state = Pending
    /\ state' = Running
    /\ UNCHANGED done

\* One task is completed.  A reduce task needs every map task Done.  A
\* report already accepted when the job ended may still complete its task.
Complete(p, no) ==
    /\ state # Pending
    /\ no \in Tasks[p] \ done[p]
    /\ p = "reduce" => AllDone("map")
    /\ done' = [done EXCEPT ![p] = @ \cup {no}]
    /\ UNCHANGED state

\* The last task is Done: the job is Completed.
Finish ==
    /\ state = Running
    /\ AllDone("map") /\ AllDone("reduce")
    /\ state' = Completed
    /\ UNCHANGED done

\* Retries exhausted or a deployment failed.
Fail ==
    /\ state = Running
    /\ state' = Failed
    /\ UNCHANGED done

\* The user kills a job that has not ended.
Kill ==
    /\ state \in {Pending, Running}
    /\ state' = Killed
    /\ UNCHANGED done

Next ==
    \/ Begin \/ Finish \/ Fail \/ Kill
    \/ \E p \in {"map", "reduce"} : \E no \in Tasks[p] : Complete(p, no)

Spec == Init /\ [][Next]_vars

=============================================================================
