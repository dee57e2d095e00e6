------------------------------ MODULE JobLedger ------------------------------
(***************************************************************************)
(* What bulk verification promises about each job, in v0 and in v1, told   *)
(* without queues, tasks and rows: a job that was created runs until it is *)
(* complete and stays complete, so that a client that was told so finds    *)
(* the results, until they are deleted, and only then may the job itself   *)
(* be deleted.  None of it is ever undone.                                 *)
(***************************************************************************)
CONSTANT Jobs

VARIABLE status

States == {"new", "running", "complete", "emptied", "pruned"}

Init == status = [j \in Jobs |-> "new"]

\* A job of no emails is complete at once.
Create(j) ==
  /\ status[j] = "new"
  /\ \E s \in {"running", "complete"} : status' = [status EXCEPT ![j] = s]

Finish(j) ==
  /\ status[j] = "running"
  /\ status' = [status EXCEPT ![j] = "complete"]

\* The results of any number of complete jobs are deleted at once, a second
\* time if a late task has added one ...
Empty(old) ==
  /\ \A j \in old : status[j] \in {"complete", "emptied"}
  /\ status' = [j \in Jobs |-> IF j \in old THEN "emptied" ELSE status[j]]

\* ... and the jobs whose results were deleted.
Remove(old) ==
  /\ \A j \in old : status[j] = "emptied"
  /\ status' = [j \in Jobs |-> IF j \in old THEN "pruned" ELSE status[j]]

Next ==
  \/ \E j \in Jobs : Create(j) \/ Finish(j)
  \/ \E old \in SUBSET Jobs : Empty(old) \/ Remove(old)

Spec == Init /\ [][Next]_status
=============================================================================
