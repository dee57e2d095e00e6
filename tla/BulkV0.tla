------------------------------- MODULE BulkV0 -------------------------------
(***************************************************************************)
(* The deprecated bulk verification, POST /v0/bulk:                        *)
(*   - http/v0/bulk/post.rs writes a job and submits a task per email;     *)
(*   - the tables and functions of backend/migrations are a message queue  *)
(*     inside Postgres (mq_insert, mq_poll, mq_keep_alive, mq_delete);     *)
(*   - every backend process polls it and runs email_verification_task     *)
(*     (http/v0/bulk/task.rs) for the messages it claims;                  *)
(*   - get.rs and results/mod.rs tell from the number of rows whether a    *)
(*     job is done, and bin/prune_db.rs deletes the jobs that are.         *)
(* The runner between the two, the sqlxmq crate, is external: it polls     *)
(* while it has fewer than MinTasks tasks, asks for at most MaxTasks, and  *)
(* keeps the messages of its tasks alive.                                  *)
(*                                                                         *)
(* A message that is polled is not taken out of its table: its attempt_at  *)
(* moves into the future, and the runner keeps moving it while it works.   *)
(* Where attempt_at lies is all the model keeps of time.                   *)
(***************************************************************************)
EXTENDS Integers, FiniteSets, FiniteSetsExt

CONSTANTS
  Runners,   \* backend processes with RCH_ENABLE_BULK=1
  Tasks, Jobs,
  JobOf,     \* the job of each task
  NoPorts,   \* the jobs submitted with an empty list of smtp_ports
  Attempts,  \* attempts of a new message, retries + 1
  MinTasks, MaxTasks,
  MaxFaults  \* bound on lapses, crashes and errors

ASSUME BulkV0Assumption ==
  /\ IsFiniteSet(Tasks)
  /\ JobOf \in [Tasks -> Jobs]
  /\ NoPorts \subseteq Jobs
  /\ Attempts \in Nat \ {0}
  /\ MinTasks \in Nat \ {0}
  /\ MaxTasks \in Nat /\ MinTasks <= MaxTasks
  /\ MaxFaults \in Nat

VARIABLES
  message,   \* attempt_at of the message of each task in mq_msgs
  attempts,  \* and the attempts it has left
  polling,   \* the messages selected by a runner's mq_poll, not yet updated
  work,      \* running executions of email_verification_task
  rows,      \* rows of email_results per task
  job,       \* the row of bulk_jobs, and how far its request got
  emptied,   \* jobs whose results were deleted by prune_db (observation)
  prune,     \* the run of prune_db
  faults

vars == <<message, attempts, polling, work, rows, job, emptied, prune, faults>>
queue == <<message, attempts, polling>>
admin == <<job, emptied, prune>>

TasksOf(j) == {t \in Tasks : JobOf[t] = j}
WorkOf(r)  == {e \in work : e.by = r}
WorkOn(t)  == {e \in work : e.task = t}
Due        == {t \in Tasks : message[t] = "due"}
Recorded   == {j \in Jobs : job[j] \notin {"none", "pruned"}}

\* The rows of a job; the i-th of task t is <<t, i>>.
RowsOf(j)  == UNION {{t} \X (1 .. rows[t]) : t \in TasksOf(j)}
JobRows(j) == Cardinality(RowsOf(j))

\* What GET /v0/bulk/{id} reports, and what GET .../results asks before it
\* serves any: as many rows as the job has emails.
Completed(j) == j \in Recorded /\ JobRows(j) >= Cardinality(TasksOf(j))

NotPruning == [at |-> "idle", jobs |-> {}]

Init ==
  /\ message = [t \in Tasks |-> "absent"]
  /\ attempts = [t \in Tasks |-> 0]
  /\ polling = [r \in Runners |-> {}]
  /\ work = {}
  /\ rows = [t \in Tasks |-> 0]
  /\ job = [j \in Jobs |-> "none"]
  /\ emptied = {}
  /\ prune = NotPruning
  /\ faults = 0

Fault == faults < MaxFaults /\ faults' = faults + 1

-----------------------------------------------------------------------------
(* POST /v0/bulk.                                                          *)

CreateJob(j) ==
  /\ job[j] = "none"
  /\ job' = [job EXCEPT ![j] = "submitting"]
  /\ UNCHANGED <<queue, work, rows, emptied, prune, faults>>

\* Bug: a message gets as many attempts as it has retries.
SubmitFewer(t) ==
  /\ job[JobOf[t]] = "submitting"
  /\ message[t] = "absent"
  /\ message' = [message EXCEPT ![t] = "due"]
  /\ attempts' = [attempts EXCEPT ![t] = Attempts - 1]
  /\ UNCHANGED <<polling, work, rows, admin, faults>>

\* submit_job: message and payload are inserted in one call, due at once.
SubmitTask(t) ==
  /\ job[JobOf[t]] = "submitting"
  /\ message[t] = "absent"
  /\ message' = [message EXCEPT ![t] = "due"]
  /\ attempts' = [attempts EXCEPT ![t] = Attempts]
  /\ UNCHANGED <<polling, work, rows, admin, faults>>

\* The first error ends the request, the tasks submitted so far stay.
SubmitFails(j) ==
  /\ job[j] = "submitting"
  /\ Fault
  /\ job' = [job EXCEPT ![j] = "failed"]
  /\ UNCHANGED <<queue, work, rows, emptied, prune>>

AcceptJob(j) ==
  /\ job[j] = "submitting"
  /\ \A t \in TasksOf(j) : message[t] # "absent"
  /\ job' = [job EXCEPT ![j] = "accepted"]
  /\ UNCHANGED <<queue, work, rows, emptied, prune, faults>>

-----------------------------------------------------------------------------
(* mq_poll: one UPDATE whose sub-select reads a snapshot.                  *)

\* A runner with room selects as many due messages as it may still take.
PollSelect(r) ==
  LET busy == Cardinality(WorkOf(r)) IN
  /\ polling[r] = {}
  /\ busy < MinTasks
  /\ Due # {}
  /\ \E batch \in kSubset(Min({Cardinality(Due), MaxTasks - busy}), Due) :
       polling' = [polling EXCEPT ![r] = batch]
  /\ UNCHANGED <<message, attempts, work, rows, admin, faults>>

\* The claimed messages are moved into the future, the last attempt to NULL.
Claim(r, claimed) ==
  /\ polling[r] # {}
  /\ polling' = [polling EXCEPT ![r] = {}]
  /\ message' = [t \in Tasks |->
       IF t \notin claimed THEN message[t]
       ELSE IF attempts[t] = 1 THEN "exhausted" ELSE "waiting"]
  /\ attempts' = [t \in Tasks |->
       IF t \in claimed THEN attempts[t] - 1 ELSE attempts[t]]
  /\ work' = work \cup
       {[by |-> r, task |-> t, attempt |-> attempts[t], phase |-> "checking"] :
          t \in claimed}
  /\ UNCHANGED <<rows, admin, faults>>

\* Bug: the mq_poll of the first migration, without the second look at attempt_at.
PollUpdateUnchecked(r) == Claim(r, {t \in polling[r] : message[t] # "deleted"})

\* The rows are locked and looked at again: another poll may have claimed
\* them since.
PollUpdate(r) == Claim(r, {t \in polling[r] : message[t] = "due"})

\* Nobody keeps the message alive any more, its attempt_at is reached.
TimeOut(t) ==
  /\ message[t] = "waiting"
  /\ WorkOn(t) = {}
  /\ message' = [message EXCEPT ![t] = "due"]
  /\ UNCHANGED <<attempts, polling, work, rows, admin, faults>>

\* It is reached although a runner works on the message: the runner stalls
\* or cannot reach the database in time.
Lapse(t) ==
  /\ message[t] = "waiting"
  /\ WorkOn(t) # {}
  /\ Fault
  /\ message' = [message EXCEPT ![t] = "due"]
  /\ UNCHANGED <<attempts, polling, work, rows, admin>>

\* Bug: a message without an attempt_at is given one.
KeepAliveRevives(t) ==
  /\ message[t] \in {"due", "exhausted"}
  /\ WorkOn(t) # {}
  /\ message' = [message EXCEPT ![t] = "waiting"]
  /\ UNCHANGED <<attempts, polling, work, rows, admin, faults>>

\* mq_keep_alive moves attempt_at into the future again, unless it is NULL.
KeepAlive(t) ==
  /\ message[t] = "due"
  /\ WorkOn(t) # {}
  /\ message' = [message EXCEPT ![t] = "waiting"]
  /\ UNCHANGED <<attempts, polling, work, rows, admin, faults>>

-----------------------------------------------------------------------------
(* email_verification_task.  The ports are tried in turn until a result is *)
(* not unknown; the last result is inserted, whatever it is.               *)

Checked(e) == e.phase = "checking" /\ JobOf[e.task] \notin NoPorts

\* The row references its job, which must still be there.
StoreResult(e) ==
  /\ Checked(e)
  /\ JobOf[e.task] \in Recorded
  /\ rows' = [rows EXCEPT ![e.task] = @ + 1]
  /\ work' = (work \ {e}) \cup {[e EXCEPT !.phase = "stored"]}
  /\ UNCHANGED <<queue, admin, faults>>

StoreRefused(e) ==
  /\ Checked(e)
  /\ JobOf[e.task] \notin Recorded
  /\ work' = work \ {e}
  /\ UNCHANGED <<queue, rows, admin, faults>>

\* Bug: the message is completed before the result is inserted.
CompleteFirst(e) ==
  /\ message' = [message EXCEPT ![e.task] = "deleted"]
  /\ work' = IF e.phase = "stored" THEN work \ {e} ELSE work
  /\ UNCHANGED <<attempts, polling, rows, admin, faults>>

\* complete() deletes the message.  Without a port to try there is no result
\* and nothing was inserted.
Complete(e) ==
  /\ e.phase = "stored" \/ JobOf[e.task] \in NoPorts
  /\ message' = [message EXCEPT ![e.task] = "deleted"]
  /\ work' = work \ {e}
  /\ UNCHANGED <<attempts, polling, rows, admin, faults>>

\* Bug: a task that fails takes the result back that it has inserted.
TaskTakesBack(e) ==
  /\ Fault
  /\ work' = work \ {e}
  /\ rows' = IF e.phase = "stored" /\ rows[e.task] > 0
             THEN [rows EXCEPT ![e.task] = @ - 1] ELSE rows
  /\ UNCHANGED <<queue, admin>>

\* The INSERT or complete() fails, or the task panics.  The message stays.
TaskFails(e) ==
  /\ Fault
  /\ work' = work \ {e}
  /\ UNCHANGED <<queue, rows, admin>>

\* The process is killed, before or after its poll was committed.
Crash(r) ==
  /\ Fault
  /\ work' = work \ WorkOf(r)
  /\ polling' = [polling EXCEPT ![r] = {}]
  /\ UNCHANGED <<message, attempts, rows, admin>>

-----------------------------------------------------------------------------
(* prune_db.  The transaction it opens is not the one its statements run in. *)

\* Bug: jobs with some results are taken for done.
PruneSelectStarted ==
  /\ prune.at = "idle"
  /\ \E old \in SUBSET {j \in Recorded : JobRows(j) > 0} :
       old # {} /\ prune' = [at |-> "selected", jobs |-> old]
  /\ UNCHANGED <<queue, work, rows, job, emptied, faults>>

\* The old jobs with exactly as many results as emails.
PruneSelect ==
  /\ prune.at = "idle"
  /\ \E old \in SUBSET {j \in Recorded : JobRows(j) = Cardinality(TasksOf(j))} :
       old # {} /\ prune' = [at |-> "selected", jobs |-> old]
  /\ UNCHANGED <<queue, work, rows, job, emptied, faults>>

DeleteResults ==
  /\ prune.at = "selected"
  /\ rows' = [t \in Tasks |-> IF JobOf[t] \in prune.jobs THEN 0 ELSE rows[t]]
  /\ emptied' = emptied \cup prune.jobs
  /\ prune' = [prune EXCEPT !.at = "emptied"]
  /\ UNCHANGED <<queue, work, job, faults>>

\* A result that was inserted in between still references its job, and the
\* DELETE fails.
DeleteJobs ==
  /\ prune.at = "emptied"
  /\ job' = IF \E j \in prune.jobs : JobRows(j) > 0 THEN job
            ELSE [j \in Jobs |-> IF j \in prune.jobs THEN "pruned" ELSE job[j]]
  /\ prune' = NotPruning
  /\ UNCHANGED <<queue, work, rows, emptied, faults>>

PruneDies ==
  /\ prune.at # "idle"
  /\ Fault
  /\ prune' = NotPruning
  /\ UNCHANGED <<queue, work, rows, job, emptied>>

-----------------------------------------------------------------------------

Prune == PruneSelect \/ DeleteResults \/ DeleteJobs \/ PruneDies

RunTask(e) == StoreResult(e) \/ StoreRefused(e) \/ Complete(e)

Next ==
  \/ \E j \in Jobs : CreateJob(j) \/ SubmitFails(j) \/ AcceptJob(j)
  \/ \E t \in Tasks : SubmitTask(t) \/ TimeOut(t) \/ Lapse(t) \/ KeepAlive(t)
  \/ \E r \in Runners : PollSelect(r) \/ PollUpdate(r) \/ Crash(r)
  \/ \E e \in work : RunTask(e) \/ TaskFails(e)
  \/ Prune

Spec == Init /\ [][Next]_vars

\* Requests are served, processes run and poll, time passes.  Nothing says that
\* an execution gets its result: task.rs passes no smtp_timeout, and the runner
\* keeps the message alive meanwhile.  Only what follows a result is fair.
Fairness ==
  /\ \A t \in Tasks : WF_vars(SubmitTask(t)) /\ WF_vars(TimeOut(t))
  /\ \A j \in Jobs : WF_vars(AcceptJob(j))
  /\ \A r \in Runners :
       /\ WF_vars(PollSelect(r))
       /\ WF_vars(PollUpdate(r))
       /\ WF_vars(\E e \in WorkOf(r) : Complete(e))

FairSpec == Spec /\ Fairness

-----------------------------------------------------------------------------
(* Properties.                                                             *)

Executions == [by : Runners, task : Tasks, attempt : 1 .. Attempts,
               phase : {"checking", "stored"}]

\* Type invariant.
TypeOK ==
  /\ message \in [Tasks -> {"absent", "waiting", "due", "exhausted", "deleted"}]
  /\ attempts \in [Tasks -> 0 .. Attempts]
  /\ polling \in [Runners -> SUBSET Tasks]
  /\ work \subseteq Executions
  /\ rows \in [Tasks -> Nat]
  /\ job \in [Jobs -> {"none", "submitting", "accepted", "failed", "pruned"}]
  /\ emptied \subseteq Jobs
  /\ prune \in [at : {"idle", "selected", "emptied"}, jobs : SUBSET Jobs]
  /\ faults \in 0 .. MaxFaults

\* 20220208120856_fix_concurrent_poll: two processes that poll at the same
\* time never claim the same attempt of a message, and one whose attempts are
\* used up is never claimed again, however long its last attempt lives on.
ClaimedOnce ==
  /\ \A e, f \in work : e.task = f.task /\ e.attempt = f.attempt => e = f
  /\ \A e \in work : attempts[e.task] < e.attempt
  /\ \A t \in Tasks : message[t] \in {"due", "waiting"} => attempts[t] > 0

\* A result is stored a second time only for a reason: each further row of
\* the same email costs a lapse, a crash or an error.
RowsBound == \A t \in Tasks : rows[t] <= 1 + faults

\* An email is given up without a result - its message has no attempt_at any
\* more and nobody works on it - only when each of its attempts was lost: the
\* last one counts as one, and no attempt ends without a lapse, a crash or an
\* error.
GivenUpForAReason ==
  \A t \in Tasks :
    message[t] = "exhausted" /\ WorkOn(t) = {} /\ rows[t] = 0
      => faults >= Attempts \/ JobOf[t] \in emptied

\* A message leaves the queue only once its result is stored, or its job was
\* pruned, however many processes work on it and whichever of them fail, unless
\* its job gave no port to try.
DeletedIsStored ==
  \A t \in Tasks : message[t] = "deleted" =>
    rows[t] > 0 \/ JobOf[t] \in emptied \cup NoPorts

\* task.rs: that there is no result to store "can never occur currently".
AlwaysAResult ==
  \A t \in Tasks : message[t] = "deleted" =>
    rows[t] > 0 \/ JobOf[t] \in emptied

\* Between the SELECT and the DELETE of prune_db other processes go on
\* storing results, yet it never deletes the results of a job that is
\* reported as running.
PruneSparesRunning ==
  [][\A j \in Jobs : JobRows(j) > 0 /\ JobRows(j)' = 0 => Completed(j)]_vars

\* v0 implements JobLedger.
JobStatus(j) ==
  IF job[j] = "none" THEN "new"
  ELSE IF job[j] = "pruned" THEN "pruned"
  ELSE IF j \in emptied THEN "emptied"
  ELSE IF Completed(j) THEN "complete"
  ELSE "running"

Ledger == INSTANCE JobLedger WITH status <- [j \in Jobs |-> JobStatus(j)]

\* A job that was reported as completed stays so until prune_db deletes its
\* results, whichever tasks run late or again, and no job is deleted before its
\* results were.
ImplementsJobLedger == Ledger!Spec

\* prune_db.rs: the results are deleted "in a batch within the transaction",
\* the jobs too.  A job never outlives its results.
PruneIsAtomic == \A j \in emptied : j \notin Recorded

\* results/mod.rs: "Throw an error if the job is still running."  When results
\* are served, none of the job's emails is still waiting for its first one.
ServedWhenDone ==
  \A j \in Jobs : Completed(j) => \A t \in TasksOf(j) : rows[t] > 0

\* A task of an email is being checked, or each runner is checking as many
\* emails as keep it from polling.
Held(t) ==
  \/ \E e \in WorkOn(t) : e.phase = "checking"
  \/ \A r \in Runners :
       Cardinality({e \in WorkOf(r) : e.phase = "checking"}) >= MinTasks

\* Whatever lapses, crashes and errors there are, as long as they are fewer
\* than the attempts of a message every accepted job that gave a port to try is
\* completed, if it was not completed and pruned before, or one of its emails
\* is held up by checks that never end.
JobsComplete ==
  \A j \in Jobs \ NoPorts :
    job[j] = "accepted" ~>
      \/ Completed(j) \/ j \in emptied \/ faults >= Attempts
      \/ \E t \in TasksOf(j) : []Held(t)
=============================================================================
