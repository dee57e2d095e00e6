---------------------------- MODULE BulkV0Proofs ----------------------------
(***************************************************************************)
(* Proofs about the Postgres message queue and its tasks, for any number   *)
(* of processes, tasks, attempts and faults.                               *)
(***************************************************************************)
EXTENDS BulkV0, FiniteSetTheorems, TLAPS

LEMMA InitType == Init => TypeOK
<1> SUFFICES ASSUME Init PROVE TypeOK
  OBVIOUS
<1>1. 0 \in 0 .. Attempts /\ 0 \in 0 .. MaxFaults
  BY BulkV0Assumption
<1>2. QED
  BY <1>1 DEF Init, TypeOK, NotPruning, Executions

(* What a fault leaves.                                                    *)
LEMMA FaultType == TypeOK /\ Fault => faults' \in 0 .. MaxFaults
BY BulkV0Assumption DEF TypeOK, Fault

(* Every action of the queue, the task and prune_db keeps the types; that  *)
(* a claimed message has an attempt left is ClaimedOnce.                   *)
LEMMA TypeStep == TypeOK /\ ClaimedOnce /\ [Next]_vars => TypeOK'
<1> SUFFICES ASSUME TypeOK, ClaimedOnce, [Next]_vars PROVE TypeOK'
  OBVIOUS
<1>1. ASSUME NEW j \in Jobs, CreateJob(j) PROVE TypeOK'
  BY <1>1 DEF TypeOK, CreateJob, queue, Executions
<1>2. ASSUME NEW j \in Jobs, SubmitFails(j) PROVE TypeOK'
  BY <1>2, FaultType DEF TypeOK, SubmitFails, queue, Executions
<1>3. ASSUME NEW j \in Jobs, AcceptJob(j) PROVE TypeOK'
  BY <1>3 DEF TypeOK, AcceptJob, queue, Executions
<1>4. ASSUME NEW t \in Tasks, SubmitTask(t) PROVE TypeOK'
  <2>1. Attempts \in 0 .. Attempts
    BY BulkV0Assumption
  <2>2. QED
    BY <1>4, <2>1 DEF TypeOK, SubmitTask, admin, Executions
<1>5. ASSUME NEW t \in Tasks, TimeOut(t) PROVE TypeOK'
  BY <1>5 DEF TypeOK, TimeOut, admin, Executions
<1>6. ASSUME NEW t \in Tasks, Lapse(t) PROVE TypeOK'
  BY <1>6, FaultType DEF TypeOK, Lapse, admin, Executions
<1>7. ASSUME NEW t \in Tasks, KeepAlive(t) PROVE TypeOK'
  BY <1>7 DEF TypeOK, KeepAlive, admin, Executions
<1>8. ASSUME NEW r \in Runners, PollSelect(r) PROVE TypeOK'
  <2>1. polling' \in [Runners -> SUBSET Tasks]
    <3>1. PICK batch \in kSubset(Min({Cardinality(Due), MaxTasks - Cardinality(WorkOf(r))}), Due) :
            polling' = [polling EXCEPT ![r] = batch]
      BY <1>8 DEF PollSelect
    <3>2. batch \subseteq Tasks
      BY <3>1 DEF kSubset, Due
    <3>3. QED
      BY <3>1, <3>2 DEF TypeOK
  <2>2. QED
    BY <1>8, <2>1 DEF TypeOK, PollSelect, admin, Executions
<1>9. ASSUME NEW r \in Runners, PollUpdate(r) PROVE TypeOK'
  <2> DEFINE claimed == {t \in polling[r] : message[t] = "due"}
  <2>1. claimed \subseteq Tasks
    BY DEF TypeOK
  <2>2. \A t \in claimed : attempts[t] \in 1 .. Attempts /\ attempts[t] - 1 \in 0 .. Attempts
    BY <2>1, BulkV0Assumption DEF ClaimedOnce, TypeOK
  <2>3. attempts' \in [Tasks -> 0 .. Attempts]
    BY <1>9, <2>1, <2>2 DEF PollUpdate, Claim, TypeOK
  <2>4. work' \subseteq Executions
    <3>1. \A t \in claimed :
            [by |-> r, task |-> t, attempt |-> attempts[t], phase |-> "checking"] \in Executions
      BY <2>1, <2>2 DEF Executions
    <3>2. QED
      BY <1>9, <3>1 DEF PollUpdate, Claim, TypeOK
  <2>5. message' \in [Tasks -> {"absent", "waiting", "due", "exhausted", "deleted"}]
    BY <1>9 DEF PollUpdate, Claim, TypeOK
  <2>6. polling' \in [Runners -> SUBSET Tasks]
    BY <1>9 DEF PollUpdate, Claim, TypeOK
  <2>7. QED
    BY <1>9, <2>3, <2>4, <2>5, <2>6 DEF PollUpdate, Claim, TypeOK, admin
<1>10. ASSUME NEW r \in Runners, Crash(r) PROVE TypeOK'
  BY <1>10, FaultType DEF TypeOK, Crash, admin, WorkOf
<1>11. ASSUME NEW e \in work, StoreResult(e) PROVE TypeOK'
  <2>1. e \in Executions /\ [e EXCEPT !.phase = "stored"] \in Executions
    BY DEF TypeOK, Executions
  <2>2. work' \subseteq Executions
    BY <1>11, <2>1 DEF TypeOK, StoreResult
  <2>3. rows' \in [Tasks -> Nat]
    BY <1>11, <2>1 DEF TypeOK, StoreResult, Executions
  <2>4. QED
    BY <1>11, <2>2, <2>3 DEF TypeOK, StoreResult, queue, admin
<1>12. ASSUME NEW e \in work, StoreRefused(e) PROVE TypeOK'
  BY <1>12 DEF TypeOK, StoreRefused, queue, admin
<1>13. ASSUME NEW e \in work, Complete(e) PROVE TypeOK'
  BY <1>13 DEF TypeOK, Complete, admin
<1>14. ASSUME NEW e \in work, TaskFails(e) PROVE TypeOK'
  BY <1>14, FaultType DEF TypeOK, TaskFails, queue, admin
<1>15. CASE PruneSelect
  BY <1>15 DEF TypeOK, PruneSelect, queue, Recorded
<1>16. CASE DeleteResults
  BY <1>16 DEF TypeOK, DeleteResults, queue
<1>17. CASE DeleteJobs
  BY <1>17 DEF TypeOK, DeleteJobs, queue, NotPruning
<1>18. CASE PruneDies
  BY <1>18, FaultType DEF TypeOK, PruneDies, queue, NotPruning
<1>19. CASE UNCHANGED vars
  BY <1>19 DEF TypeOK, vars
<1>20. QED
  BY <1>1, <1>2, <1>3, <1>4, <1>5, <1>6, <1>7, <1>8, <1>9, <1>10, <1>11, <1>12,
     <1>13, <1>14, <1>15, <1>16, <1>17, <1>18, <1>19 DEF Next, RunTask, Prune

(* A message that was not submitted is not worked on.                      *)
NotBefore == \A e \in work : message[e.task] # "absent"

IInv == TypeOK /\ ClaimedOnce /\ NotBefore

LEMMA NotBeforeStep == IInv /\ [Next]_vars => NotBefore'
<1> SUFFICES ASSUME IInv, [Next]_vars PROVE NotBefore'
  OBVIOUS
<1>0. \A e \in work : e.task \in Tasks
  BY DEF IInv, TypeOK, Executions
<1>1. CASE \E j \in Jobs : CreateJob(j) \/ SubmitFails(j) \/ AcceptJob(j)
  BY <1>1 DEF IInv, NotBefore, CreateJob, SubmitFails, AcceptJob, queue
<1>2. ASSUME NEW t \in Tasks, SubmitTask(t) \/ TimeOut(t) \/ Lapse(t) \/ KeepAlive(t)
      PROVE  NotBefore'
  BY <1>2, <1>0 DEF IInv, TypeOK, NotBefore, SubmitTask, TimeOut, Lapse, KeepAlive
<1>3. ASSUME NEW r \in Runners, PollSelect(r) \/ Crash(r) PROVE NotBefore'
  BY <1>3 DEF IInv, NotBefore, PollSelect, Crash, WorkOf
<1>4. ASSUME NEW r \in Runners, PollUpdate(r) PROVE NotBefore'
  <2> DEFINE claimed == {t \in polling[r] : message[t] = "due"}
  <2>1. claimed \subseteq Tasks
    BY DEF IInv, TypeOK
  <2>2. \A e \in work' : e \in work \/ e.task \in claimed
    BY <1>4 DEF PollUpdate, Claim
  <2>3. \A t \in Tasks : message'[t] # "absent" <=> t \in claimed \/ message[t] # "absent"
    BY <1>4, <2>1 DEF PollUpdate, Claim
  <2>4. QED
    BY <1>0, <2>1, <2>2, <2>3 DEF IInv, NotBefore
<1>5. ASSUME NEW e \in work, StoreResult(e) PROVE NotBefore'
  <2>1. \A f \in work' : \E g \in work : f.task = g.task
    BY <1>5 DEF IInv, TypeOK, Executions, StoreResult
  <2>2. message' = message
    BY <1>5 DEF StoreResult, queue
  <2>3. QED
    BY <2>1, <2>2 DEF IInv, NotBefore
<1>6. ASSUME NEW e \in work, StoreRefused(e) \/ TaskFails(e) PROVE NotBefore'
  BY <1>6 DEF IInv, NotBefore, StoreRefused, TaskFails, queue
<1>7. ASSUME NEW e \in work, Complete(e) PROVE NotBefore'
  BY <1>7, <1>0 DEF IInv, TypeOK, NotBefore, Complete
<1>8. CASE Prune
  BY <1>8 DEF IInv, NotBefore, Prune, PruneSelect, DeleteResults, DeleteJobs, PruneDies, queue
<1>9. CASE UNCHANGED vars
  BY <1>9 DEF IInv, NotBefore, vars
<1>10. QED
  BY <1>1, <1>2, <1>3, <1>4, <1>5, <1>6, <1>7, <1>8, <1>9 DEF Next, RunTask

(* The executions and the attempts that are left agree.  A poll changes    *)
(* both; the other actions only end executions or mark them as stored.     *)
LEMMA ClaimedStep == IInv /\ [Next]_vars => ClaimedOnce'
<1> SUFFICES ASSUME IInv, [Next]_vars PROVE ClaimedOnce'
  OBVIOUS
<1>0. \A e \in work : e.task \in Tasks /\ e.attempt \in 1 .. Attempts
  BY DEF IInv, TypeOK, Executions
<1>a. BulkV0Assumption
  BY BulkV0Assumption
<1>1. CASE \E j \in Jobs : CreateJob(j) \/ SubmitFails(j) \/ AcceptJob(j)
  BY <1>1 DEF IInv, ClaimedOnce, CreateJob, SubmitFails, AcceptJob, queue
<1>2. ASSUME NEW t \in Tasks, SubmitTask(t) PROVE ClaimedOnce'
  <2>1. \A e \in work : e.task # t
    BY <1>2 DEF IInv, NotBefore, SubmitTask
  <2>2. \A e \in work' : e \in work /\ attempts'[e.task] = attempts[e.task]
    BY <1>0, <1>2, <2>1 DEF IInv, TypeOK, SubmitTask
  <2>3. \A s \in Tasks : message'[s] \in {"due", "waiting"} => attempts'[s] > 0
    BY <1>2, BulkV0Assumption DEF IInv, TypeOK, ClaimedOnce, SubmitTask
  <2>4. QED
    BY <2>2, <2>3 DEF IInv, ClaimedOnce
<1>3. ASSUME NEW t \in Tasks, TimeOut(t) \/ Lapse(t) \/ KeepAlive(t) PROVE ClaimedOnce'
  BY <1>3 DEF IInv, TypeOK, ClaimedOnce, TimeOut, Lapse, KeepAlive
<1>4. ASSUME NEW r \in Runners, PollSelect(r) \/ Crash(r) PROVE ClaimedOnce'
  BY <1>4 DEF IInv, ClaimedOnce, PollSelect, Crash, WorkOf
<1>5. ASSUME NEW r \in Runners, PollUpdate(r) PROVE ClaimedOnce'
  <2> DEFINE claimed == {t \in polling[r] : message[t] = "due"}
  <2> DEFINE new(t) == [by |-> r, task |-> t, attempt |-> attempts[t], phase |-> "checking"]
  <2>1. claimed \subseteq Tasks
    BY DEF IInv, TypeOK
  <2>2. \A t \in claimed : attempts[t] \in 1 .. Attempts
    BY <2>1, BulkV0Assumption DEF IInv, TypeOK, ClaimedOnce
  <2>3. \A t \in Tasks : attempts'[t] = IF t \in claimed THEN attempts[t] - 1 ELSE attempts[t]
    BY <1>5 DEF PollUpdate, Claim
  <2>4. work' = work \cup {new(t) : t \in claimed}
    BY <1>5 DEF PollUpdate, Claim
  <2>5. \A t \in Tasks : message'[t] \in {"due", "waiting"} => attempts'[t] > 0
    <3> SUFFICES ASSUME NEW t \in Tasks, message'[t] \in {"due", "waiting"}
                 PROVE  attempts'[t] > 0
      OBVIOUS
    <3>1. CASE t \in claimed
      <4>1. attempts[t] # 1
        BY <1>5, <3>1 DEF PollUpdate, Claim
      <4>2. QED
        BY <2>2, <2>3, <3>1, <4>1
    <3>2. CASE t \notin claimed
      <4>1. message'[t] = message[t]
        BY <1>5, <3>2 DEF PollUpdate, Claim
      <4>2. QED
        BY <2>3, <3>2, <4>1 DEF IInv, ClaimedOnce
    <3>3. QED
      BY <3>1, <3>2
  <2>6. \A e \in work' : attempts'[e.task] < e.attempt
    <3>1. \A e \in work : attempts'[e.task] <= attempts[e.task]
      BY <1>0, <2>2, <2>3 DEF IInv, TypeOK
    <3>2. \A e \in work : attempts'[e.task] < e.attempt
      BY <1>0, <2>2, <2>3, <3>1 DEF IInv, TypeOK, ClaimedOnce
    <3>3. \A t \in claimed : attempts'[t] < attempts[t]
      BY <2>1, <2>2, <2>3
    <3>4. QED
      BY <2>4, <3>2, <3>3
  <2>7. \A e, f \in work' : e.task = f.task /\ e.attempt = f.attempt => e = f
    <3>1. \A e \in work, t \in claimed : ~ (e.task = t /\ e.attempt = attempts[t])
      BY <1>0, <2>2 DEF IInv, ClaimedOnce
    <3>2. QED
      BY <2>4, <3>1 DEF IInv, ClaimedOnce
  <2>8. QED
    BY <2>5, <2>6, <2>7 DEF ClaimedOnce
<1>6. ASSUME NEW e \in work, StoreResult(e) PROVE ClaimedOnce'
  <2> DEFINE stored == [e EXCEPT !.phase = "stored"]
  <2>1. work' = (work \ {e}) \cup {stored} /\ message' = message /\ attempts' = attempts
    BY <1>6 DEF StoreResult, queue
  <2>2. stored.task = e.task /\ stored.attempt = e.attempt
    BY DEF IInv, TypeOK, Executions
  <2>3. \A f \in work \ {e} : ~ (f.task = e.task /\ f.attempt = e.attempt)
    BY DEF IInv, ClaimedOnce
  <2> HIDE DEF stored
  <2>4. \A f \in work' : \E g \in work : f.task = g.task /\ f.attempt = g.attempt
    BY <2>1, <2>2
  <2>5. \A f, g \in work' : f.task = g.task /\ f.attempt = g.attempt => f = g
    BY <2>1, <2>2, <2>3 DEF IInv, ClaimedOnce
  <2>6. QED
    BY <2>1, <2>4, <2>5 DEF IInv, ClaimedOnce
<1>7. ASSUME NEW e \in work, StoreRefused(e) \/ TaskFails(e) PROVE ClaimedOnce'
  BY <1>7 DEF IInv, ClaimedOnce, StoreRefused, TaskFails, queue
<1>8. ASSUME NEW e \in work, Complete(e) PROVE ClaimedOnce'
  BY <1>8 DEF IInv, TypeOK, ClaimedOnce, Complete
<1>9. CASE Prune
  BY <1>9 DEF IInv, ClaimedOnce, Prune, PruneSelect, DeleteResults, DeleteJobs, PruneDies, queue
<1>10. CASE UNCHANGED vars
  BY <1>10 DEF IInv, ClaimedOnce, vars
<1>11. QED
  BY <1>1, <1>2, <1>3, <1>4, <1>5, <1>6, <1>7, <1>8, <1>9, <1>10 DEF Next, RunTask

LEMMA InitInv == Init => IInv
BY InitType DEF Init, IInv, ClaimedOnce, NotBefore

LEMMA Invariant == Spec => []IInv
<1>1. IInv /\ [Next]_vars => IInv'
  BY TypeStep, ClaimedStep, NotBeforeStep DEF IInv
<1>2. QED
  BY <1>1, InitInv, PTL DEF Spec

(* The tables keep their types; a message never has fewer than no attempts *)
(* left, and no execution an attempt that was not granted.                 *)
THEOREM TypeCorrect == Spec => []TypeOK
<1>1. IInv => TypeOK
  BY DEF IInv
<1>2. QED
  BY <1>1, Invariant, PTL

(* mq_poll as fix_concurrent_poll left it: however many processes poll, no *)
(* attempt of a message is handed out twice.                               *)
THEOREM ClaimedOnlyOnce == Spec => []ClaimedOnce
<1>1. IInv => ClaimedOnce
  BY DEF IInv
<1>2. QED
  BY <1>1, Invariant, PTL
-----------------------------------------------------------------------------
(* A task that is about to complete its message has stored a result, which *)
(* only prune_db takes away again.                                         *)
StoredHasRow ==
  \A e \in work : e.phase = "stored" => rows[e.task] > 0 \/ JobOf[e.task] \in emptied

LEMMA StoredStep ==
  ASSUME IInv, StoredHasRow, DeletedIsStored, [Next]_vars
  PROVE  StoredHasRow' /\ DeletedIsStored'
<1>0. \A e \in work : e.task \in Tasks
  BY DEF IInv, TypeOK, Executions
<1>1. CASE \E j \in Jobs : CreateJob(j) \/ SubmitFails(j) \/ AcceptJob(j)
  BY <1>1 DEF StoredHasRow, DeletedIsStored, CreateJob, SubmitFails, AcceptJob, queue
<1>2. ASSUME NEW t \in Tasks, SubmitTask(t) \/ TimeOut(t) \/ Lapse(t) \/ KeepAlive(t)
      PROVE  StoredHasRow' /\ DeletedIsStored'
  BY <1>2 DEF IInv, TypeOK, StoredHasRow, DeletedIsStored, SubmitTask, TimeOut, Lapse,
              KeepAlive, admin
<1>3. ASSUME NEW r \in Runners, PollSelect(r) \/ Crash(r)
      PROVE  StoredHasRow' /\ DeletedIsStored'
  BY <1>3 DEF StoredHasRow, DeletedIsStored, PollSelect, Crash, WorkOf, admin
<1>4. ASSUME NEW r \in Runners, PollUpdate(r) PROVE StoredHasRow' /\ DeletedIsStored'
  <2>1. \A e \in work' : e \in work \/ e.phase = "checking"
    BY <1>4 DEF PollUpdate, Claim
  <2>2. \A t \in Tasks : message'[t] = "deleted" => message[t] = "deleted"
    BY <1>4 DEF PollUpdate, Claim
  <2>3. UNCHANGED <<rows, emptied>>
    BY <1>4 DEF PollUpdate, Claim, admin
  <2>4. QED
    BY <2>1, <2>2, <2>3 DEF StoredHasRow, DeletedIsStored
<1>5. ASSUME NEW e \in work, StoreResult(e) PROVE StoredHasRow' /\ DeletedIsStored'
  <2> DEFINE stored == [e EXCEPT !.phase = "stored"]
  <2>1. work' = (work \ {e}) \cup {stored} /\ UNCHANGED <<message, emptied>>
    BY <1>5 DEF StoreResult, queue, admin
  <2>2. stored.task = e.task
    BY DEF IInv, TypeOK, Executions
  <2>3. rows' = [rows EXCEPT ![e.task] = @ + 1]
    BY <1>5 DEF StoreResult
  <2>4. \A t \in Tasks : rows'[t] >= rows[t]
    BY <2>3 DEF IInv, TypeOK
  <2>5. rows'[e.task] > 0
    BY <2>3, <1>0 DEF IInv, TypeOK
  <2>6. rows' \in [Tasks -> Nat]
    BY <2>3, <1>0 DEF IInv, TypeOK
  <2> HIDE DEF stored
  <2>7. \A f \in work' : f = stored \/ f \in work
    BY <2>1
  <2>8. \A f \in work : f.phase = "stored" => rows'[f.task] > 0 \/ JobOf[f.task] \in emptied
    BY <1>0, <2>4, <2>6 DEF StoredHasRow, IInv, TypeOK
  <2>9. StoredHasRow'
    BY <2>1, <2>2, <2>5, <2>7, <2>8 DEF StoredHasRow
  <2>10. DeletedIsStored'
    BY <2>1, <2>4, <2>6 DEF DeletedIsStored, IInv, TypeOK
  <2>11. QED
    BY <2>9, <2>10
<1>6. ASSUME NEW e \in work, StoreRefused(e) \/ TaskFails(e)
      PROVE  StoredHasRow' /\ DeletedIsStored'
  BY <1>6 DEF StoredHasRow, DeletedIsStored, StoreRefused, TaskFails, queue, admin
<1>7. ASSUME NEW e \in work, Complete(e) PROVE StoredHasRow' /\ DeletedIsStored'
  <2>1. rows[e.task] > 0 \/ JobOf[e.task] \in emptied \cup NoPorts
    BY <1>7 DEF Complete, StoredHasRow
  <2>2. QED
    BY <1>7, <2>1 DEF StoredHasRow, DeletedIsStored, Complete, IInv, TypeOK, admin
<1>8. CASE DeleteResults
  BY <1>0, <1>8 DEF StoredHasRow, DeletedIsStored, DeleteResults, queue
<1>9. CASE PruneSelect \/ DeleteJobs \/ PruneDies
  BY <1>9 DEF StoredHasRow, DeletedIsStored, PruneSelect, DeleteJobs, PruneDies, queue
<1>10. CASE UNCHANGED vars
  BY <1>10 DEF StoredHasRow, DeletedIsStored, vars
<1>11. QED
  BY <1>1, <1>2, <1>3, <1>4, <1>5, <1>6, <1>7, <1>8, <1>9, <1>10
     DEF Next, RunTask, Prune

(* Whichever processes work on a message and whichever of them fail, it is *)
(* deleted only when its result is in email_results or was pruned there,   *)
(* or when its own job gave no port to try; other jobs may.                *)
THEOREM NothingIsLost == Spec => []DeletedIsStored
<1>1. Init => StoredHasRow /\ DeletedIsStored
  BY DEF Init, StoredHasRow, DeletedIsStored
<1>2. IInv /\ StoredHasRow /\ DeletedIsStored /\ [Next]_vars
        => StoredHasRow' /\ DeletedIsStored'
  BY StoredStep
<1>3. QED
  BY <1>1, <1>2, Invariant, PTL DEF Spec
-----------------------------------------------------------------------------
(* Rows of one email.                                                      *)

(* The executions that may still store a result for t.                     *)
Checking(t) == {e \in work : e.task = t /\ e.phase = "checking"}

(* May t be claimed although nothing else goes wrong.                      *)
Claimable(t) ==
  \/ message[t] \in {"absent", "due"}
  \/ message[t] = "waiting" /\ WorkOn(t) = {}

One(b) == IF b THEN 1 ELSE 0

(* A row, an execution that may become one, and the chance of another are  *)
(* one in all, but for the faults: a lapse makes a message claimable that  *)
(* is worked on, a crash or an error one whose row may be there already.   *)
RowsPaid ==
  \A t \in Tasks :
    /\ IsFiniteSet(Checking(t))
    /\ rows[t] + Cardinality(Checking(t)) + One(Claimable(t)) <= 1 + faults

(* A step that starts no execution and pays for the message it gives back. *)
LEMMA PaidFrame ==
  ASSUME RowsPaid, TypeOK, NEW t \in Tasks, Checking(t)' \subseteq Checking(t),
         rows'[t] \in Nat, rows'[t] <= rows[t], faults' \in Nat,
         One(Claimable(t))' - One(Claimable(t)) <= faults' - faults
  PROVE  /\ IsFiniteSet(Checking(t)')
         /\ rows'[t] + Cardinality(Checking(t)') + One(Claimable(t))' <= 1 + faults'
<1>1. IsFiniteSet(Checking(t))
      /\ rows[t] + Cardinality(Checking(t)) + One(Claimable(t)) <= 1 + faults
  BY DEF RowsPaid
<1>2. IsFiniteSet(Checking(t)') /\ Cardinality(Checking(t)') <= Cardinality(Checking(t))
  BY <1>1, FS_Subset
<1>3. Cardinality(Checking(t)) \in Nat /\ Cardinality(Checking(t)') \in Nat
  BY <1>1, <1>2, FS_CardinalityType
<1>4. rows[t] \in Nat /\ faults \in Nat
  BY DEF TypeOK
<1>5. One(Claimable(t)) \in Nat /\ One(Claimable(t))' \in Nat
  BY DEF One
<1>6. QED
  BY <1>1, <1>2, <1>3, <1>4, <1>5

(* The same of all tasks, for the steps that leave the rows alone.         *)
LEMMA PaidByAll ==
  ASSUME RowsPaid, TypeOK, \A t \in Tasks : Checking(t)' \subseteq Checking(t),
         UNCHANGED rows, faults' \in Nat,
         \A t \in Tasks : One(Claimable(t))' - One(Claimable(t)) <= faults' - faults
  PROVE  RowsPaid'
<1>1. \A t \in Tasks : rows'[t] \in Nat /\ rows'[t] <= rows[t]
  BY DEF TypeOK
<1>2. QED
  BY <1>1, PaidFrame DEF RowsPaid

(* An element that may be there already.                                   *)
LEMMA AtMostOneMore ==
  ASSUME NEW S, NEW x, IsFiniteSet(S)
  PROVE  IsFiniteSet(S \cup {x}) /\ Cardinality(S \cup {x}) <= Cardinality(S) + 1
<1>1. Cardinality(S) \in Nat
  BY FS_CardinalityType
<1>2. /\ IsFiniteSet(S \cup {x})
      /\ Cardinality(S \cup {x}) = IF x \in S THEN Cardinality(S) ELSE Cardinality(S) + 1
  BY FS_AddElement
<1>3. QED
  BY <1>1, <1>2

(* One step per action; a poll moves the chance of an execution to the     *)
(* execution, and StoreResult the execution to the row.                    *)
LEMMA RowsStep == IInv /\ RowsPaid /\ [Next]_vars => RowsPaid'
<1> SUFFICES ASSUME IInv, RowsPaid, [Next]_vars PROVE RowsPaid'
  OBVIOUS
<1>0. TypeOK /\ faults \in Nat /\ \A e \in work : e.task \in Tasks
  BY DEF IInv, TypeOK, Executions
<1>a. ASSUME Fault PROVE faults' \in Nat /\ faults' - faults = 1
  BY <1>0, <1>a DEF Fault
<1>b. ASSUME NEW b, NEW c PROVE One(b) - One(c) <= 1
  BY DEF One
<1>c. ASSUME UNCHANGED <<message, work, rows>>, faults' = faults \/ Fault PROVE RowsPaid'
  <2>1. \A t \in Tasks : Checking(t)' = Checking(t) /\ One(Claimable(t))' = One(Claimable(t))
    BY <1>c DEF Checking, Claimable, WorkOn, One
  <2>2. \A t \in Tasks : One(Claimable(t)) \in Nat
    BY DEF One
  <2>3. faults' \in Nat /\ 0 <= faults' - faults
    BY <1>0, <1>c, <1>a
  <2>4. \A t \in Tasks : One(Claimable(t))' - One(Claimable(t)) <= faults' - faults
    <3> SUFFICES ASSUME NEW t \in Tasks
                 PROVE  One(Claimable(t))' - One(Claimable(t)) <= faults' - faults
      OBVIOUS
    <3>1. One(Claimable(t))' = One(Claimable(t)) /\ One(Claimable(t)) \in Nat
      BY <2>1, <2>2
    <3>2. \A m, n \in Nat : m = n => m - n = 0
      OBVIOUS
    <3>3. One(Claimable(t))' - One(Claimable(t)) = 0
      BY <3>1, <3>2
    <3>4. QED
      BY <3>3, <2>3
  <2>5. QED
    BY <1>0, <1>c, <2>1, <2>3, <2>4, PaidByAll
<1>d. ASSUME work' \subseteq work, UNCHANGED rows, Fault PROVE RowsPaid'
  <2>1. \A t \in Tasks : Checking(t)' \subseteq Checking(t)
    BY <1>d DEF Checking
  <2>2. \A t \in Tasks : One(Claimable(t))' - One(Claimable(t)) <= faults' - faults
    BY <1>d, <1>a DEF One
  <2>3. QED
    BY <1>0, <1>a, <1>d, <2>1, <2>2, PaidByAll
<1>e. ASSUME work' \subseteq work, UNCHANGED <<rows, faults>>,
             \A t \in Tasks : Claimable(t)' => Claimable(t)
      PROVE  RowsPaid'
  <2>1. \A t \in Tasks : Checking(t)' \subseteq Checking(t)
    BY <1>e DEF Checking
  <2>2. \A t \in Tasks : One(Claimable(t))' - One(Claimable(t)) <= faults' - faults
    BY <1>e, <1>0 DEF One
  <2>3. QED
    BY <1>0, <1>e, <2>1, <2>2, PaidByAll
<1>1. CASE \E j \in Jobs : CreateJob(j) \/ SubmitFails(j) \/ AcceptJob(j)
  BY <1>1, <1>c DEF CreateJob, SubmitFails, AcceptJob, queue
<1>2. ASSUME NEW t \in Tasks, SubmitTask(t) \/ TimeOut(t) \/ KeepAlive(t) PROVE RowsPaid'
  <2>1. UNCHANGED <<work, rows, faults>>
    BY <1>2 DEF SubmitTask, TimeOut, KeepAlive
  <2>2. \A u \in Tasks : Claimable(u)' => Claimable(u)
    BY <1>2, <1>0 DEF Claimable, WorkOn, SubmitTask, TimeOut, KeepAlive, TypeOK
  <2>3. QED
    BY <2>1, <2>2, <1>e
<1>3. ASSUME NEW t \in Tasks, Lapse(t) PROVE RowsPaid'
  BY <1>3, <1>d DEF Lapse
<1>4. ASSUME NEW r \in Runners, PollSelect(r) PROVE RowsPaid'
  BY <1>4, <1>c DEF PollSelect
<1>5. ASSUME NEW r \in Runners, Crash(r) PROVE RowsPaid'
  BY <1>5, <1>d DEF Crash
<1>6. ASSUME NEW r \in Runners, PollUpdate(r) PROVE RowsPaid'
  <2> DEFINE claimed == {t \in polling[r] : message[t] = "due"}
             Claimed(t) == [by |-> r, task |-> t, attempt |-> attempts[t], phase |-> "checking"]
  <2>1. /\ work' = work \cup {Claimed(t) : t \in claimed}
        /\ message' = [t \in Tasks |->
             IF t \notin claimed THEN message[t]
             ELSE IF attempts[t] = 1 THEN "exhausted" ELSE "waiting"]
        /\ UNCHANGED <<rows, faults>>
    BY <1>6 DEF PollUpdate, Claim
  <2>2. ASSUME NEW t \in Tasks, t \in claimed
        PROVE  /\ IsFiniteSet(Checking(t)')
               /\ rows'[t] + Cardinality(Checking(t)') + One(Claimable(t))' <= 1 + faults'
    <3>1. Checking(t)' = Checking(t) \cup {Claimed(t)}
      BY <2>1, <2>2 DEF Checking
    <3>2. Claimable(t) /\ ~ Claimable(t)'
      <4>1. Claimed(t) \in WorkOn(t)'
        BY <2>1, <2>2 DEF WorkOn
      <4>2. message'[t] \in {"exhausted", "waiting"}
        BY <2>1, <2>2
      <4>3. QED
        BY <4>1, <4>2, <2>2 DEF Claimable
    <3>3. IsFiniteSet(Checking(t))
          /\ rows[t] + Cardinality(Checking(t)) + 1 <= 1 + faults
      BY <3>2 DEF RowsPaid, One
    <3>4. IsFiniteSet(Checking(t)') /\ Cardinality(Checking(t)') <= Cardinality(Checking(t)) + 1
      <4> HIDE DEF Claimed
      <4>1. QED
        BY <3>1, <3>3, AtMostOneMore
    <3>5. Cardinality(Checking(t)) \in Nat /\ Cardinality(Checking(t)') \in Nat
      BY <3>3, <3>4, FS_CardinalityType
    <3>6. One(Claimable(t))' = 0
      BY <3>2 DEF One
    <3>7. rows'[t] = rows[t] /\ rows[t] \in Nat /\ faults' = faults
      BY <2>1, <1>0 DEF TypeOK
    <3>8. QED
      BY <3>3, <3>4, <3>5, <3>6, <3>7, <1>0
  <2>3. ASSUME NEW t \in Tasks, t \notin claimed
        PROVE  /\ IsFiniteSet(Checking(t)')
               /\ rows'[t] + Cardinality(Checking(t)') + One(Claimable(t))' <= 1 + faults'
    <3>1. Checking(t)' = Checking(t) /\ WorkOn(t)' = WorkOn(t)
      BY <2>1, <2>3 DEF Checking, WorkOn
    <3>2. message'[t] = message[t]
      BY <2>1, <2>3
    <3>3. One(Claimable(t))' = One(Claimable(t))
      BY <3>1, <3>2 DEF Claimable, One
    <3>4. QED
      BY <2>1, <3>1, <3>3 DEF RowsPaid
  <2>4. QED
    BY <2>2, <2>3 DEF RowsPaid
<1>7. ASSUME NEW e \in work, StoreResult(e) PROVE RowsPaid'
  <2> DEFINE stored == [e EXCEPT !.phase = "stored"]
  <2>1. /\ work' = (work \ {e}) \cup {stored}
        /\ rows' = [rows EXCEPT ![e.task] = @ + 1]
        /\ e.phase = "checking" /\ UNCHANGED <<message, faults>>
    BY <1>7 DEF StoreResult, Checked, queue
  <2>2. stored.task = e.task /\ stored.phase = "stored"
    BY <1>0 DEF TypeOK, Executions
  <2> HIDE DEF stored
  <2>3. \A t \in Tasks : WorkOn(t)' = {} <=> WorkOn(t) = {}
    BY <2>1, <2>2 DEF WorkOn
  <2>4. \A t \in Tasks : One(Claimable(t))' = One(Claimable(t))
    BY <2>1, <2>3 DEF Claimable, One
  <2>5. \A t \in Tasks : Checking(t)' = Checking(t) \ {e}
    BY <2>1, <2>2 DEF Checking
  <2>6. ASSUME NEW t \in Tasks, t = e.task
        PROVE  /\ IsFiniteSet(Checking(t)')
               /\ rows'[t] + Cardinality(Checking(t)') + One(Claimable(t))' <= 1 + faults'
    <3>1. e \in Checking(t)
      BY <2>1, <2>6 DEF Checking
    <3>2. IsFiniteSet(Checking(t)) /\ Cardinality(Checking(t)) \in Nat
      BY FS_CardinalityType DEF RowsPaid
    <3>3. IsFiniteSet(Checking(t)') /\ Cardinality(Checking(t)') = Cardinality(Checking(t)) - 1
      BY <2>5, <3>1, <3>2, FS_RemoveElement
    <3>4. rows'[t] = rows[t] + 1 /\ rows[t] \in Nat
      BY <2>1, <2>6, <1>0 DEF TypeOK
    <3>5. One(Claimable(t)) \in Nat
      BY DEF One
    <3>6. rows[t] + Cardinality(Checking(t)) + One(Claimable(t)) <= 1 + faults
      BY DEF RowsPaid
    <3>7. QED
      BY <2>1, <2>4, <3>2, <3>3, <3>4, <3>5, <3>6, <1>0
  <2>7. ASSUME NEW t \in Tasks, t # e.task
        PROVE  /\ IsFiniteSet(Checking(t)')
               /\ rows'[t] + Cardinality(Checking(t)') + One(Claimable(t))' <= 1 + faults'
    <3>1. Checking(t)' = Checking(t)
      BY <2>5, <2>7 DEF Checking
    <3>2. rows'[t] = rows[t]
      BY <2>1, <2>7, <1>0 DEF TypeOK
    <3>3. QED
      BY <2>1, <2>4, <3>1, <3>2 DEF RowsPaid
  <2>8. QED
    BY <2>6, <2>7 DEF RowsPaid
<1>8. ASSUME NEW e \in work, StoreRefused(e) PROVE RowsPaid'
  <2>1. work' = work \ {e} /\ e.phase = "checking" /\ UNCHANGED <<message, rows, faults>>
    BY <1>8 DEF StoreRefused, Checked, queue
  <2>2. ASSUME NEW t \in Tasks, t = e.task
        PROVE  /\ IsFiniteSet(Checking(t)')
               /\ rows'[t] + Cardinality(Checking(t)') + One(Claimable(t))' <= 1 + faults'
    <3>1. e \in Checking(t) /\ Checking(t)' = Checking(t) \ {e}
      BY <2>1, <2>2 DEF Checking
    <3>2. IsFiniteSet(Checking(t)) /\ Cardinality(Checking(t)) \in Nat
      BY FS_CardinalityType DEF RowsPaid
    <3>3. IsFiniteSet(Checking(t)') /\ Cardinality(Checking(t)') = Cardinality(Checking(t)) - 1
      BY <3>1, <3>2, FS_RemoveElement
    <3>4. /\ One(Claimable(t)) \in Nat /\ One(Claimable(t))' \in Nat
          /\ One(Claimable(t))' <= One(Claimable(t)) + 1
      BY DEF One
    <3>5. rows[t] + Cardinality(Checking(t)) + One(Claimable(t)) <= 1 + faults
      BY DEF RowsPaid
    <3>6. rows[t] \in Nat
      BY <1>0 DEF TypeOK
    <3>7. QED
      BY <2>1, <3>2, <3>3, <3>4, <3>5, <3>6, <1>0
  <2>3. ASSUME NEW t \in Tasks, t # e.task
        PROVE  /\ IsFiniteSet(Checking(t)')
               /\ rows'[t] + Cardinality(Checking(t)') + One(Claimable(t))' <= 1 + faults'
    <3>1. Checking(t)' = Checking(t) /\ WorkOn(t)' = WorkOn(t)
      BY <2>1, <2>3 DEF Checking, WorkOn
    <3>2. One(Claimable(t))' = One(Claimable(t))
      BY <2>1, <3>1 DEF Claimable, One
    <3>3. QED
      BY <2>1, <3>1, <3>2 DEF RowsPaid
  <2>4. QED
    BY <2>2, <2>3 DEF RowsPaid
<1>9. ASSUME NEW e \in work, Complete(e) PROVE RowsPaid'
  <2>1. work' = work \ {e} /\ UNCHANGED <<rows, faults>>
        /\ message' = [message EXCEPT ![e.task] = "deleted"]
    BY <1>9 DEF Complete
  <2>2. \A t \in Tasks : t # e.task => WorkOn(t)' = WorkOn(t) /\ message'[t] = message[t]
    BY <2>1, <1>0 DEF WorkOn, TypeOK
  <2>3. message'[e.task] = "deleted"
    BY <2>1, <1>0 DEF TypeOK
  <2>4. \A t \in Tasks : Claimable(t)' => Claimable(t)
    BY <2>2, <2>3 DEF Claimable
  <2>5. QED
    BY <2>1, <2>4, <1>e
<1>10. ASSUME NEW e \in work, TaskFails(e) PROVE RowsPaid'
  BY <1>10, <1>d DEF TaskFails
<1>11. CASE DeleteResults
  <2>1. UNCHANGED <<message, work, faults>>
    BY <1>11 DEF DeleteResults, queue
  <2>2. \A t \in Tasks : rows'[t] \in Nat /\ rows'[t] <= rows[t]
    BY <1>11, <1>0 DEF DeleteResults, TypeOK
  <2>3. \A t \in Tasks : Checking(t)' = Checking(t) /\ One(Claimable(t))' = One(Claimable(t))
    BY <2>1 DEF Checking, Claimable, WorkOn, One
  <2>4. \A t \in Tasks : One(Claimable(t))' - One(Claimable(t)) <= faults' - faults
    BY <2>1, <2>3, <1>0 DEF One
  <2>5. QED
    BY <2>1, <2>2, <2>3, <2>4, <1>0, PaidFrame DEF RowsPaid
<1>12. CASE PruneSelect \/ DeleteJobs \/ PruneDies
  BY <1>12, <1>c DEF PruneSelect, DeleteJobs, PruneDies, queue
<1>13. CASE UNCHANGED vars
  BY <1>13, <1>c DEF vars
<1>14. QED
  BY <1>1, <1>2, <1>3, <1>4, <1>5, <1>6, <1>7, <1>8, <1>9, <1>10, <1>11, <1>12, <1>13
     DEF Next, RunTask, Prune

(* An email has one row, and one more for each fault at most, however      *)
(* often its message lapses and whichever execution is late.               *)
THEOREM RowsBounded == Spec => []RowsBound
<1>1. Init => RowsPaid
  <2> SUFFICES ASSUME Init, NEW t \in Tasks
               PROVE  /\ IsFiniteSet(Checking(t))
                      /\ rows[t] + Cardinality(Checking(t)) + One(Claimable(t)) <= 1 + faults
    BY DEF RowsPaid
  <2>1. Checking(t) = {}
    BY DEF Init, Checking
  <2>2. One(Claimable(t)) \in 0 .. 1 /\ rows[t] = 0 /\ faults = 0
    BY DEF Init, One
  <2>3. QED
    BY <2>1, <2>2, FS_EmptySet
<1>2. IInv /\ RowsPaid => RowsBound
  <2> SUFFICES ASSUME IInv, RowsPaid, NEW t \in Tasks PROVE rows[t] <= 1 + faults
    BY DEF RowsBound
  <2>1. /\ IsFiniteSet(Checking(t))
        /\ rows[t] + Cardinality(Checking(t)) + One(Claimable(t)) <= 1 + faults
    BY DEF RowsPaid
  <2>2. Cardinality(Checking(t)) \in Nat /\ One(Claimable(t)) \in Nat
    BY <2>1, FS_CardinalityType DEF One
  <2>3. rows[t] \in Nat /\ faults \in Nat
    BY DEF IInv, TypeOK
  <2>4. QED
    BY <2>1, <2>2, <2>3
<1>3. QED
  BY <1>1, <1>2, Invariant, RowsStep, PTL DEF Spec

-----------------------------------------------------------------------------
(* prune_db beside the tasks.                                              *)

(* Finitely many tasks with finitely many rows each have finitely many.    *)
LEMMA FinitelyMany ==
  ASSUME NEW f \in [Tasks -> Nat], NEW j
  PROVE  IsFiniteSet(UNION {{t} \X (1 .. f[t]) : t \in TasksOf(j)})
<1> DEFINE Of == {{t} \X (1 .. f[t]) : t \in TasksOf(j)}
           g  == [t \in TasksOf(j) |-> {t} \X (1 .. f[t])]
<1>1. IsFiniteSet(TasksOf(j))
  BY BulkV0Assumption, FS_Subset DEF TasksOf
<1>2. g \in Surjection(TasksOf(j), Of)
  BY DEF Surjection
<1>3. IsFiniteSet(Of)
  BY <1>1, <1>2, FS_Surjection
<1>4. ASSUME NEW t \in TasksOf(j) PROVE IsFiniteSet({t} \X (1 .. f[t]))
  <2>1. f[t] \in Int
    BY DEF TasksOf
  <2>2. IsFiniteSet(1 .. f[t])
    BY <2>1, FS_Interval
  <2>3. IsFiniteSet({t})
    BY FS_Singleton
  <2>4. QED
    BY <2>2, <2>3, FS_Product
<1>5. QED
  BY <1>3, <1>4, FS_UNION

(* So the rows of a job can be counted, before and after a step.           *)
LEMMA RowsFinite ==
  ASSUME NEW j
  PROVE  /\ TypeOK  => IsFiniteSet(RowsOf(j)) /\ JobRows(j) \in Nat
         /\ TypeOK' => IsFiniteSet(RowsOf(j)') /\ JobRows(j)' \in Nat
<1>1. TypeOK => IsFiniteSet(RowsOf(j))
  BY FinitelyMany DEF TypeOK, RowsOf
<1>2. TypeOK' => IsFiniteSet(RowsOf(j)')
  BY FinitelyMany DEF TypeOK, RowsOf, TasksOf
<1>3. QED
  BY <1>1, <1>2, FS_CardinalityType DEF JobRows

(* A step that deletes no row of any task leaves a job as many rows.       *)
LEMMA RowsGrow ==
  ASSUME TypeOK, TypeOK', NEW j, \A t \in TasksOf(j) : rows'[t] >= rows[t]
  PROVE  JobRows(j)' >= JobRows(j)
<1>1. RowsOf(j) \subseteq RowsOf(j)'
  <2> SUFFICES ASSUME NEW r \in RowsOf(j) PROVE r \in RowsOf(j)'
    OBVIOUS
  <2>1. PICK t \in TasksOf(j) : r \in {t} \X (1 .. rows[t])
    BY DEF RowsOf
  <2>2. rows[t] \in Nat /\ rows'[t] \in Nat /\ rows'[t] >= rows[t]
    BY DEF TypeOK, TasksOf
  <2>3. r \in {t} \X (1 .. rows'[t])
    BY <2>1, <2>2
  <2>4. QED
    BY <2>3 DEF RowsOf, TasksOf
<1>2. IsFiniteSet(RowsOf(j)')
  BY RowsFinite
<1>3. QED
  BY <1>1, <1>2, FS_Subset DEF JobRows

(* Only prune_db deletes rows, and only after it selected the jobs.        *)
LEMMA RowsKept ==
  ASSUME TypeOK, [Next]_vars, ~ DeleteResults
  PROVE  \A t \in Tasks : rows'[t] >= rows[t]
<1>1. ASSUME NEW e \in work, StoreResult(e) PROVE \A t \in Tasks : rows'[t] >= rows[t]
  BY <1>1 DEF StoreResult, TypeOK
<1>2. UNCHANGED rows \/ \E e \in work : StoreResult(e)
  BY DEF Next, RunTask, Prune, CreateJob, SubmitFails, AcceptJob, SubmitTask, TimeOut,
         Lapse, KeepAlive, PollSelect, PollUpdate, Claim, Crash, StoreRefused, Complete,
         TaskFails, PruneSelect, DeleteJobs, PruneDies, vars
<1>3. QED
  BY <1>1, <1>2 DEF TypeOK

(* What prune_db selected stays completed until it deletes the results:    *)
(* tasks only add rows, and no other program removes the job.              *)
SelectedAreDone ==
  prune.at = "selected" => \A j \in prune.jobs : Completed(j)

LEMMA SelectedStep ==
  ASSUME TypeOK, TypeOK', SelectedAreDone, [Next]_vars
  PROVE  SelectedAreDone'
<1> SUFFICES ASSUME prune'.at = "selected", NEW j \in prune'.jobs
             PROVE  Completed(j)'
  BY DEF SelectedAreDone
<1>1. CASE PruneSelect
  <2>1. j \in Recorded /\ JobRows(j) = Cardinality(TasksOf(j))
    BY <1>1 DEF PruneSelect
  <2>2. UNCHANGED <<job, rows>>
    BY <1>1 DEF PruneSelect
  <2>3. JobRows(j) \in Nat
    BY RowsFinite
  <2>4. QED
    BY <2>1, <2>2, <2>3 DEF Completed, Recorded, JobRows, RowsOf, TasksOf
<1>2. CASE ~ PruneSelect
  <2>1. ~ DeleteResults
    BY DEF DeleteResults, TypeOK
  <2>2. ~ DeleteJobs /\ ~ PruneDies
    BY DEF DeleteJobs, PruneDies, NotPruning
  <2>3. UNCHANGED prune
    BY <1>2, <2>1, <2>2
       DEF Next, RunTask, Prune, CreateJob, SubmitFails, AcceptJob, SubmitTask, TimeOut,
           Lapse, KeepAlive, PollSelect, PollUpdate, Claim, Crash, StoreResult,
           StoreRefused, Complete, TaskFails, vars, admin
  <2>4. Completed(j)
    BY <2>3 DEF SelectedAreDone
  <2>5. Recorded \subseteq Recorded'
    <3>1. CASE \E i \in Jobs : CreateJob(i) \/ SubmitFails(i) \/ AcceptJob(i)
      BY <3>1 DEF CreateJob, SubmitFails, AcceptJob, Recorded, TypeOK
    <3>2. CASE UNCHANGED job
      BY <3>2 DEF Recorded
    <3>3. QED
      BY <1>2, <2>1, <2>2, <3>1, <3>2
         DEF Next, RunTask, Prune, SubmitTask, TimeOut, Lapse, KeepAlive, PollSelect,
             PollUpdate, Claim, Crash, StoreResult, StoreRefused, Complete, TaskFails,
             vars, admin
  <2>6. \A t \in Tasks : rows'[t] >= rows[t]
    BY <2>1, RowsKept
  <2>7. JobRows(j)' >= JobRows(j) /\ JobRows(j) \in Nat /\ JobRows(j)' \in Nat
    <3>1. JobRows(j)' >= JobRows(j)
      BY <2>6, RowsGrow DEF TasksOf
    <3>2. QED
      BY <3>1, RowsFinite
  <2>8. IsFiniteSet(TasksOf(j)) /\ Cardinality(TasksOf(j)) \in Nat
    BY BulkV0Assumption, FS_Subset, FS_CardinalityType DEF TasksOf
  <2>9. QED
    BY <2>4, <2>5, <2>7, <2>8 DEF Completed, TasksOf
<1>3. QED
  BY <1>1, <1>2

(* A job that is still reported as running never loses its results to      *)
(* prune_db, although it selects and deletes in two statements.            *)
THEOREM RunningJobsSpared == Spec => PruneSparesRunning
<1>1. Init => SelectedAreDone
  BY DEF Init, SelectedAreDone, NotPruning
<1>2. TypeOK /\ TypeOK' /\ SelectedAreDone /\ [Next]_vars => SelectedAreDone'
  BY SelectedStep
<1>3. TypeOK /\ TypeOK' /\ SelectedAreDone /\ [Next]_vars
        => [\A j \in Jobs : JobRows(j) > 0 /\ JobRows(j)' = 0 => Completed(j)]_vars
  <2> SUFFICES ASSUME TypeOK, TypeOK', SelectedAreDone, [Next]_vars, NEW j \in Jobs,
                      JobRows(j) > 0, JobRows(j)' = 0
               PROVE  Completed(j)
    OBVIOUS
  <2>1. JobRows(j) \in Nat
    BY RowsFinite
  <2>2. ~ \A t \in TasksOf(j) : rows'[t] >= rows[t]
    BY <2>1, RowsGrow
  <2>3. DeleteResults
    BY <2>2, RowsKept DEF TasksOf
  <2>4. j \in prune.jobs
    BY <2>2, <2>3 DEF DeleteResults, TasksOf, TypeOK
  <2>5. QED
    BY <2>3, <2>4 DEF DeleteResults, SelectedAreDone
<1>4. QED
  BY <1>1, <1>2, <1>3, TypeCorrect, PTL DEF Spec, PruneSparesRunning

-----------------------------------------------------------------------------
(* v0 implements JobLedger.                                                *)

(* No job is deleted before its results were, nor are the results of a job *)
(* that does not exist.                                                    *)
EmptiedFirst ==
  /\ prune.at = "emptied" => prune.jobs \subseteq emptied \cap Recorded
  /\ \A j \in emptied : job[j] # "none"

(* It is kept: what is emptied was selected, and what was selected exists. *)
LEMMA EmptiedStep ==
  ASSUME TypeOK, SelectedAreDone, EmptiedFirst, [Next]_vars
  PROVE  EmptiedFirst'
<1>1. CASE \E j \in Jobs : CreateJob(j) \/ SubmitFails(j) \/ AcceptJob(j)
  BY <1>1 DEF CreateJob, SubmitFails, AcceptJob, EmptiedFirst, Recorded, TypeOK
<1>2. CASE UNCHANGED <<job, emptied, prune>>
  BY <1>2 DEF EmptiedFirst, Recorded
<1>3. CASE PruneSelect \/ PruneDies
  BY <1>3 DEF PruneSelect, PruneDies, NotPruning, EmptiedFirst, Recorded
<1>4. CASE DeleteResults
  <2>1. prune.jobs \subseteq Recorded
    BY <1>4 DEF DeleteResults, SelectedAreDone, Completed
  <2>2. /\ prune'.jobs = prune.jobs /\ emptied' = emptied \cup prune.jobs
        /\ UNCHANGED job
    BY <1>4 DEF DeleteResults, TypeOK
  <2>3. QED
    BY <2>1, <2>2 DEF EmptiedFirst, Recorded
<1>5. CASE DeleteJobs
  <2>1. prune' = NotPruning /\ emptied' = emptied
    BY <1>5 DEF DeleteJobs
  <2>2. \A j \in emptied : job'[j] # "none"
    BY <1>5 DEF DeleteJobs, EmptiedFirst, TypeOK
  <2>3. QED
    BY <2>1, <2>2 DEF EmptiedFirst, NotPruning
<1>6. QED
  BY <1>1, <1>2, <1>3, <1>4, <1>5
     DEF Next, RunTask, Prune, SubmitTask, TimeOut, Lapse, KeepAlive, PollSelect,
         PollUpdate, Claim, Crash, StoreResult, StoreRefused, Complete, TaskFails,
         vars, admin

(* Where a job stands for the ledger depends on its rows, whether they     *)
(* were deleted, and whether the job exists.                               *)
LEMMA JobFrame ==
  ASSUME NEW j \in Jobs, TypeOK,
         \A t \in TasksOf(j) : rows'[t] = rows[t],
         j \in emptied' <=> j \in emptied,
         job'[j] = "none" <=> job[j] = "none",
         job'[j] = "pruned" <=> job[j] = "pruned"
  PROVE  JobStatus(j)' = JobStatus(j)
<1>1. RowsOf(j)' = RowsOf(j)
  BY DEF RowsOf, TasksOf
<1>2. Completed(j)' = Completed(j)
  BY <1>1 DEF Completed, JobRows, Recorded, TasksOf
<1>3. QED
  BY <1>2 DEF JobStatus

(* A step that leaves every job where it stands is a stutter of the ledger *)
LEMMA JobStutter ==
  ASSUME \A j \in Jobs : JobStatus(j)' = JobStatus(j)
  PROVE  [Ledger!Next]_[j \in Jobs |-> JobStatus(j)]
<1>1. [j \in Jobs |-> JobStatus(j)'] = [j \in Jobs |-> JobStatus(j)]
  OBVIOUS
<1>2. QED
  BY <1>1

(* ... and one that moves a set of jobs together empties or removes them.  *)
LEMMA JobsTogether ==
  ASSUME NEW old \in SUBSET Jobs, NEW s,
         \A j \in old : JobStatus(j)' = s,
         \A j \in Jobs \ old : JobStatus(j)' = JobStatus(j),
         \/ s = "emptied" /\ \A j \in old : JobStatus(j) \in {"complete", "emptied"}
         \/ s = "pruned" /\ \A j \in old : JobStatus(j) = "emptied"
  PROVE  Ledger!Next
<1>1. [j \in Jobs |-> JobStatus(j)'] =
        [j \in Jobs |-> IF j \in old THEN s ELSE JobStatus(j)]
  OBVIOUS
<1>2. Ledger!Empty(old) \/ Ledger!Remove(old)
  BY <1>1 DEF Ledger!Empty, Ledger!Remove
<1>3. QED
  BY <1>2 DEF Ledger!Next

(* StoreResult completes at most the one job of its task; prune_db moves   *)
(* the jobs it selected all at once.                                       *)
LEMMA LedgerStep ==
  ASSUME TypeOK, TypeOK', SelectedAreDone, EmptiedFirst, [Next]_vars
  PROVE  [Ledger!Next]_[j \in Jobs |-> JobStatus(j)]
<1>1. CASE UNCHANGED <<rows, job, emptied>>
  BY <1>1, JobFrame, JobStutter
<1>2. ASSUME NEW j \in Jobs, SubmitFails(j) \/ AcceptJob(j)
      PROVE  [Ledger!Next]_[i \in Jobs |-> JobStatus(i)]
  <2>1. \A i \in Jobs : /\ job'[i] = "none" <=> job[i] = "none"
                        /\ job'[i] = "pruned" <=> job[i] = "pruned"
    BY <1>2 DEF SubmitFails, AcceptJob, TypeOK
  <2>2. UNCHANGED <<rows, emptied>>
    BY <1>2 DEF SubmitFails, AcceptJob
  <2>3. QED
    BY <2>1, <2>2, JobFrame, JobStutter
<1>3. ASSUME NEW j \in Jobs, CreateJob(j)
      PROVE  [Ledger!Next]_[i \in Jobs |-> JobStatus(i)]
  <2>1. job[j] = "none" /\ job'[j] = "submitting" /\ UNCHANGED <<rows, emptied>>
        /\ \A i \in Jobs \ {j} : job'[i] = job[i]
    BY <1>3 DEF CreateJob, TypeOK
  <2>2. \A i \in Jobs \ {j} : JobStatus(i)' = JobStatus(i)
    BY <2>1, JobFrame
  <2>3. JobStatus(j) = "new" /\ JobStatus(j)' \in {"running", "complete"}
    BY <2>1 DEF JobStatus, EmptiedFirst
  <2>4. Ledger!Create(j)
    BY <2>2, <2>3 DEF Ledger!Create
  <2>5. QED
    BY <2>4 DEF Ledger!Next
<1>4. ASSUME NEW e \in work, StoreResult(e)
      PROVE  [Ledger!Next]_[j \in Jobs |-> JobStatus(j)]
  <2> DEFINE j == JobOf[e.task]
  <2>1. /\ e.task \in Tasks /\ j \in Recorded /\ j \in Jobs
        /\ rows' = [rows EXCEPT ![e.task] = @ + 1]
        /\ UNCHANGED <<job, emptied>>
    BY <1>4 DEF StoreResult, admin, TypeOK, Executions, Recorded
  <2>2. \A i \in Jobs \ {j} : JobStatus(i)' = JobStatus(i)
    <3> SUFFICES ASSUME NEW i \in Jobs, i # j PROVE JobStatus(i)' = JobStatus(i)
      OBVIOUS
    <3>1. \A t \in TasksOf(i) : rows'[t] = rows[t]
      BY <2>1 DEF TasksOf, TypeOK
    <3>2. QED
      BY <2>1, <3>1, JobFrame
  <2>3. Completed(j) => Completed(j)'
    <3>1. \A t \in TasksOf(j) : rows'[t] >= rows[t]
      BY <2>1 DEF TasksOf, TypeOK
    <3>2. JobRows(j)' >= JobRows(j)
      BY <3>1, RowsGrow
    <3>3. JobRows(j) \in Nat /\ JobRows(j)' \in Nat
      BY RowsFinite
    <3>4. Cardinality(TasksOf(j)) \in Nat
      BY BulkV0Assumption, FS_Subset, FS_CardinalityType DEF TasksOf
    <3>5. Recorded' = Recorded /\ TasksOf(j)' = TasksOf(j)
      BY <2>1 DEF Recorded, TasksOf
    <3>6. QED
      BY <3>2, <3>3, <3>4, <3>5 DEF Completed
  <2>4. \/ JobStatus(j)' = JobStatus(j)
        \/ JobStatus(j) = "running" /\ JobStatus(j)' = "complete"
    BY <2>1, <2>3 DEF JobStatus, Recorded
  <2>5. CASE JobStatus(j)' = JobStatus(j)
    BY <2>2, <2>5, JobStutter
  <2>6. CASE JobStatus(j) = "running" /\ JobStatus(j)' = "complete"
    <3>1. Ledger!Finish(j)
      BY <2>1, <2>2, <2>6 DEF Ledger!Finish
    <3>2. QED
      BY <2>1, <3>1 DEF Ledger!Next
  <2>7. QED
    BY <2>4, <2>5, <2>6
<1>5. CASE DeleteResults
  <2>1. /\ prune.jobs \in SUBSET Jobs
        /\ \A j \in prune.jobs : Completed(j)
        /\ emptied' = emptied \cup prune.jobs
        /\ UNCHANGED job
        /\ \A t \in Tasks : JobOf[t] \notin prune.jobs => rows'[t] = rows[t]
    BY <1>5 DEF DeleteResults, SelectedAreDone, TypeOK
  <2>2. ASSUME NEW j \in prune.jobs
        PROVE  JobStatus(j) \in {"complete", "emptied"} /\ JobStatus(j)' = "emptied"
    BY <2>1 DEF JobStatus, Completed, Recorded
  <2>3. \A j \in Jobs \ prune.jobs : JobStatus(j)' = JobStatus(j)
    <3> SUFFICES ASSUME NEW j \in Jobs, j \notin prune.jobs
                 PROVE  JobStatus(j)' = JobStatus(j)
      OBVIOUS
    <3>1. \A t \in TasksOf(j) : rows'[t] = rows[t]
      BY <2>1 DEF TasksOf
    <3>2. QED
      BY <2>1, <3>1, JobFrame
  <2>4. QED
    BY <2>1, <2>2, <2>3, JobsTogether
<1>6. CASE DeleteJobs
  <2>1. UNCHANGED <<rows, emptied>> /\ prune.jobs \in SUBSET Jobs
    BY <1>6 DEF DeleteJobs, TypeOK
  <2>2. CASE UNCHANGED job
    BY <2>1, <2>2, JobFrame, JobStutter
  <2>3. CASE job' = [j \in Jobs |-> IF j \in prune.jobs THEN "pruned" ELSE job[j]]
    <3>1. \A j \in prune.jobs : JobStatus(j) = "emptied" /\ JobStatus(j)' = "pruned"
      BY <1>6, <2>1, <2>3 DEF DeleteJobs, JobStatus, EmptiedFirst, Recorded
    <3>2. \A j \in Jobs \ prune.jobs : JobStatus(j)' = JobStatus(j)
      BY <2>1, <2>3, JobFrame
    <3>3. QED
      BY <2>1, <3>1, <3>2, JobsTogether
  <2>4. QED
    BY <1>6, <2>2, <2>3 DEF DeleteJobs
<1>7. QED
  BY <1>1, <1>2, <1>3, <1>4, <1>5, <1>6
     DEF Next, RunTask, Prune, SubmitTask, TimeOut, Lapse, KeepAlive, PollSelect,
         PollUpdate, Claim, Crash, StoreRefused, Complete, TaskFails, PruneSelect,
         PruneDies, vars, admin

(* A job runs until it is complete and stays so until prune_db deletes its *)
(* results, and only such a job is deleted, with any number of processes,  *)
(* late executions and faults.                                             *)
THEOREM JobLedgerImplemented == Spec => ImplementsJobLedger
<1>1. Init => SelectedAreDone /\ EmptiedFirst
  BY DEF Init, SelectedAreDone, EmptiedFirst, NotPruning
<1>2. Init => Ledger!Init
  BY DEF Init, Ledger!Init, JobStatus
<1>3. TypeOK /\ TypeOK' /\ SelectedAreDone /\ EmptiedFirst /\ [Next]_vars
        => SelectedAreDone' /\ EmptiedFirst'
  BY SelectedStep, EmptiedStep
<1>4. TypeOK /\ TypeOK' /\ SelectedAreDone /\ EmptiedFirst /\ [Next]_vars
        => [Ledger!Next]_[j \in Jobs |-> JobStatus(j)]
  BY LedgerStep
<1>5. QED
  BY <1>1, <1>2, <1>3, <1>4, TypeCorrect, PTL
     DEF Spec, ImplementsJobLedger, Ledger!Spec

-----------------------------------------------------------------------------
(* Attempts of one email.                                                  *)

(* The attempts of t that are over, or lost although an execution is left. *)
UsedUp(t) ==
  Attempts - attempts[t] - (IF message[t] = "due" \/ WorkOn(t) = {} THEN 0 ELSE 1)

Waits(t) == message[t] \in {"due", "waiting", "exhausted"}

(* A job that a task cannot find any more was emptied, so that a result is *)
(* refused only where it does not matter.                                  *)
GoneIsEmptied ==
  /\ \A j \in Jobs : job[j] = "pruned" => j \in emptied
  /\ \A t \in Tasks : message[t] # "absent" => job[JobOf[t]] # "none"

LEMMA GoneStep ==
  ASSUME IInv, EmptiedFirst, GoneIsEmptied, [Next]_vars
  PROVE  GoneIsEmptied'
<1> TypeOK /\ NotBefore
  BY DEF IInv
<1>0. \A t \in Tasks : JobOf[t] \in Jobs
  BY BulkV0Assumption
<1>1. CASE \E j \in Jobs : CreateJob(j) \/ SubmitFails(j) \/ AcceptJob(j)
  BY <1>0, <1>1 DEF CreateJob, SubmitFails, AcceptJob, queue, GoneIsEmptied, TypeOK
<1>2. ASSUME NEW t \in Tasks, SubmitTask(t) \/ TimeOut(t) \/ Lapse(t) \/ KeepAlive(t)
      PROVE  GoneIsEmptied'
  BY <1>0, <1>2 DEF SubmitTask, TimeOut, Lapse, KeepAlive, admin, GoneIsEmptied, TypeOK
<1>3. ASSUME NEW r \in Runners, PollSelect(r) \/ PollUpdate(r) \/ Crash(r)
      PROVE  GoneIsEmptied'
  <2>1. UNCHANGED <<job, emptied>>
    BY <1>3 DEF PollSelect, PollUpdate, Claim, Crash, admin
  <2>2. \A t \in Tasks : message'[t] # "absent" => message[t] # "absent"
    BY <1>3 DEF PollSelect, PollUpdate, Claim, Crash
  <2>3. QED
    BY <2>1, <2>2 DEF GoneIsEmptied
<1>4. ASSUME NEW e \in work, StoreResult(e) \/ StoreRefused(e) \/ TaskFails(e)
      PROVE  GoneIsEmptied'
  BY <1>4 DEF StoreResult, StoreRefused, TaskFails, queue, admin, GoneIsEmptied
<1>5. CASE PruneSelect \/ DeleteResults \/ PruneDies
  BY <1>5 DEF PruneSelect, DeleteResults, PruneDies, queue, GoneIsEmptied
<1>6. CASE DeleteJobs
  <2>1. \A j \in Jobs : job'[j] = job[j] \/ (j \in prune.jobs /\ job'[j] = "pruned")
    BY <1>6 DEF DeleteJobs
  <2>2. UNCHANGED <<message, emptied>> /\ prune.jobs \subseteq emptied
    BY <1>6 DEF DeleteJobs, EmptiedFirst, queue
  <2>3. QED
    BY <1>0, <2>1, <2>2 DEF GoneIsEmptied
<1>7. ASSUME NEW e \in work, Complete(e) PROVE GoneIsEmptied'
  <2>1. UNCHANGED <<job, emptied>> /\ message' = [message EXCEPT ![e.task] = "deleted"]
    BY <1>7 DEF Complete, admin
  <2>2. \A t \in Tasks : message'[t] # "absent" => message[t] # "absent"
    BY <2>1 DEF NotBefore, TypeOK
  <2>3. QED
    BY <2>1, <2>2 DEF GoneIsEmptied
<1>8. CASE UNCHANGED vars
  BY <1>8 DEF vars, GoneIsEmptied
<1>9. QED
  BY <1>1, <1>2, <1>3, <1>4, <1>5, <1>6, <1>7, <1>8 DEF Next, RunTask, Prune

(* What AttemptsPaid says of t stays true while its attempts do, if its    *)
(* last execution does not end for nothing.                                *)
PaidFor(t) ==
  /\ message[t] = "exhausted" => attempts[t] = 0
  /\ Waits(t) /\ rows[t] = 0 => UsedUp(t) <= faults \/ JobOf[t] \in emptied

LEMMA AttemptFrame ==
  ASSUME NEW t \in Tasks, TypeOK, PaidFor(t), faults' \in Nat, faults' >= faults,
         attempts'[t] = attempts[t], message'[t] = message[t],
         emptied \subseteq emptied',
         rows'[t] = 0 => rows[t] = 0 \/ JobOf[t] \in emptied',
         \/ WorkOn(t)' = {} => WorkOn(t) = {}
         \/ faults' > faults
         \/ JobOf[t] \in emptied
         \/ rows'[t] > 0
  PROVE  PaidFor(t)'
<1>1. attempts[t] \in Nat /\ rows[t] \in Nat /\ faults \in Nat /\ Attempts \in Nat
  BY BulkV0Assumption DEF TypeOK
<1>2. Waits(t)' <=> Waits(t)
  BY DEF Waits
<1>3. UsedUp(t) \in Int /\ UsedUp(t)' \in Int
  BY <1>1 DEF UsedUp
<1>4. UsedUp(t)' <= UsedUp(t) + 1
  BY <1>1 DEF UsedUp
<1>5. (WorkOn(t)' = {} => WorkOn(t) = {}) => UsedUp(t)' <= UsedUp(t)
  BY <1>1 DEF UsedUp
<1>6. SUFFICES ASSUME Waits(t)', rows'[t] = 0, JobOf[t] \notin emptied'
               PROVE  UsedUp(t)' <= faults'
  BY DEF PaidFor
<1>7. UsedUp(t) <= faults
  BY <1>2, <1>6 DEF PaidFor
<1>8. CASE WorkOn(t)' = {} => WorkOn(t) = {}
  BY <1>1, <1>3, <1>5, <1>7, <1>8
<1>9. CASE faults' > faults
  BY <1>1, <1>3, <1>4, <1>7, <1>9
<1>10. CASE JobOf[t] \in emptied \/ rows'[t] > 0
  BY <1>6, <1>10
<1>11. QED
  BY <1>8, <1>9, <1>10

(* Every attempt that is over was lost to a fault, unless it left a row.   *)
AttemptsPaid == \A t \in Tasks : PaidFor(t)

(* A poll spends an attempt and starts an execution; the execution ends    *)
(* with a row, by a fault, or for a job that is gone.                      *)
LEMMA PaidStep ==
  ASSUME IInv, GoneIsEmptied, AttemptsPaid, [Next]_vars, NEW t \in Tasks
  PROVE  PaidFor(t)'
<1>0. /\ TypeOK /\ NotBefore /\ ClaimedOnce /\ PaidFor(t)
      /\ faults \in Nat /\ Attempts \in Nat /\ attempts[t] \in Nat
      /\ \A e \in work : e.task \in Tasks
  BY BulkV0Assumption DEF IInv, TypeOK, Executions, AttemptsPaid
<1>a. ASSUME Fault PROVE faults' \in Nat /\ faults' > faults
  BY <1>0, <1>a DEF Fault
<1>b. ASSUME UNCHANGED <<message, attempts, work, rows>>, emptied \subseteq emptied',
             faults' = faults \/ Fault
      PROVE  PaidFor(t)'
  <2>1. WorkOn(t)' = WorkOn(t)
    BY <1>b DEF WorkOn
  <2>2. QED
    BY <1>0, <1>a, <1>b, <2>1, AttemptFrame
<1>c. ASSUME UNCHANGED <<message, attempts, rows, emptied>>, Fault PROVE PaidFor(t)'
  BY <1>0, <1>a, <1>c, AttemptFrame
<1>1. CASE \E j \in Jobs : CreateJob(j) \/ SubmitFails(j) \/ AcceptJob(j)
  BY <1>1, <1>b DEF CreateJob, SubmitFails, AcceptJob, queue
<1>2. ASSUME NEW u \in Tasks, u # t,
             SubmitTask(u) \/ TimeOut(u) \/ Lapse(u) \/ KeepAlive(u)
      PROVE  PaidFor(t)'
  <2>1. /\ message'[t] = message[t] /\ attempts'[t] = attempts[t]
        /\ UNCHANGED <<work, rows, emptied>> /\ (faults' = faults \/ Fault)
    BY <1>2, <1>0 DEF SubmitTask, TimeOut, Lapse, KeepAlive, admin, TypeOK
  <2>2. WorkOn(t)' = WorkOn(t)
    BY <2>1 DEF WorkOn
  <2>3. QED
    BY <1>0, <1>a, <2>1, <2>2, AttemptFrame
<1>3. CASE SubmitTask(t)
  <2>1. message'[t] = "due" /\ attempts'[t] = Attempts /\ faults' = faults
    BY <1>3, <1>0 DEF SubmitTask, TypeOK
  <2>2. QED
    BY <2>1, <1>0 DEF PaidFor, UsedUp
<1>4. CASE TimeOut(t) \/ KeepAlive(t) \/ Lapse(t)
  <2>1. /\ message'[t] \in {"due", "waiting"} /\ message[t] \in {"due", "waiting"}
        /\ UNCHANGED <<attempts, work, rows, emptied>>
    BY <1>4, <1>0 DEF TimeOut, KeepAlive, Lapse, admin, TypeOK
  <2>2. WorkOn(t)' = WorkOn(t)
    BY <2>1 DEF WorkOn
  <2>3. UsedUp(t) \in Int /\ UsedUp(t)' \in Int /\ UsedUp(t)' <= UsedUp(t) + 1
    BY <2>1, <2>2, <1>0 DEF UsedUp
  <2>4. CASE Lapse(t)
    <3>1. faults' = faults + 1
      BY <2>4 DEF Lapse, Fault
    <3>2. QED
      BY <2>1, <2>3, <3>1, <1>0 DEF PaidFor, Waits
  <2>5. CASE TimeOut(t) \/ KeepAlive(t)
    <3>1. faults' = faults /\ UsedUp(t)' <= UsedUp(t)
      BY <2>5, <2>1, <2>2, <1>0 DEF TimeOut, KeepAlive, UsedUp, TypeOK
    <3>2. QED
      BY <2>1, <2>3, <3>1, <1>0 DEF PaidFor, Waits
  <2>6. QED
    BY <1>4, <2>4, <2>5
<1>5. ASSUME NEW r \in Runners, PollSelect(r) PROVE PaidFor(t)'
  BY <1>5, <1>b DEF PollSelect, admin
<1>6. ASSUME NEW r \in Runners, PollUpdate(r) PROVE PaidFor(t)'
  <2> DEFINE claimed == {u \in polling[r] : message[u] = "due"}
             Claimed(u) == [by |-> r, task |-> u, attempt |-> attempts[u], phase |-> "checking"]
  <2>1. /\ work' = work \cup {Claimed(u) : u \in claimed}
        /\ message'[t] = IF t \notin claimed THEN message[t]
                         ELSE IF attempts[t] = 1 THEN "exhausted" ELSE "waiting"
        /\ attempts'[t] = IF t \in claimed THEN attempts[t] - 1 ELSE attempts[t]
        /\ UNCHANGED <<rows, emptied, faults>>
    BY <1>6 DEF PollUpdate, Claim, admin
  <2>2. CASE t \in claimed
    <3>1. Claimed(t) \in WorkOn(t)'
      BY <2>1, <2>2 DEF WorkOn
    <3>2. message[t] = "due" /\ message'[t] # "due" /\ attempts'[t] = attempts[t] - 1
      BY <2>1, <2>2
    <3>3. UsedUp(t)' = UsedUp(t)
      BY <3>1, <3>2, <1>0 DEF UsedUp
    <3>4. message'[t] = "exhausted" => attempts'[t] = 0
      BY <2>1, <2>2, <1>0
    <3>5. QED
      BY <2>1, <3>2, <3>3, <3>4, <1>0 DEF PaidFor, Waits
  <2>3. CASE t \notin claimed
    <3>1. WorkOn(t)' = WorkOn(t)
      BY <2>1, <2>3 DEF WorkOn
    <3>2. QED
      BY <2>1, <2>3, <3>1, <1>0, AttemptFrame
  <2>4. QED
    BY <2>2, <2>3
<1>7. ASSUME NEW r \in Runners, Crash(r) PROVE PaidFor(t)'
  BY <1>7, <1>c DEF Crash, admin
<1>8. ASSUME NEW e \in work, StoreResult(e) PROVE PaidFor(t)'
  <2> DEFINE stored == [e EXCEPT !.phase = "stored"]
  <2>1. /\ work' = (work \ {e}) \cup {stored}
        /\ rows' = [rows EXCEPT ![e.task] = @ + 1]
        /\ UNCHANGED <<message, attempts, emptied, faults>>
    BY <1>8 DEF StoreResult, queue, admin
  <2>2. stored.task = e.task
    BY <1>0 DEF TypeOK, Executions
  <2> HIDE DEF stored
  <2>3. WorkOn(t)' = {} <=> WorkOn(t) = {}
    BY <2>1, <2>2 DEF WorkOn
  <2>4. rows'[t] = 0 => rows[t] = 0
    BY <2>1, <1>0 DEF TypeOK
  <2>5. QED
    BY <2>1, <2>3, <2>4, <1>0, AttemptFrame
<1>9. ASSUME NEW e \in work, StoreRefused(e) PROVE PaidFor(t)'
  <2>1. /\ work' = work \ {e} /\ JobOf[e.task] \notin Recorded
        /\ UNCHANGED <<message, attempts, rows, emptied, faults>>
    BY <1>9 DEF StoreRefused, queue, admin
  <2>2. JobOf[e.task] \in emptied
    <3>1. JobOf[e.task] \in Jobs /\ message[e.task] # "absent"
      BY <1>0, BulkV0Assumption DEF NotBefore
    <3>2. job[JobOf[e.task]] = "pruned"
      BY <1>0, <2>1, <3>1 DEF GoneIsEmptied, Recorded
    <3>3. QED
      BY <3>1, <3>2 DEF GoneIsEmptied
  <2>3. t # e.task => WorkOn(t)' = WorkOn(t)
    BY <2>1 DEF WorkOn
  <2>4. QED
    BY <2>1, <2>2, <2>3, <1>0, AttemptFrame
<1>10. ASSUME NEW e \in work, Complete(e) PROVE PaidFor(t)'
  <2>1. /\ work' = work \ {e} /\ message' = [message EXCEPT ![e.task] = "deleted"]
        /\ UNCHANGED <<attempts, rows, emptied, faults>>
    BY <1>10 DEF Complete, admin
  <2>2. CASE t = e.task
    BY <2>1, <2>2, <1>0 DEF PaidFor, Waits, TypeOK
  <2>3. CASE t # e.task
    <3>1. WorkOn(t)' = WorkOn(t) /\ message'[t] = message[t]
      BY <2>1, <2>3, <1>0 DEF WorkOn, TypeOK
    <3>2. QED
      BY <2>1, <3>1, <1>0, AttemptFrame
  <2>4. QED
    BY <2>2, <2>3
<1>11. ASSUME NEW e \in work, TaskFails(e) PROVE PaidFor(t)'
  BY <1>11, <1>c DEF TaskFails, queue, admin
<1>12. CASE DeleteResults
  <2>1. /\ UNCHANGED <<message, attempts, work, faults>> /\ emptied' = emptied \cup prune.jobs
        /\ rows'[t] = IF JobOf[t] \in prune.jobs THEN 0 ELSE rows[t]
    BY <1>12 DEF DeleteResults, queue
  <2>2. WorkOn(t)' = WorkOn(t)
    BY <2>1 DEF WorkOn
  <2>3. QED
    BY <2>1, <2>2, <1>0, AttemptFrame
<1>13. CASE PruneSelect \/ DeleteJobs \/ PruneDies
  BY <1>13, <1>b DEF PruneSelect, DeleteJobs, PruneDies, queue
<1>14. CASE UNCHANGED vars
  BY <1>14, <1>b DEF vars
<1>15. QED
  BY <1>1, <1>2, <1>3, <1>4, <1>5, <1>6, <1>7, <1>8, <1>9, <1>10, <1>11, <1>12, <1>13, <1>14
     DEF Next, RunTask, Prune

(* Whatever fails and in whichever order: an email whose job is still      *)
(* there is given up without a result only when there were as many lapses, *)
(* crashes and errors as attempts.  JobsComplete rests on it.              *)
THEOREM NeverGivenUpEarly == Spec => []GivenUpForAReason
<1> DEFINE Inv == SelectedAreDone /\ EmptiedFirst /\ GoneIsEmptied /\ AttemptsPaid
<1>1. Init => Inv
  BY DEF Init, SelectedAreDone, EmptiedFirst, GoneIsEmptied, AttemptsPaid, PaidFor, Waits,
         NotPruning
<1>2. IInv /\ IInv' /\ Inv /\ [Next]_vars => Inv'
  BY SelectedStep, EmptiedStep, GoneStep, PaidStep DEF IInv, AttemptsPaid
<1>3. IInv /\ Inv => GivenUpForAReason
  <2> SUFFICES ASSUME IInv, Inv, NEW t \in Tasks, message[t] = "exhausted",
                      WorkOn(t) = {}, rows[t] = 0, JobOf[t] \notin emptied
               PROVE  faults >= Attempts
    BY DEF GivenUpForAReason
  <2>1. UsedUp(t) <= faults /\ attempts[t] = 0
    BY DEF AttemptsPaid, PaidFor, Waits
  <2>2. QED
    BY <2>1, BulkV0Assumption DEF UsedUp, IInv, TypeOK
<1>4. QED
  BY <1>1, <1>2, <1>3, Invariant, PTL DEF Spec

-----------------------------------------------------------------------------
(* Results that are served.                                                *)

(* With at most one row each, a job with an unfinished email has fewer     *)
(* rows than emails.                                                       *)
LEMMA MissingRow ==
  ASSUME TypeOK, NEW j, NEW t \in TasksOf(j), rows[t] = 0,
         \A u \in TasksOf(j) : rows[u] <= 1
  PROVE  JobRows(j) < Cardinality(TasksOf(j))
<1> DEFINE others == TasksOf(j) \ {t}
           first  == {<<u, 1>> : u \in others}
           f      == [u \in others |-> <<u, 1>>]
<1>1. IsFiniteSet(TasksOf(j)) /\ Cardinality(TasksOf(j)) \in Nat
  BY BulkV0Assumption, FS_Subset, FS_CardinalityType DEF TasksOf
<1>2. IsFiniteSet(others) /\ Cardinality(others) = Cardinality(TasksOf(j)) - 1
  BY <1>1, FS_RemoveElement
<1>3. f \in Surjection(others, first)
  BY DEF Surjection
<1>4. IsFiniteSet(first) /\ Cardinality(first) <= Cardinality(others)
  BY <1>2, <1>3, FS_Surjection
<1>5. RowsOf(j) \subseteq first
  <2> SUFFICES ASSUME NEW r \in RowsOf(j) PROVE r \in first
    OBVIOUS
  <2>1. PICK u \in TasksOf(j) : \E i \in 1 .. rows[u] : r = <<u, i>>
    BY DEF RowsOf
  <2>2. rows[u] \in Nat /\ rows[u] <= 1
    BY DEF TypeOK, TasksOf
  <2>3. r = <<u, 1>> /\ u # t
    BY <2>1, <2>2
  <2>4. QED
    BY <2>1, <2>3
<1>6. Cardinality(RowsOf(j)) <= Cardinality(first) /\ Cardinality(RowsOf(j)) \in Nat
  BY <1>4, <1>5, FS_Subset, FS_CardinalityType
<1>7. Cardinality(first) \in Nat /\ Cardinality(others) \in Nat
  BY <1>2, <1>4, FS_CardinalityType
<1>8. QED
  BY <1>1, <1>2, <1>4, <1>6, <1>7 DEF JobRows

(* "Throw an error if the job is still running" (results/mod.rs) is kept   *)
(* until something fails: counting rows tells whether a job is done as     *)
(* long as no email was stored twice, and that takes a fault (RowsBound).  *)
THEOREM ServedUnlessFaults == Spec => [](faults = 0 => ServedWhenDone)
<1>1. TypeOK /\ RowsBound => (faults = 0 => ServedWhenDone)
  <2> SUFFICES ASSUME TypeOK, RowsBound, faults = 0, NEW j \in Jobs, Completed(j),
                      NEW t \in TasksOf(j)
               PROVE  rows[t] > 0
    BY DEF ServedWhenDone
  <2>1. \A u \in TasksOf(j) : rows[u] <= 1 /\ rows[u] \in Nat
    BY DEF RowsBound, TypeOK, TasksOf
  <2>2. JobRows(j) >= Cardinality(TasksOf(j))
    BY DEF Completed
  <2>3. JobRows(j) \in Nat /\ Cardinality(TasksOf(j)) \in Nat
    BY BulkV0Assumption, RowsFinite, FS_Subset, FS_CardinalityType DEF TasksOf
  <2>4. ~ JobRows(j) < Cardinality(TasksOf(j))
    BY <2>2, <2>3
  <2>5. QED
    BY <2>1, <2>4, MissingRow
<1>2. QED
  BY <1>1, TypeCorrect, RowsBounded, PTL
=============================================================================
