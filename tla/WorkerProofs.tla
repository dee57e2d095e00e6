---------------------------- MODULE WorkerProofs ----------------------------
(***************************************************************************)
(* Proofs about Worker, for any processes, tasks, jobs, webhooks, prefetch *)
(* limit, throttle limit and number of faults.                             *)
(***************************************************************************)
EXTENDS Worker, FiniteSetTheorems, TLAPS

FaultCounts == [losses : 0 .. MaxLosses, crashes : 0 .. MaxCrashes,
                stores : 0 .. MaxStoreErrors]

(* A fault below its bound may be counted, and is never forgotten.         *)
LEMMA FaultTypes ==
  ASSUME TypeOK
  PROVE  /\ faults.losses \in Nat /\ faults.crashes \in Nat /\ faults.stores \in Nat
         /\ faults.losses < MaxLosses
              => [faults EXCEPT !.losses = @ + 1] \in FaultCounts
         /\ faults.crashes < MaxCrashes
              => [faults EXCEPT !.crashes = @ + 1] \in FaultCounts
         /\ faults.stores < MaxStoreErrors
              => [faults EXCEPT !.stores = @ + 1] \in FaultCounts
BY WorkerAssumption DEF TypeOK, FaultCounts

(* What a process writes is a frame, and nothing that is written is lost   *)
(* in the process.                                                         *)
LEMMA WriteTypes ==
  ASSUME TypeOK, NEW w \in Workers, NEW t \in Tasks,
         NEW what \in Verbs \cup Answers, Write(w, t, what)
  PROVE  /\ frames' \in SUBSET Frames
         /\ frames \subseteq frames'
         /\ \A f \in frames' : f \in frames \/ (channel[w] = "open" /\ f = Frame(w, t, what))
         /\ channel[w] = "open" => Frame(w, t, what) \in frames'
         /\ channel[w] # "open" => frames' = frames
BY DEF TypeOK, Write, Frame, Frames

LEMMA WriteAdds ==
  ASSUME TypeOK, NEW w \in Workers, NEW t \in Tasks,
         NEW what \in Verbs \cup Answers, Write(w, t, what)
  PROVE  \A f \in frames' :
           f \in frames \/ (channel[w] = "open" /\ f.by = w /\ f.of = t /\ f.what = what)
<1>1. Frame(w, t, what).by = w /\ Frame(w, t, what).of = t /\ Frame(w, t, what).what = what
  BY DEF Frame
<1>2. QED
  BY <1>1, WriteTypes

LEMMA LeaveTypes ==
  ASSUME TypeOK, NEW w \in Workers, NEW t \in Tasks, Leave(w, t)
  PROVE  /\ task' \in [Workers -> [Tasks -> Phases]]
         /\ again' \in [Workers -> [Tasks -> BOOLEAN]]
<1>1. task' \in [Workers -> [Tasks -> Phases]]
  BY DEF TypeOK, Leave, Phases
<1>2. /\ again \in [Workers -> [Tasks -> BOOLEAN]]
      /\ again' = [again EXCEPT ![w] = [again[w] EXCEPT ![t] = FALSE]]
  BY DEF TypeOK, Leave
<1>3. again[w] \in [Tasks -> BOOLEAN]
  BY <1>2
<1>4. [again[w] EXCEPT ![t] = FALSE] \in [Tasks -> BOOLEAN]
  BY <1>3
<1>5. QED
  BY <1>1, <1>2, <1>4

LEMMA TypeStep ==
  ASSUME TypeOK, [Next]_vars
  PROVE  TypeOK'
<1> USE WorkerAssumption DEF TypeOK, broker, run, http
<1>1. ASSUME NEW t \in Tasks, NEW w \in Workers,
             RefuseRequest(t, w) \/ RequestFails(t, w)
      PROVE  TypeOK'
  BY <1>1 DEF RefuseRequest, RequestFails, Answered, Waiting
<1>2. ASSUME NEW t \in Tasks, NEW w \in Workers, Request(t, w)
      PROVE  TypeOK'
  BY <1>2 DEF Request, Places, Waiting
<1>3. ASSUME NEW t \in Tasks, Subscribe(t)
      PROVE  TypeOK'
  BY <1>3 DEF Subscribe, Waiting
<1>4. ASSUME NEW t \in Tasks, ReceiveReply(t)
      PROVE  TypeOK'
  BY <1>4 DEF ReceiveReply, Answered, Answers, Waiting
<1>5. ASSUME NEW j \in Jobs, NEW w \in Workers, CreateJob(j, w)
      PROVE  TypeOK'
  BY <1>5 DEF CreateJob, JobStates
<1>6. ASSUME NEW t \in Tasks, PublishTask(t)
      PROVE  TypeOK'
  BY <1>6 DEF PublishTask, Places
<1>7. ASSUME NEW t \in Tasks, PublishFails(t)
      PROVE  TypeOK'
  BY <1>7 DEF PublishFails, JobStates
<1>8. ASSUME NEW j \in Jobs, AcceptJob(j)
      PROVE  TypeOK'
  BY <1>8 DEF AcceptJob, JobStates
<1>9. ASSUME NEW t \in Tasks, Arrive(t)
      PROVE  TypeOK'
  BY <1>9 DEF Arrive, Places
<1>10. ASSUME NEW w \in Workers, NEW t \in Tasks, Deliver(w, t)
       PROVE  TypeOK'
  BY <1>10 DEF Deliver, HandOver, Places, Phases
<1>11. ASSUME NEW f \in frames, HandleVerb(f)
       PROVE  TypeOK'
  <2>1. f.of \in Tasks
    BY DEF Frames
  <2>2. QED
    BY <1>11, <2>1 DEF HandleVerb, Places
<1>12. ASSUME NEW f \in frames, HandleReply(f)
       PROVE  TypeOK'
  <2>1. f.of \in Tasks
    BY DEF Frames
  <2>2. QED
    BY <1>12, <2>1 DEF HandleReply
<1>13. ASSUME NEW w \in Workers, NEW t \in Tasks, RejectSingleShot(w, t)
       PROVE  TypeOK'
  BY <1>13, WriteTypes DEF RejectSingleShot, Phases, Verbs
<1>14. ASSUME NEW w \in Workers, NEW t \in Tasks, ReplyThrottled(w, t)
       PROVE  TypeOK'
  BY <1>14, WriteTypes, LeaveTypes DEF ReplyThrottled, Answers
<1>15. ASSUME NEW w \in Workers, NEW t \in Tasks, RejectBulk(w, t) \/ RequeueOnce(w, t)
       PROVE  TypeOK'
  BY <1>15, WriteTypes, LeaveTypes DEF RejectBulk, RequeueOnce, Verbs
<1>16. ASSUME NEW w \in Workers, NEW t \in Tasks, StartCheck(w, t)
       PROVE  TypeOK'
  BY <1>16 DEF StartCheck, Phases
<1>17. ASSUME NEW w \in Workers, LoopEnds(w)
       PROVE  TypeOK'
  BY <1>17 DEF LoopEnds, Phases
<1>18. ASSUME NEW w \in Workers, WindowElapses(w)
       PROVE  TypeOK'
  BY <1>18 DEF WindowElapses
<1>19. ASSUME NEW w \in Workers, NEW t \in Tasks, CheckEnds(w, t) \/ WebhookEnds(w, t)
       PROVE  TypeOK'
  <2>1. CASE CheckEnds(w, t) /\ Hooked(t)
    BY <2>1 DEF CheckEnds, Phases
  <2>2. CASE CheckEnds(w, t) /\ ~ Hooked(t)
    BY <2>2 DEF CheckEnds, Phases
  <2>3. CASE WebhookEnds(w, t)
    BY <2>3 DEF WebhookEnds, Phases
  <2>4. QED
    BY <1>19, <2>1, <2>2, <2>3
<1>20. ASSUME NEW w \in Workers, NEW t \in Tasks, Acknowledge(w, t)
       PROVE  TypeOK'
  BY <1>20, WriteTypes DEF Acknowledge, Phases, Outputs, Verbs
<1>21. ASSUME NEW w \in Workers, NEW t \in Tasks,
              Orphaned(w, t) \/ ReplyFails(w, t)
       PROVE  TypeOK'
  BY <1>21, LeaveTypes DEF Orphaned, ReplyFails
<1>22. ASSUME NEW w \in Workers, NEW t \in Tasks, SendReply(w, t)
       PROVE  TypeOK'
  BY <1>22, WriteTypes DEF SendReply, Phases, Answers
<1>23. ASSUME NEW w \in Workers, NEW t \in Tasks, Store(w, t)
       PROVE  TypeOK'
  BY <1>23, LeaveTypes DEF Store
<1>24. ASSUME NEW w \in Workers, NEW t \in Tasks, StoreFails(w, t)
       PROVE  TypeOK'
  BY <1>24, FaultTypes, LeaveTypes DEF StoreFails, FaultCounts
<1>25. ASSUME NEW w \in Workers, BrokerForgets(w)
       PROVE  /\ queue' \in [Tasks -> Places] /\ redelivered' \in [Tasks -> BOOLEAN]
              /\ frames' \in SUBSET Frames
              /\ reply' \in [Tasks -> {"none"} \cup Answers]
  BY <1>25 DEF BrokerForgets, Places
<1>26. ASSUME NEW w \in Workers, LoseConnection(w)
       PROVE  TypeOK'
  BY <1>25, <1>26, FaultTypes DEF LoseConnection, FaultCounts, Channels
<1>27. ASSUME NEW w \in Workers, NoticeLoss(w)
       PROVE  TypeOK'
  BY <1>27 DEF NoticeLoss, Channels, Answered, Waiting
<1>28. ASSUME NEW w \in Workers, Crash(w)
       PROVE  TypeOK'
  <2>1. job' \in [Jobs -> JobStates]
    BY <1>28 DEF Crash, JobStates
  <2>2. /\ task' \in [Workers -> [Tasks -> Phases]]
        /\ again' \in [Workers -> [Tasks -> BOOLEAN]]
    BY <1>28 DEF Crash, Phases
  <2>3. /\ client' \in [Tasks -> {"idle"} \cup Waiting \cup Answered]
        /\ \A t \in Tasks : client'[t] \in Waiting => home'[t] \in Workers
    BY <1>28 DEF Crash, Waiting, Answered
  <2>4. channel' \in [Workers -> Channels] /\ count' \in [Workers -> Nat]
    BY <1>28 DEF Crash, Channels
  <2>5. faults' \in FaultCounts
    BY <1>28, FaultTypes DEF Crash
  <2>6. QED
    BY <1>25, <1>28, <2>1, <2>2, <2>3, <2>4, <2>5 DEF Crash, FaultCounts
<1>29. CASE UNCHANGED vars
  BY <1>29 DEF vars
<1>30. QED
  BY <1>1, <1>2, <1>3, <1>4, <1>5, <1>6, <1>7, <1>8, <1>9, <1>10, <1>11, <1>12,
     <1>13, <1>14, <1>15, <1>16, <1>17, <1>18, <1>19, <1>20, <1>21, <1>22, <1>23,
     <1>24, <1>26, <1>27, <1>28, <1>29
     DEF Next, ServerSteps, BrokerSteps, Requests, LoopSteps, TaskSteps

(* The state of the pipeline is always well typed, and a client that waits *)
(* for a reply waits on the channel of a known process.                    *)
THEOREM TypeCorrect == Spec => []TypeOK
<1>1. Init => TypeOK
  BY WorkerAssumption
     DEF Init, TypeOK, Places, Phases, Outputs, JobStates, Channels, Waiting, Answered,
         Answers
<1>2. TypeOK /\ [Next]_vars => TypeOK'
  BY TypeStep
<1>3. QED
  BY <1>1, <1>2, PTL DEF Spec

-----------------------------------------------------------------------------
(* Custody.                                                                *)

(* Who has a message.  This is Custody with what makes it inductive: a     *)
(* delivery is settled by one frame only, and the redelivered flag that a  *)
(* delivery carries is the message's.                                      *)
Owned ==
  /\ \A w \in Workers, t \in Tasks : queue[t] = w =>
       channel[w] = "open" /\ (task[w][t] \in InHand \/ Sent(w, t, Verbs))
  /\ \A w \in Workers, t \in Tasks : task[w][t] \in InHand =>
       /\ ~ Sent(w, t, Verbs)
       /\ channel[w] = "open" => queue[t] = w /\ again[w][t] = redelivered[t]
  /\ \A f \in frames : channel[f.by] = "open" /\ (f.what \in Verbs => queue[f.of] = f.by)
  /\ \A f, g \in frames : f.what \in Verbs /\ g.what \in Verbs /\ f.of = g.of => f = g
  /\ \A w \in Workers, t \in Tasks :
       channel[w] = "open" /\ task[w][t] \in Settled \cup {"rejected"} =>
         queue[t] = "gone" \/ Sent(w, t, {"ack", "drop"})

(* What nobody asked for yet has left no trace.                            *)
Early ==
  /\ \A t \in Tasks : ~ Bulk(t) /\ client[t] = "idle" => queue[t] = "unsent"
  /\ \A t \in Tasks : queue[t] \in {"unsent", "inflight"} =>
       /\ rows[t] = 0
       /\ \A w \in Workers : task[w][t] = "none"

(* A step that leaves queue, frames, runs and channels alone.              *)
LEMMA OwnedFrame ==
  ASSUME Owned, UNCHANGED <<queue, redelivered, frames, channel, task, again>>
  PROVE  Owned'
BY DEF Owned, Sent

(* Frames name processes and tasks.                                        *)
LEMMA FrameParts ==
  ASSUME TypeOK, NEW f \in frames
  PROVE  /\ f.by \in Workers /\ f.of \in Tasks /\ f.what \in Verbs \cup Answers
         /\ f.by \notin {"unsent", "inflight", "ready", "gone"}
BY WorkerAssumption DEF TypeOK, Frames

(* A delivery in hand is settled: its process writes one frame about it.   *)
LEMMA SettleStep ==
  ASSUME TypeOK, Owned, NEW w \in Workers, NEW t \in Tasks, NEW v \in Verbs, NEW p,
         task[w][t] \in InHand, Write(w, t, v),
         task' = [task EXCEPT ![w][t] = p],
         \/ p = "none"
         \/ p \in Settled \cup {"rejected"} /\ v \in {"ack", "drop"},
         \A u \in Workers, s \in Tasks : u # w \/ s # t => again'[u][s] = again[u][s],
         UNCHANGED <<queue, redelivered, channel>>
  PROVE  Owned'
<1> USE DEF Owned, Sent
<1>0. p \notin InHand /\ "none" \notin Settled \cup {"rejected"}
  BY DEF InHand, Settled
<1>1. /\ frames \subseteq frames'
      /\ \A f \in frames' : f \in frames \/ (channel[w] = "open" /\ f = Frame(w, t, v))
      /\ channel[w] = "open" => Frame(w, t, v) \in frames'
  BY WriteTypes
<1>2. Frame(w, t, v).by = w /\ Frame(w, t, v).of = t /\ Frame(w, t, v).what = v
  BY DEF Frame
<1>3. \A u \in Workers, s \in Tasks : task'[u][s] = IF u = w /\ s = t THEN p ELSE task[u][s]
  BY DEF TypeOK
<1>4. channel[w] = "open" => queue[t] = w
  OBVIOUS
<1>5. \A f \in frames : f.by \in Workers /\ f.of \in Tasks
  BY FrameParts
<1>6. \A f \in frames : f.what \in Verbs => f.of # t \/ channel[w] # "open"
  BY <1>4, <1>5
<1>7. \A u \in Workers, s \in Tasks : queue'[s] = u =>
        channel'[u] = "open" /\ (task'[u][s] \in InHand \/ Sent(u, s, Verbs)')
  BY <1>1, <1>2, <1>3, <1>4
<1>8. \A u \in Workers, s \in Tasks : task'[u][s] \in InHand =>
        /\ ~ Sent(u, s, Verbs)'
        /\ channel'[u] = "open" => queue'[s] = u /\ again'[u][s] = redelivered'[s]
  BY <1>0, <1>1, <1>2, <1>3
<1>9. \A f \in frames' : channel'[f.by] = "open" /\ (f.what \in Verbs => queue'[f.of] = f.by)
  BY <1>1, <1>2, <1>4
<1>10. \A f, g \in frames' : f.what \in Verbs /\ g.what \in Verbs /\ f.of = g.of => f = g
  BY <1>1, <1>2, <1>6
<1>11. \A u \in Workers, s \in Tasks :
         channel'[u] = "open" /\ task'[u][s] \in Settled \cup {"rejected"} =>
           queue'[s] = "gone" \/ Sent(u, s, {"ack", "drop"})'
  BY <1>0, <1>1, <1>2, <1>3
<1>12. QED
  BY <1>7, <1>8, <1>9, <1>10, <1>11

(* A run goes on without a word about its delivery, or ends where there is *)
(* nothing left to settle.                                                 *)
LEMMA RunStep ==
  ASSUME TypeOK, Owned, NEW w \in Workers, NEW t \in Tasks, NEW p,
         task' = [task EXCEPT ![w][t] = p],
         \A u \in Workers, s \in Tasks :
           u # w \/ s # t \/ p \in InHand => again'[u][s] = again[u][s],
         \/ p \in InHand /\ task[w][t] \in InHand
         \/ p \in Settled \cup {"none"} /\ task[w][t] \in Settled \cup {"rejected"}
         \/ p = "none" /\ channel[w] # "open",
         UNCHANGED <<queue, redelivered, channel>>,
         frames \subseteq frames',
         \A f \in frames' : f \in frames \/ (channel[f.by] = "open" /\ f.what \in Answers)
  PROVE  Owned'
<1> USE DEF Owned, Sent
<1>1. /\ "none" \notin InHand /\ "none" \notin Settled \cup {"rejected"}
      /\ \A q \in InHand : q \notin Settled \cup {"rejected"}
      /\ \A a \in Answers : a \notin Verbs
  BY DEF InHand, Settled, Answers, Verbs
<1>2. \A u \in Workers, s \in Tasks : task'[u][s] = IF u = w /\ s = t THEN p ELSE task[u][s]
  BY DEF TypeOK
<1>3. \A u \in Workers, s \in Tasks, V \in SUBSET Verbs : Sent(u, s, V)' <=> Sent(u, s, V)
  BY <1>1
<1>4. Verbs \in SUBSET Verbs /\ {"ack", "drop"} \in SUBSET Verbs
  BY DEF Verbs
<1>5. \A u \in Workers, s \in Tasks : queue'[s] = u =>
        channel'[u] = "open" /\ (task'[u][s] \in InHand \/ Sent(u, s, Verbs)')
  BY <1>1, <1>2, <1>3, <1>4
<1>6. \A u \in Workers, s \in Tasks : task'[u][s] \in InHand =>
        /\ ~ Sent(u, s, Verbs)'
        /\ channel'[u] = "open" => queue'[s] = u /\ again'[u][s] = redelivered'[s]
  BY <1>1, <1>2, <1>3, <1>4
<1>7. /\ \A f \in frames' : channel'[f.by] = "open" /\ (f.what \in Verbs => queue'[f.of] = f.by)
      /\ \A f, g \in frames' : f.what \in Verbs /\ g.what \in Verbs /\ f.of = g.of => f = g
  BY <1>1
<1>8. \A u \in Workers, s \in Tasks :
        channel'[u] = "open" /\ task'[u][s] \in Settled \cup {"rejected"} =>
          queue'[s] = "gone" \/ Sent(u, s, {"ack", "drop"})'
  BY <1>1, <1>2, <1>3, <1>4
<1>9. QED
  BY <1>5, <1>6, <1>7, <1>8

(* A message that is on its way, in the queue or nowhere has no holder.    *)
LEMMA NotHeld ==
  ASSUME TypeOK, Owned, NEW t \in Tasks,
         queue[t] \in {"unsent", "inflight", "ready", "gone"}
  PROVE  /\ \A w \in Workers : queue[t] # w /\ ~ Sent(w, t, Verbs)
         /\ \A w \in Workers : channel[w] = "open" => task[w][t] \notin InHand
BY WorkerAssumption, FrameParts DEF Owned, Sent

(* The message of a task moves towards the queue, or leaves it unheld.     *)
LEMMA MessageStep ==
  ASSUME TypeOK, Owned, NEW t \in Tasks, NEW p \in {"inflight", "ready", "gone"},
         queue[t] \in {"unsent", "inflight"},
         queue' = [queue EXCEPT ![t] = p],
         UNCHANGED <<redelivered, frames, channel, task, again>>
  PROVE  Owned'
<1>1. \A w \in Workers : queue'[t] # w
  BY WorkerAssumption DEF TypeOK
<1>2. \A s \in Tasks \ {t} : queue'[s] = queue[s]
  BY DEF TypeOK
<1>3. queue[t] # "gone" /\ \A w \in Workers : queue[t] # w
  BY WorkerAssumption
<1>4. \A f \in frames : f.by \in Workers /\ f.of \in Tasks
  BY FrameParts
<1>5. \A w \in Workers : ~ Sent(w, t, Verbs) /\ ~ Sent(w, t, {"ack", "drop"})
  BY NotHeld DEF Sent, Verbs
<1>6. \A w \in Workers, s \in Tasks : queue'[s] = w =>
        channel'[w] = "open" /\ (task'[w][s] \in InHand \/ Sent(w, s, Verbs)')
  BY <1>1, <1>2 DEF Owned, Sent
<1>7. \A w \in Workers, s \in Tasks : task'[w][s] \in InHand =>
        /\ ~ Sent(w, s, Verbs)'
        /\ channel'[w] = "open" => queue'[s] = w /\ again'[w][s] = redelivered'[s]
  BY <1>2, <1>3 DEF Owned, Sent
<1>8. /\ \A f \in frames' : channel'[f.by] = "open" /\ (f.what \in Verbs => queue'[f.of] = f.by)
      /\ \A f, g \in frames' : f.what \in Verbs /\ g.what \in Verbs /\ f.of = g.of => f = g
  BY <1>2, <1>4, <1>5 DEF Owned, Sent
<1>9. \A w \in Workers, s \in Tasks :
        channel'[w] = "open" /\ task'[w][s] \in Settled \cup {"rejected"} =>
          queue'[s] = "gone" \/ Sent(w, s, {"ack", "drop"})'
  BY <1>2, <1>3, <1>5 DEF Owned, Sent
<1>10. QED
  BY <1>6, <1>7, <1>8, <1>9 DEF Owned

LEMMA DeliverStep ==
  ASSUME TypeOK, Owned, NEW w \in Workers, NEW t \in Tasks, Deliver(w, t)
  PROVE  /\ task[w][t] = "none"
         /\ Owned'
<1> USE DEF Owned, Sent
<1>1. /\ channel[w] = "open" /\ queue[t] = "ready"
      /\ UNCHANGED <<redelivered, frames, channel>>
  BY DEF Deliver
<1>2. /\ task' = [task EXCEPT ![w][t] = "delivered"]
      /\ again' = [again EXCEPT ![w][t] = redelivered[t]]
      /\ queue' = [queue EXCEPT ![t] = w]
  BY DEF Deliver, HandOver
<1>3. \A v \in Workers : queue[t] # v /\ ~ Sent(v, t, Verbs) /\ ~ Sent(v, t, {"ack", "drop"})
  BY <1>1, NotHeld DEF Verbs
<1>4. task[w][t] \notin InHand \cup Settled \cup {"rejected"}
  BY <1>1, <1>3
<1>5. task[w][t] = "none"
  BY <1>4 DEF TypeOK, Phases, InHand, Settled
<1>6. \A v \in Workers, s \in Tasks : v # w \/ s # t =>
        task'[v][s] = task[v][s] /\ again'[v][s] = again[v][s]
  BY <1>2 DEF TypeOK
<1>7. task'[w][t] = "delivered" /\ again'[w][t] = redelivered[t]
  BY <1>2 DEF TypeOK
<1>8. queue'[t] = w /\ \A s \in Tasks \ {t} : queue'[s] = queue[s]
  BY <1>2 DEF TypeOK
<1>9. "delivered" \in InHand /\ "delivered" \notin Settled \cup {"rejected"}
  BY DEF InHand, Settled
<1>10. \A v \in Workers, s \in Tasks : queue'[s] = v =>
         channel'[v] = "open" /\ (task'[v][s] \in InHand \/ Sent(v, s, Verbs)')
  BY <1>1, <1>6, <1>7, <1>8, <1>9
<1>11. \A v \in Workers, s \in Tasks : task'[v][s] \in InHand =>
         /\ ~ Sent(v, s, Verbs)'
         /\ channel'[v] = "open" => queue'[s] = v /\ again'[v][s] = redelivered'[s]
  BY <1>1, <1>3, <1>6, <1>7, <1>8
<1>12. \A f \in frames : f.by \in Workers /\ f.of \in Tasks
  BY FrameParts
<1>13. /\ \A f \in frames' : channel'[f.by] = "open" /\ (f.what \in Verbs => queue'[f.of] = f.by)
       /\ \A f, g \in frames' : f.what \in Verbs /\ g.what \in Verbs /\ f.of = g.of => f = g
  BY <1>1, <1>3, <1>8, <1>12
<1>14. \A v \in Workers, s \in Tasks :
         channel'[v] = "open" /\ task'[v][s] \in Settled \cup {"rejected"} =>
           queue'[s] = "gone" \/ Sent(v, s, {"ack", "drop"})'
  <2> SUFFICES ASSUME NEW v \in Workers, NEW s \in Tasks, channel'[v] = "open",
                      task'[v][s] \in Settled \cup {"rejected"}
               PROVE  queue'[s] = "gone" \/ Sent(v, s, {"ack", "drop"})'
    OBVIOUS
  <2>1. v # w \/ s # t
    BY <1>7, <1>9
  <2>2. channel[v] = "open" /\ task[v][s] \in Settled \cup {"rejected"}
    BY <1>1, <1>6, <2>1
  <2>3. queue[s] = "gone" \/ Sent(v, s, {"ack", "drop"})
    BY <2>2
  <2>4. s # t
    BY <1>1, <1>3, <2>3
  <2>5. QED
    BY <1>1, <1>8, <2>3, <2>4
<1>15. QED
  BY <1>5, <1>10, <1>11, <1>13, <1>14

(* The broker settles a delivery.                                          *)
LEMMA HandleVerbStep ==
  ASSUME TypeOK, Owned, NEW f \in frames, HandleVerb(f)
  PROVE  Owned'
<1> USE DEF Owned, Sent
<1> DEFINE t == f.of
           w == f.by
<1>1. /\ w \in Workers /\ t \in Tasks /\ f.what \in Verbs /\ queue[t] = w
      /\ channel[w] = "open"
  BY FrameParts DEF HandleVerb
<1>2. /\ frames' = frames \ {f} /\ UNCHANGED <<channel, task, again>>
      /\ redelivered' = [redelivered EXCEPT ![t] = @ \/ f.what = "requeue"]
      /\ queue' = [queue EXCEPT ![t] = IF f.what = "requeue" THEN "ready" ELSE "gone"]
  BY DEF HandleVerb, run
<1>3. /\ \A s \in Tasks \ {t} : queue'[s] = queue[s] /\ redelivered'[s] = redelivered[s]
      /\ queue'[t] \in {"ready", "gone"}
      /\ f.what # "requeue" => queue'[t] = "gone"
  BY <1>1, <1>2 DEF TypeOK
<1>4. \A v \in Workers : task[v][t] \in InHand => channel[v] # "open"
  BY <1>1
<1>5. \A g \in frames' : g \in frames /\ g # f /\ (g.what \in Verbs => g.of # t)
  BY <1>1, <1>2
<1>6. \A g \in frames : g.by \in Workers /\ g.of \in Tasks
  BY FrameParts
<1>7. \A v \in Workers, s \in Tasks : queue'[s] = v =>
        channel'[v] = "open" /\ (task'[v][s] \in InHand \/ Sent(v, s, Verbs)')
  <2> SUFFICES ASSUME NEW v \in Workers, NEW s \in Tasks, queue'[s] = v
               PROVE  channel'[v] = "open" /\ (task'[v][s] \in InHand \/ Sent(v, s, Verbs)')
    OBVIOUS
  <2>1. s # t
    BY <1>3, WorkerAssumption
  <2>2. queue[s] = v
    BY <1>3, <2>1
  <2>3. QED
    BY <1>2, <2>1, <2>2
<1>8. \A v \in Workers, s \in Tasks : task'[v][s] \in InHand =>
        /\ ~ Sent(v, s, Verbs)'
        /\ channel'[v] = "open" => queue'[s] = v /\ again'[v][s] = redelivered'[s]
  BY <1>2, <1>3, <1>4, <1>5
<1>9. /\ \A g \in frames' : channel'[g.by] = "open" /\ (g.what \in Verbs => queue'[g.of] = g.by)
      /\ \A g, h \in frames' : g.what \in Verbs /\ h.what \in Verbs /\ g.of = h.of => g = h
  BY <1>2, <1>3, <1>5, <1>6
<1>10. \A v \in Workers, s \in Tasks :
         channel'[v] = "open" /\ task'[v][s] \in Settled \cup {"rejected"} =>
           queue'[s] = "gone" \/ Sent(v, s, {"ack", "drop"})'
  <2> SUFFICES ASSUME NEW v \in Workers, NEW s \in Tasks, channel[v] = "open",
                      task[v][s] \in Settled \cup {"rejected"}
               PROVE  queue'[s] = "gone" \/ Sent(v, s, {"ack", "drop"})'
    BY <1>2
  <2>1. queue[s] = "gone" \/ Sent(v, s, {"ack", "drop"})
    OBVIOUS
  <2>2. CASE s # t
    BY <1>2, <1>3, <2>1, <2>2
  <2>3. CASE s = t
    <3>1. queue[t] # "gone"
      BY <1>1, WorkerAssumption
    <3>2. PICK g \in frames : g.of = t /\ g.what \in {"ack", "drop"}
      BY <2>1, <2>3, <3>1
    <3>3. g = f
      BY <1>1, <3>2 DEF Verbs
    <3>4. QED
      BY <1>3, <2>3, <3>2, <3>3
  <2>4. QED
    BY <2>2, <2>3
<1>11. QED
  BY <1>7, <1>8, <1>9, <1>10

(* What the broker does when it gives a connection up, and what is left of *)
(* the runs if the process goes on or dies with it.                        *)
LEMMA ForgetStep ==
  ASSUME TypeOK, Owned, NEW w \in Workers, BrokerForgets(w),
         \A v \in Workers, t \in Tasks : v # w =>
           task'[v][t] = task[v][t] /\ again'[v][t] = again[v][t],
         \A v \in Workers : v # w => channel'[v] = channel[v],
         \/ channel'[w] # "open" /\ UNCHANGED task
         \/ \A t \in Tasks : task'[w][t] = "none"
  PROVE  Owned'
<1> USE DEF Owned, Sent
<1>1. /\ \A t \in Tasks :
           /\ queue[t] = w => queue'[t] = "ready"
           /\ queue'[t] \in {queue[t], "ready", "gone"}
           /\ queue'[t] # queue[t] => queue[t] \in {w, "inflight"}
           /\ queue[t] # w => redelivered'[t] = redelivered[t]
      /\ frames' = {f \in frames : f.by # w}
  <2>1. /\ redelivered \in [Tasks -> BOOLEAN]
        /\ redelivered' = [t \in Tasks |-> redelivered[t] \/ queue[t] = w]
    BY DEF BrokerForgets, TypeOK
  <2>2. \A t \in Tasks : queue[t] # w => redelivered'[t] = redelivered[t]
    BY <2>1
  <2>3. QED
    BY <2>2, WorkerAssumption DEF BrokerForgets
<1>2. \A f \in frames : f.by \in Workers /\ f.of \in Tasks
  BY FrameParts
<1>3. \A t \in Tasks : queue'[t] # w
  BY <1>1, WorkerAssumption
<1>4. \A v \in Workers, t \in Tasks : queue'[t] = v => v # w /\ queue[t] = v
  BY <1>1, <1>3, WorkerAssumption
<1>5. \A v \in Workers, t \in Tasks : v # w /\ queue[t] = v => queue'[t] = v
  BY <1>1, WorkerAssumption
<1>6. "none" \notin InHand \cup Settled \cup {"rejected"}
  BY DEF InHand, Settled
<1>7. \A v \in Workers, t \in Tasks : queue'[t] = v =>
        channel'[v] = "open" /\ (task'[v][t] \in InHand \/ Sent(v, t, Verbs)')
  BY <1>1, <1>4
<1>8. \A v \in Workers, t \in Tasks : task'[v][t] \in InHand =>
        /\ ~ Sent(v, t, Verbs)'
        /\ channel'[v] = "open" => queue'[t] = v /\ again'[v][t] = redelivered'[t]
  <2> SUFFICES ASSUME NEW v \in Workers, NEW t \in Tasks, task'[v][t] \in InHand
               PROVE  /\ ~ Sent(v, t, Verbs)'
                      /\ channel'[v] = "open" => queue'[t] = v /\ again'[v][t] = redelivered'[t]
    OBVIOUS
  <2>1. CASE v = w
    BY <1>1, <1>6, <2>1
  <2>2. CASE v # w
    BY <1>1, <1>5, <2>2
  <2>3. QED
    BY <2>1, <2>2
<1>9. /\ \A g \in frames' : channel'[g.by] = "open" /\ (g.what \in Verbs => queue'[g.of] = g.by)
      /\ \A g, h \in frames' : g.what \in Verbs /\ h.what \in Verbs /\ g.of = h.of => g = h
  BY <1>1, <1>2, <1>5
<1>10. \A v \in Workers, t \in Tasks :
         channel'[v] = "open" /\ task'[v][t] \in Settled \cup {"rejected"} =>
           queue'[t] = "gone" \/ Sent(v, t, {"ack", "drop"})'
  <2> SUFFICES ASSUME NEW v \in Workers, NEW t \in Tasks, channel'[v] = "open",
                      task'[v][t] \in Settled \cup {"rejected"}
               PROVE  queue'[t] = "gone" \/ Sent(v, t, {"ack", "drop"})'
    OBVIOUS
  <2>1. v # w /\ channel[v] = "open" /\ task[v][t] \in Settled \cup {"rejected"}
    BY <1>6
  <2>2. queue[t] = "gone" \/ Sent(v, t, {"ack", "drop"})
    BY <2>1
  <2>3. CASE queue[t] = "gone"
    BY <1>1, <2>3, WorkerAssumption
  <2>4. CASE Sent(v, t, {"ack", "drop"})
    BY <1>1, <2>1, <2>4
  <2>5. QED
    BY <2>2, <2>3, <2>4
<1>11. QED
  BY <1>7, <1>8, <1>9, <1>10

LEMMA OwnedStep ==
  ASSUME TypeOK, Owned, Early, [Next]_vars
  PROVE  Owned'
<1> USE DEF broker, run, http
<1>1. CASE UNCHANGED <<queue, redelivered, frames, channel, task, again>>
  BY <1>1, OwnedFrame
<1>2. ASSUME NEW t \in Tasks, NEW w \in Workers,
             RefuseRequest(t, w) \/ RequestFails(t, w)
      PROVE  Owned'
  BY <1>1, <1>2 DEF RefuseRequest, RequestFails
<1>3. ASSUME NEW t \in Tasks, NEW w \in Workers, Request(t, w)
      PROVE  Owned'
  <2>1. queue[t] = "unsent"
    BY <1>3 DEF Request, Early
  <2>2. QED
    BY <1>3, <2>1, MessageStep DEF Request
<1>4. ASSUME NEW t \in Tasks, PublishTask(t) \/ Arrive(t)
      PROVE  Owned'
  BY <1>4, MessageStep DEF PublishTask, Arrive
<1>5. ASSUME NEW w \in Workers, NEW t \in Tasks, Deliver(w, t)
      PROVE  Owned'
  BY <1>5, DeliverStep
<1>6. ASSUME NEW f \in frames, HandleVerb(f)
      PROVE  Owned'
  BY <1>6, HandleVerbStep
<1>7. ASSUME NEW f \in frames, HandleReply(f)
      PROVE  Owned'
  <2>1. frames' = frames \ {f} /\ f.what \notin Verbs
    BY <1>7 DEF HandleReply, Answers, Verbs
  <2>2. \A w \in Workers, t \in Tasks :
          /\ Sent(w, t, Verbs)' <=> Sent(w, t, Verbs)
          /\ Sent(w, t, {"ack", "drop"})' <=> Sent(w, t, {"ack", "drop"})
    BY <2>1 DEF Sent, Verbs
  <2>3. UNCHANGED <<queue, redelivered, channel, task, again>>
    BY <1>7 DEF HandleReply
  <2>4. QED
    BY <2>1, <2>2, <2>3 DEF Owned
<1>8. ASSUME NEW w \in Workers, NEW t \in Tasks, RejectSingleShot(w, t)
      PROVE  Owned'
  <2>1. /\ task[w][t] \in InHand /\ Write(w, t, "drop")
        /\ task' = [task EXCEPT ![w][t] = "rejected"]
        /\ UNCHANGED <<queue, redelivered, channel, again>>
    BY <1>8 DEF RejectSingleShot, Refuses, InHand
  <2>2. "drop" \in Verbs
    BY DEF Verbs
  <2>3. QED
    BY <2>1, <2>2, SettleStep
<1>9. ASSUME NEW w \in Workers, NEW t \in Tasks, Leave(w, t)
      PROVE  /\ task' = [task EXCEPT ![w][t] = "none"]
             /\ \A v \in Workers, s \in Tasks : v # w \/ s # t => again'[v][s] = again[v][s]
  BY <1>9 DEF Leave, TypeOK
<1>10. ASSUME NEW w \in Workers, NEW t \in Tasks, RejectBulk(w, t) \/ RequeueOnce(w, t)
       PROVE  Owned'
  <2>1. /\ task[w][t] \in InHand /\ Write(w, t, "requeue") /\ Leave(w, t)
        /\ UNCHANGED <<queue, redelivered, channel>>
    BY <1>10 DEF RejectBulk, RequeueOnce, Refuses, InHand
  <2>2. QED
    BY <1>9, <2>1, SettleStep DEF Verbs
<1>11. ASSUME NEW w \in Workers, NEW t \in Tasks, Acknowledge(w, t)
       PROVE  Owned'
  <2>1. /\ task[w][t] \in InHand /\ Write(w, t, "ack")
        /\ task' = [task EXCEPT ![w][t] = "acked"]
        /\ UNCHANGED <<queue, redelivered, channel, again>>
    BY <1>11 DEF Acknowledge, InHand
  <2>2. "ack" \in Verbs /\ "acked" \in Settled
    BY DEF Verbs, Settled
  <2>3. QED
    BY <2>1, <2>2, SettleStep
<1>12. ASSUME NEW w \in Workers, NEW t \in Tasks, NEW a \in Answers, Write(w, t, a)
       PROVE  /\ frames \subseteq frames'
              /\ \A f \in frames' : f \in frames \/ (channel[f.by] = "open" /\ f.what \in Answers)
  BY <1>12, WriteTypes, WriteAdds
<1>13. ASSUME NEW w \in Workers, NEW t \in Tasks, ReplyThrottled(w, t)
       PROVE  Owned'
  <2>1. /\ task[w][t] = "rejected" /\ Leave(w, t) /\ Write(w, t, "throttled")
        /\ UNCHANGED <<queue, redelivered, channel>>
    BY <1>13 DEF ReplyThrottled
  <2>2. "throttled" \in Answers /\ "none" \notin InHand
    BY DEF Answers, InHand
  <2>3. QED
    BY <1>9, <1>12, <2>1, <2>2, RunStep
<1>14. ASSUME NEW w \in Workers, NEW t \in Tasks, SendReply(w, t)
       PROVE  Owned'
  <2>1. /\ task[w][t] = "acked" /\ Write(w, t, "result")
        /\ task' = [task EXCEPT ![w][t] = "replied"]
        /\ UNCHANGED <<queue, redelivered, channel, again>>
    BY <1>14 DEF SendReply
  <2>2. "result" \in Answers /\ "acked" \in Settled /\ "replied" \in Settled
    BY DEF Answers, Settled
  <2>3. QED
    BY <1>12, <2>1, <2>2, RunStep
<1>15. ASSUME NEW w \in Workers, NEW t \in Tasks, StartCheck(w, t) \/ WebhookEnds(w, t)
       PROVE  Owned'
  <2>1. PICK p \in InHand : task' = [task EXCEPT ![w][t] = p]
    BY <1>15 DEF StartCheck, WebhookEnds, InHand
  <2>2. task[w][t] \in InHand /\ UNCHANGED <<queue, redelivered, frames, channel, again>>
    BY <1>15 DEF StartCheck, WebhookEnds, InHand
  <2>3. QED
    BY <2>1, <2>2, RunStep
<1>16. ASSUME NEW w \in Workers, NEW t \in Tasks, CheckEnds(w, t)
       PROVE  Owned'
  <2>1. PICK p \in InHand : task' = [task EXCEPT ![w][t] = p]
    BY <1>16 DEF CheckEnds, InHand
  <2>2. task[w][t] \in InHand /\ UNCHANGED <<queue, redelivered, frames, channel, again>>
    BY <1>16 DEF CheckEnds, InHand
  <2>3. QED
    BY <2>1, <2>2, RunStep
<1>17. ASSUME NEW w \in Workers, NEW t \in Tasks, Orphaned(w, t)
       PROVE  Owned'
  <2>1. /\ Leave(w, t) /\ channel[w] # "open"
        /\ UNCHANGED <<queue, redelivered, frames, channel>>
    BY <1>17 DEF Orphaned
  <2>2. "none" \notin InHand
    BY DEF InHand
  <2>3. QED
    BY <1>9, <2>1, <2>2, RunStep
<1>18. ASSUME NEW w \in Workers, NEW t \in Tasks,
              ReplyFails(w, t) \/ Store(w, t) \/ StoreFails(w, t)
       PROVE  Owned'
  <2>1. /\ Leave(w, t) /\ task[w][t] \in Settled
        /\ UNCHANGED <<queue, redelivered, frames, channel>>
    BY <1>18 DEF ReplyFails, Store, StoreFails, ToStore, Settled
  <2>2. "none" \notin InHand
    BY DEF InHand
  <2>3. QED
    BY <1>9, <2>1, <2>2, RunStep
<1>19. ASSUME NEW w \in Workers, LoopEnds(w)
       PROVE  Owned'
  <2>1. /\ channel[w] # "open" /\ UNCHANGED <<queue, redelivered, frames, channel>>
        /\ \A v \in Workers, t \in Tasks : v # w =>
             task'[v][t] = task[v][t] /\ again'[v][t] = again[v][t]
    BY <1>19 DEF LoopEnds, TypeOK
  <2>2. \A t \in Tasks : task'[w][t] \in {task[w][t], "none"}
    BY <1>19 DEF LoopEnds, TypeOK
  <2>3. "none" \notin InHand
    BY DEF InHand
  <2>4. QED
    BY <2>1, <2>2, <2>3 DEF Owned, Sent
<1>20. ASSUME NEW w \in Workers, LoseConnection(w)
       PROVE  Owned'
  <2>1. /\ channel'[w] = "lost" /\ UNCHANGED <<task, again>> /\ BrokerForgets(w)
        /\ \A v \in Workers : v # w => channel'[v] = channel[v]
    BY <1>20 DEF LoseConnection, TypeOK
  <2>2. QED
    BY <2>1, ForgetStep
<1>21. ASSUME NEW w \in Workers, NoticeLoss(w)
       PROVE  Owned'
  <2>1. /\ channel[w] # "open" /\ UNCHANGED <<queue, redelivered, frames, task, again>>
        /\ \A v \in Workers : channel'[v] = "open" <=> channel[v] = "open"
    BY <1>21 DEF NoticeLoss, TypeOK
  <2>2. \A f \in frames : f.by \in Workers
    BY FrameParts
  <2>3. QED
    BY <2>1, <2>2 DEF Owned, Sent
<1>22. ASSUME NEW w \in Workers, Crash(w)
       PROVE  Owned'
  <2>1. /\ BrokerForgets(w)
        /\ \A v \in Workers, t \in Tasks : v # w =>
             task'[v][t] = task[v][t] /\ again'[v][t] = again[v][t]
        /\ \A v \in Workers : v # w => channel'[v] = channel[v]
        /\ \A t \in Tasks : task'[w][t] = "none"
    BY <1>22 DEF Crash, TypeOK
  <2>2. QED
    BY <2>1, ForgetStep
<1>23. QED
  BY <1>1, <1>2, <1>3, <1>4, <1>5, <1>6, <1>7, <1>8, <1>10, <1>11, <1>13, <1>14,
     <1>15, <1>16, <1>17, <1>18, <1>19, <1>20, <1>21, <1>22
     DEF Next, ServerSteps, BrokerSteps, Requests, LoopSteps, TaskSteps, Subscribe,
         ReceiveReply, CreateJob, PublishFails, AcceptJob, WindowElapses, vars

(* A step that takes messages only forward, and touches nothing else of a  *)
(* message that is not in the queue yet.                                   *)
LEMMA EarlyFrame ==
  ASSUME Early,
         \A t \in Tasks : queue'[t] \in {"unsent", "inflight"} =>
           /\ queue[t] \in {"unsent", "inflight"}
           /\ \A w \in Workers : task[w][t] = "none" => task'[w][t] = "none"
           /\ rows'[t] = rows[t] \/ \E w \in Workers : task[w][t] # "none",
         \A t \in Tasks : ~ Bulk(t) /\ client'[t] = "idle" =>
           client[t] = "idle" /\ queue'[t] = queue[t]
  PROVE  Early'
BY DEF Early, Bulk

LEMMA EarlyStep ==
  ASSUME TypeOK, Owned, Early, [Next]_vars
  PROVE  Early'
<1> USE DEF broker, run, http
<1>1. CASE UNCHANGED <<queue, task, rows, client>>
  BY <1>1, EarlyFrame
<1>2. ASSUME NEW t \in Tasks, NEW w \in Workers,
             RefuseRequest(t, w) \/ Request(t, w) \/ RequestFails(t, w)
      PROVE  Early'
  <2>1. \A s \in Tasks : client'[s] = "idle" => client[s] = "idle" /\ queue'[s] = queue[s]
    BY <1>2 DEF RefuseRequest, Request, RequestFails, TypeOK
  <2>2. queue[t] \in {"unsent", "inflight"}
    BY <1>2 DEF RefuseRequest, Request, RequestFails, Early
  <2>3. \A s \in Tasks : queue'[s] \in {"unsent", "inflight"} =>
          queue[s] \in {"unsent", "inflight"}
    BY <1>2, <2>2 DEF RefuseRequest, Request, RequestFails, TypeOK
  <2>4. UNCHANGED <<task, rows>>
    BY <1>2 DEF RefuseRequest, Request, RequestFails
  <2>5. QED
    BY <2>1, <2>3, <2>4, EarlyFrame
<1>3. ASSUME NEW t \in Tasks, Subscribe(t) \/ ReceiveReply(t)
      PROVE  Early'
  <2>1. \A s \in Tasks : client'[s] = "idle" => client[s] = "idle"
    BY <1>3 DEF Subscribe, ReceiveReply, TypeOK, Answers
  <2>2. UNCHANGED <<queue, task, rows>>
    BY <1>3 DEF Subscribe, ReceiveReply
  <2>3. QED
    BY <2>1, <2>2, EarlyFrame
<1>4. ASSUME NEW t \in Tasks, PublishTask(t)
      PROVE  Early'
  <2>1. Bulk(t) /\ queue[t] = "unsent" /\ UNCHANGED <<task, rows, client>>
    BY <1>4 DEF PublishTask
  <2>2. \A s \in Tasks \ {t} : queue'[s] = queue[s]
    BY <1>4 DEF PublishTask, TypeOK
  <2>3. QED
    BY <2>1, <2>2, EarlyFrame
<1>5. ASSUME NEW t \in Tasks, NEW p, p \notin {"unsent", "inflight"},
             queue' = [queue EXCEPT ![t] = p], queue[t] # "unsent",
             UNCHANGED <<rows, client>>,
             \A v \in Workers, s \in Tasks : s # t => task'[v][s] = task[v][s]
      PROVE  Early'
  <2>1. queue'[t] = p /\ \A s \in Tasks \ {t} : queue'[s] = queue[s]
    BY <1>5 DEF TypeOK
  <2>2. \A s \in Tasks : ~ Bulk(s) /\ client'[s] = "idle" =>
          client[s] = "idle" /\ queue'[s] = queue[s]
    BY <1>5, <2>1 DEF Early
  <2>3. QED
    BY <1>5, <2>1, <2>2, EarlyFrame
<1>6. ASSUME NEW t \in Tasks, Arrive(t)
      PROVE  Early'
  BY <1>5, <1>6 DEF Arrive
<1>7. ASSUME NEW w \in Workers, NEW t \in Tasks, Deliver(w, t)
      PROVE  Early'
  <2>1. \A v \in Workers, s \in Tasks : s # t => task'[v][s] = task[v][s]
    BY <1>7 DEF Deliver, HandOver, TypeOK
  <2>2. QED
    BY <1>5, <1>7, <2>1, WorkerAssumption DEF Deliver
<1>8. ASSUME NEW f \in frames, HandleVerb(f)
      PROVE  Early'
  <2>1. f.of \in Tasks /\ queue[f.of] # "unsent"
    BY <1>8, FrameParts DEF HandleVerb, Owned
  <2>2. PICK p \in {"ready", "gone"} : queue' = [queue EXCEPT ![f.of] = p]
    BY <1>8 DEF HandleVerb
  <2>3. UNCHANGED <<rows, client, task>>
    BY <1>8 DEF HandleVerb
  <2>4. QED
    BY <1>5, <2>1, <2>2, <2>3
<1>9. ASSUME UNCHANGED <<queue, client>>,
             \A v \in Workers, s \in Tasks : task[v][s] = "none" => task'[v][s] = "none",
             \A s \in Tasks : rows'[s] = rows[s] \/ \E v \in Workers : task[v][s] # "none"
      PROVE  Early'
  BY <1>9, EarlyFrame
<1>10. ASSUME NEW w \in Workers, NEW t \in Tasks, NEW p, task[w][t] # "none",
              task' = [task EXCEPT ![w][t] = p], UNCHANGED <<queue, client>>,
              rows' = rows \/ rows' = [rows EXCEPT ![t] = @ + 1]
       PROVE  Early'
  <2>1. \A v \in Workers, s \in Tasks : task[v][s] = "none" => task'[v][s] = "none"
    BY <1>10 DEF TypeOK
  <2>2. \A s \in Tasks : rows'[s] = rows[s] \/ \E v \in Workers : task[v][s] # "none"
    BY <1>10 DEF TypeOK
  <2>3. QED
    BY <1>9, <1>10, <2>1, <2>2
<1>11. ASSUME NEW w \in Workers, NEW t \in Tasks,
              RejectSingleShot(w, t) \/ ReplyThrottled(w, t) \/ RejectBulk(w, t)
                \/ StartCheck(w, t)
       PROVE  Early'
  BY <1>10, <1>11
     DEF RejectSingleShot, ReplyThrottled, RejectBulk, StartCheck, Refuses, Leave
<1>12. ASSUME NEW w \in Workers, NEW t \in Tasks, CheckEnds(w, t)
       PROVE  Early'
  BY <1>10, <1>12 DEF CheckEnds
<1>13. ASSUME NEW w \in Workers, NEW t \in Tasks,
              WebhookEnds(w, t) \/ RequeueOnce(w, t) \/ Acknowledge(w, t) \/ Orphaned(w, t)
       PROVE  Early'
  BY <1>10, <1>13 DEF WebhookEnds, RequeueOnce, Acknowledge, Orphaned, Leave
<1>14. ASSUME NEW w \in Workers, NEW t \in Tasks,
              SendReply(w, t) \/ ReplyFails(w, t) \/ Store(w, t) \/ StoreFails(w, t)
       PROVE  Early'
  <2>1. task[w][t] # "none"
    BY <1>14 DEF SendReply, ReplyFails, Store, StoreFails, ToStore
  <2>2. QED
    BY <1>10, <1>14, <2>1 DEF SendReply, ReplyFails, Store, StoreFails, Leave
<1>15. ASSUME NEW w \in Workers, LoopEnds(w)
       PROVE  Early'
  <2>1. \A v \in Workers, s \in Tasks : task[v][s] = "none" => task'[v][s] = "none"
    BY <1>15 DEF LoopEnds, TypeOK
  <2>2. QED
    BY <1>9, <1>15, <2>1 DEF LoopEnds
<1>16. ASSUME NEW w \in Workers, LoseConnection(w) \/ NoticeLoss(w) \/ Crash(w)
       PROVE  Early'
  <2>1. \A v \in Workers, s \in Tasks : task[v][s] = "none" => task'[v][s] = "none"
    <3>1. ASSUME Crash(w)
          PROVE  \A v \in Workers, s \in Tasks : task'[v][s] \in {task[v][s], "none"}
      BY <3>1 DEF Crash, TypeOK
    <3>2. QED
      BY <1>16, <3>1 DEF LoseConnection, NoticeLoss
  <2>2. \A s \in Tasks : queue'[s] \in {"unsent", "inflight"} =>
          queue[s] \in {"unsent", "inflight"}
    BY <1>16 DEF LoseConnection, NoticeLoss, Crash, BrokerForgets
  <2>3. \A s \in Tasks : queue[s] = "unsent" => queue'[s] = "unsent"
    BY <1>16, WorkerAssumption DEF LoseConnection, NoticeLoss, Crash, BrokerForgets
  <2>4. \A s \in Tasks : client'[s] = "idle" => client[s] = "idle"
    BY <1>16 DEF LoseConnection, NoticeLoss, Crash
  <2>5. UNCHANGED rows
    BY <1>16 DEF LoseConnection, NoticeLoss, Crash
  <2>6. QED
    BY <2>1, <2>2, <2>3, <2>4, <2>5, EarlyFrame DEF Early
<1>17. QED
  BY <1>1, <1>2, <1>3, <1>4, <1>6, <1>7, <1>8, <1>11, <1>12, <1>13, <1>14, <1>15, <1>16
     DEF Next, ServerSteps, BrokerSteps, Requests, LoopSteps, TaskSteps, HandleReply,
         CreateJob, PublishFails, AcceptJob, WindowElapses, vars

LEMMA OwnedHolds == Spec => [](Owned /\ Early)
<1>1. Init => Owned /\ Early
  BY WorkerAssumption DEF Init, Owned, Early, Sent, InHand, Settled
<1>2. TypeOK /\ (Owned /\ Early) /\ [Next]_vars => (Owned /\ Early)'
  BY OwnedStep, EarlyStep
<1>3. QED
  BY <1>1, <1>2, TypeCorrect, PTL DEF Spec

(* Broker and workers agree on who has a message, or a frame on its way is *)
(* about to make them agree.                                               *)
THEOREM CustodyHolds == Spec => []Custody
<1>1. TypeOK /\ Owned => Custody
  BY FrameParts DEF Owned, Custody, Sent, Verbs, Answers
<1>2. QED
  BY <1>1, TypeCorrect, OwnedHolds, PTL

-----------------------------------------------------------------------------
(* The ledger.                                                             *)

Acting == InHand \cup Settled

One(b) == IF b THEN 1 ELSE 0

(* There are finitely many processes to count.                             *)
LEMMA ProcessCount ==
  ASSUME NEW A \in SUBSET Workers
  PROVE  /\ IsFiniteSet(A) /\ Cardinality(A) \in Nat
         /\ \A w \in A : /\ A \ {w} \in SUBSET Workers /\ Cardinality(A) > 0
                         /\ Cardinality(A \ {w}) = Cardinality(A) - 1
         /\ \A w \in Workers \ A : /\ A \cup {w} \in SUBSET Workers
                                   /\ Cardinality(A \cup {w}) = Cardinality(A) + 1
<1>1. IsFiniteSet(A) /\ Cardinality(A) \in Nat
  BY WorkerAssumption, FS_Subset, FS_CardinalityType
<1>2. ASSUME NEW w \in A
      PROVE  Cardinality(A) > 0 /\ Cardinality(A \ {w}) = Cardinality(A) - 1
  <2>1. Cardinality(A \ {w}) = Cardinality(A) - 1
    BY <1>1, FS_RemoveElement
  <2>2. Cardinality(A \ {w}) \in Nat
    BY <1>1, FS_RemoveElement, FS_CardinalityType
  <2>3. QED
    BY <1>1, <2>1, <2>2
<1>3. ASSUME NEW w \in Workers \ A
      PROVE  Cardinality(A \cup {w}) = Cardinality(A) + 1
  BY <1>1, FS_AddElement
<1>4. QED
  BY <1>1, <1>2, <1>3

(* Two sets of processes that differ in one process at most.               *)
LEMMA ProcessStep ==
  ASSUME NEW A \in SUBSET Workers, NEW B \in SUBSET Workers, NEW w \in Workers,
         \A v \in Workers : v # w => (v \in A <=> v \in B)
  PROVE  /\ Cardinality(A) \in Nat /\ Cardinality(B) \in Nat
         /\ Cardinality(B) = Cardinality(A) + One(w \in B) - One(w \in A)
         /\ Cardinality(A) >= One(w \in A) /\ Cardinality(B) >= One(w \in B)
<1>1. /\ Cardinality(A) \in Nat /\ Cardinality(B) \in Nat
      /\ w \in A => Cardinality(A) > 0
      /\ w \in B => Cardinality(B) > 0
  BY ProcessCount
<1>2. /\ One(w \in A) \in 0 .. 1 /\ (w \in A => Cardinality(A) >= One(w \in A))
      /\ One(w \in B) \in 0 .. 1 /\ (w \in B => Cardinality(B) >= One(w \in B))
      /\ w \notin A => One(w \in A) = 0
      /\ w \notin B => One(w \in B) = 0
  BY <1>1 DEF One
<1>3. CASE w \in A <=> w \in B
  <2>1. A = B
    BY <1>3
  <2>2. QED
    BY <1>1, <1>2, <2>1
<1>4. CASE w \in A /\ w \notin B
  <2>1. B = A \ {w} /\ One(w \in A) = 1
    BY <1>4 DEF One
  <2>2. Cardinality(B) = Cardinality(A) - 1
    BY <1>4, <2>1, ProcessCount
  <2>3. QED
    BY <1>1, <1>2, <1>4, <2>1, <2>2
<1>5. CASE w \notin A /\ w \in B
  <2>1. B = A \cup {w} /\ One(w \in B) = 1
    BY <1>5 DEF One
  <2>2. Cardinality(B) = Cardinality(A) + 1
    BY <1>5, <2>1, ProcessCount
  <2>3. QED
    BY <1>1, <1>2, <1>5, <2>1, <2>2
<1>6. QED
  BY <1>3, <1>4, <1>5

(* The claims of a task when one run of it starts, goes on or ends.        *)
LEMMA ClaimsStep ==
  ASSUME NEW t \in Tasks, NEW w \in Workers,
         \A v \in Workers : v # w => task'[v][t] = task[v][t]
  PROVE  /\ Claims(t) \in Nat /\ Claims(t)' \in Nat
         /\ Claims(t)' = Claims(t) + One(task'[w][t] \in Acting) - One(task[w][t] \in Acting)
                           + One(Pending(t)') - One(Pending(t))
         /\ Claims(t) >= One(task[w][t] \in Acting) + One(Pending(t))
<1> DEFINE A == Active(t)
           B == Active(t)'
<1>1. A \in SUBSET Workers /\ B \in SUBSET Workers
  BY DEF Active
<1>2. /\ \A v \in Workers : v \in A <=> task[v][t] \in Acting
      /\ \A v \in Workers : v \in B <=> task'[v][t] \in Acting
  BY DEF Active, Acting
<1>3. \A v \in Workers : v # w => (v \in A <=> v \in B)
  BY <1>2
<1>4. /\ Claims(t) = Cardinality(A) + One(Pending(t))
      /\ Claims(t)' = Cardinality(B) + One(Pending(t)')
  BY DEF Claims, One
<1> HIDE DEF A, B
<1>5. /\ Cardinality(A) \in Nat /\ Cardinality(B) \in Nat
      /\ Cardinality(B) = Cardinality(A) + One(w \in B) - One(w \in A)
      /\ Cardinality(A) >= One(w \in A)
  BY <1>1, <1>3, ProcessStep
<1>6. /\ One(w \in A) = One(task[w][t] \in Acting)
      /\ One(w \in B) = One(task'[w][t] \in Acting)
  BY <1>2 DEF One
<1>7. One(Pending(t)) \in Nat /\ One(Pending(t)') \in Nat
  BY DEF One
<1>8. One(w \in A) \in Nat /\ One(w \in B) \in Nat
  BY DEF One
<1>9. QED
  BY <1>4, <1>5, <1>6, <1>7, <1>8

LEMMA ClaimsFrame ==
  ASSUME NEW t \in Tasks,
         \A v \in Workers : task'[v][t] \in Acting <=> task[v][t] \in Acting,
         Pending(t)' <=> Pending(t)
  PROVE  Claims(t)' = Claims(t)
<1>1. Active(t)' = Active(t)
  BY DEF Active, Acting
<1>2. QED
  BY <1>1 DEF Claims

(* Where the message of a task is decides whether it comes again.          *)
LEMMA PendingFacts ==
  ASSUME TypeOK, Owned, NEW t \in Tasks
  PROVE  /\ queue[t] \in {"unsent", "inflight", "ready"} => Pending(t)
         /\ queue[t] = "gone" => ~ Pending(t)
         /\ \A w \in Workers : queue[t] = w =>
              /\ Pending(t) <=> Sent(w, t, {"requeue"})
              /\ task[w][t] \in InHand => ~ Pending(t)
              /\ Sent(w, t, {"ack", "drop"}) => ~ Pending(t)
<1> USE DEF Owned, Sent, Pending, Verbs
<1>1. queue[t] \in {"unsent", "inflight", "ready"} => Pending(t)
  OBVIOUS
<1>2. ASSUME queue[t] = "gone" PROVE ~ Pending(t)
  BY <1>2, WorkerAssumption
<1>3. ASSUME NEW w \in Workers, queue[t] = w
      PROVE  /\ Pending(t) <=> Sent(w, t, {"requeue"})
             /\ task[w][t] \in InHand => ~ Pending(t)
             /\ Sent(w, t, {"ack", "drop"}) => ~ Pending(t)
  <2>1. queue[t] \notin {"unsent", "inflight", "ready"}
    BY <1>3, WorkerAssumption
  <2>2. \A v \in Workers : Sent(v, t, {"requeue"}) => v = w
    BY <1>3
  <2>3. QED
    BY <1>3, <2>1, <2>2
<1>4. QED
  BY <1>1, <1>2, <1>3

LedgerNext == [Ledger!Next]_<<[t \in Tasks |-> Claims(t)], rows, Broken>>

(* The shapes of a step of the ledger.                                     *)
LEMMA Stutters ==
  ASSUME \A t \in Tasks : Claims(t)' = Claims(t), UNCHANGED <<rows, Broken>>
  PROVE  LedgerNext
<1>1. [t \in Tasks |-> Claims(t)'] = [t \in Tasks |-> Claims(t)]
  OBVIOUS
<1>2. QED
  BY <1>1 DEF LedgerNext

LEMMA GivesUp ==
  ASSUME NEW given \in SUBSET Tasks, UNCHANGED <<rows, Broken>>,
         \A t \in given : Claims(t) > 0 /\ Claims(t)' = Claims(t) - 1,
         \A t \in Tasks \ given : Claims(t)' = Claims(t)
  PROVE  LedgerNext
<1>1. Ledger!GiveUp(given)
  BY DEF Ledger!GiveUp
<1>2. QED
  BY <1>1 DEF LedgerNext, Ledger!Next

LEMMA StoresRow ==
  ASSUME NEW t \in Tasks, UNCHANGED Broken, rows' = [rows EXCEPT ![t] = @ + 1],
         Claims(t) > 0, Claims(t)' = Claims(t) - 1,
         \A s \in Tasks \ {t} : Claims(s)' = Claims(s)
  PROVE  LedgerNext
<1>1. Ledger!Store(t)
  BY DEF Ledger!Store
<1>2. QED
  BY <1>1 DEF LedgerNext, Ledger!Next

LEMMA FaultStrikes ==
  ASSUME UNCHANGED rows, Broken' = Broken + 1,
         \A t \in Tasks : /\ Claims(t) \in Nat /\ Claims(t)' \in Nat
                          /\ Claims(t)' - Claims(t) \in -1 .. 1
  PROVE  LedgerNext
<1> DEFINE granted == {t \in Tasks : Claims(t)' = Claims(t) + 1}
           given   == {t \in Tasks : Claims(t)' = Claims(t) - 1}
<1>1. \A t \in given : Claims(t) > 0
  OBVIOUS
<1>2. \A t \in Tasks : Claims(t)' =
        Claims(t) + (IF t \in granted THEN 1 ELSE 0) - (IF t \in given THEN 1 ELSE 0)
  OBVIOUS
<1> HIDE DEF granted, given
<1>3. [t \in Tasks |-> Claims(t)'] =
        [t \in Tasks |->
           Claims(t) + (IF t \in granted THEN 1 ELSE 0) - (IF t \in given THEN 1 ELSE 0)]
  BY <1>2
<1>4. granted \in SUBSET Tasks /\ given \in SUBSET Tasks
  BY DEF granted, given
<1>5. Ledger!Fault(granted, given)
  BY <1>1, <1>3, <1>4 DEF Ledger!Fault
<1>6. QED
  BY <1>4, <1>5 DEF LedgerNext, Ledger!Next

(* A step of one run leaves the claims of the other tasks alone.           *)
LEMMA OthersKeep ==
  ASSUME TypeOK, NEW w \in Workers, NEW t \in Tasks, NEW p,
         task' = [task EXCEPT ![w][t] = p],
         \A s \in Tasks : s # t => queue'[s] = queue[s],
         \A f : f.of # t => (f \in frames' <=> f \in frames)
  PROVE  /\ task'[w][t] = p /\ \A v \in Workers : v # w => task'[v][t] = task[v][t]
         /\ \A s \in Tasks \ {t} : Claims(s)' = Claims(s)
<1>1. /\ task'[w][t] = p /\ \A v \in Workers : v # w => task'[v][t] = task[v][t]
      /\ \A v \in Workers, s \in Tasks : s # t => task'[v][s] = task[v][s]
  BY DEF TypeOK
<1>2. ASSUME NEW s \in Tasks, s # t
      PROVE  Pending(s)' <=> Pending(s)
  BY <1>2 DEF Pending, Sent
<1>3. QED
  BY <1>1, <1>2, ClaimsFrame

(* What a write does to the frames of the task, and of the others.         *)
LEMMA WriteKeeps ==
  ASSUME TypeOK, NEW w \in Workers, NEW t \in Tasks,
         NEW what \in Verbs \cup Answers, Write(w, t, what)
  PROVE  /\ \A f : f.of # t => (f \in frames' <=> f \in frames)
         /\ what # "requeue" \/ channel[w] # "open" =>
              \A v \in Workers : Sent(v, t, {"requeue"})' <=> Sent(v, t, {"requeue"})
         /\ what = "requeue" /\ channel[w] = "open" => Sent(w, t, {"requeue"})'
<1>1. /\ frames \subseteq frames'
      /\ \A f \in frames' : f \in frames \/ (channel[w] = "open" /\ f = Frame(w, t, what))
      /\ channel[w] = "open" => Frame(w, t, what) \in frames'
      /\ channel[w] # "open" => frames' = frames
  BY WriteTypes
<1>2. Frame(w, t, what).by = w /\ Frame(w, t, what).of = t /\ Frame(w, t, what).what = what
  BY DEF Frame
<1>3. QED
  BY <1>1, <1>2 DEF Sent

(* A run that may still store a row ends without one, and its message does *)
(* not come again for it.                                                  *)
LEMMA RunGivesUp ==
  ASSUME TypeOK, NEW w \in Workers, NEW t \in Tasks, NEW p, p \notin Acting,
         task[w][t] \in Acting, task' = [task EXCEPT ![w][t] = p],
         \A s \in Tasks : s # t => queue'[s] = queue[s],
         \A f : f.of # t => (f \in frames' <=> f \in frames),
         Pending(t)' <=> Pending(t)
  PROVE  /\ Claims(t) > 0 /\ Claims(t)' = Claims(t) - 1
         /\ \A s \in Tasks \ {t} : Claims(s)' = Claims(s)
<1>1. /\ task'[w][t] = p /\ \A v \in Workers : v # w => task'[v][t] = task[v][t]
      /\ \A s \in Tasks \ {t} : Claims(s)' = Claims(s)
  BY OthersKeep
<1>2. /\ Claims(t) \in Nat
      /\ Claims(t)' = Claims(t) + One(task'[w][t] \in Acting) - One(task[w][t] \in Acting)
                        + One(Pending(t)') - One(Pending(t))
      /\ Claims(t) >= One(task[w][t] \in Acting) + One(Pending(t))
  BY <1>1, ClaimsStep
<1>3. /\ One(task'[w][t] \in Acting) = 0 /\ One(task[w][t] \in Acting) = 1
      /\ One(Pending(t)') = One(Pending(t)) /\ One(Pending(t)) \in Nat
  BY <1>1 DEF One
<1>4. QED
  BY <1>1, <1>2, <1>3

(* A run that goes on keeps its claim.                                     *)
LEMMA RunKeeps ==
  ASSUME TypeOK, NEW w \in Workers, NEW t \in Tasks, NEW p,
         task[w][t] \in Acting <=> p \in Acting, task' = [task EXCEPT ![w][t] = p],
         UNCHANGED <<queue, rows, faults>>,
         \A f : f.of # t => (f \in frames' <=> f \in frames),
         \A v \in Workers : Sent(v, t, {"requeue"})' <=> Sent(v, t, {"requeue"})
  PROVE  LedgerNext
<1>1. /\ task'[w][t] = p /\ \A v \in Workers : v # w => task'[v][t] = task[v][t]
      /\ \A s \in Tasks \ {t} : Claims(s)' = Claims(s)
  BY OthersKeep
<1>2. Pending(t)' <=> Pending(t)
  BY DEF Pending
<1>3. Claims(t)' = Claims(t)
  BY <1>1, <1>2, ClaimsFrame
<1>4. QED
  BY <1>1, <1>3, Stutters DEF Broken

(* A run hands its claim back to the message, or loses it with the frame.  *)
LEMMA RunRequeues ==
  ASSUME TypeOK, Owned, NEW w \in Workers, NEW t \in Tasks,
         task[w][t] \in InHand, Write(w, t, "requeue"),
         task' = [task EXCEPT ![w][t] = "none"],
         UNCHANGED <<queue, rows, faults>>
  PROVE  LedgerNext
<1>1. "none" \notin Acting /\ task[w][t] \in Acting
  BY DEF Acting, InHand, Settled
<1>2. "requeue" \in Verbs
  BY DEF Verbs
<1>3. \A f : f.of # t => (f \in frames' <=> f \in frames)
  BY <1>2, WriteKeeps
<1>4. CASE channel[w] # "open"
  <2>1. Pending(t)' <=> Pending(t)
    BY <1>2, <1>4, WriteKeeps DEF Pending
  <2>2. /\ Claims(t) > 0 /\ Claims(t)' = Claims(t) - 1
        /\ \A s \in Tasks \ {t} : Claims(s)' = Claims(s)
    BY <1>1, <1>3, <2>1, RunGivesUp
  <2>3. {t} \in SUBSET Tasks /\ UNCHANGED <<rows, Broken>>
    BY DEF Broken
  <2>4. /\ \A s \in {t} : Claims(s) > 0 /\ Claims(s)' = Claims(s) - 1
        /\ \A s \in Tasks \ {t} : Claims(s)' = Claims(s)
    BY <2>2
  <2>5. QED
    BY <2>3, <2>4, GivesUp
<1>5. CASE channel[w] = "open"
  <2>1. ~ Pending(t)
    BY <1>5, PendingFacts DEF Owned
  <2>2. Pending(t)'
    BY <1>2, <1>5, WriteKeeps DEF Pending
  <2>3. /\ task'[w][t] = "none" /\ \A v \in Workers : v # w => task'[v][t] = task[v][t]
        /\ \A s \in Tasks \ {t} : Claims(s)' = Claims(s)
    BY <1>3, OthersKeep
  <2>4. /\ Claims(t) \in Nat
        /\ Claims(t)' = Claims(t) + One(task'[w][t] \in Acting) - One(task[w][t] \in Acting)
                          + One(Pending(t)') - One(Pending(t))
    BY <2>3, ClaimsStep
  <2>5. /\ One(task'[w][t] \in Acting) = 0 /\ One(task[w][t] \in Acting) = 1
        /\ One(Pending(t)') = 1 /\ One(Pending(t)) = 0
    BY <1>1, <2>1, <2>2, <2>3 DEF One
  <2>6. Claims(t)' = Claims(t)
    BY <2>4, <2>5
  <2>7. QED
    BY <2>3, <2>6, Stutters DEF Broken
<1>6. QED
  BY <1>4, <1>5

(* A fault takes at most one run of a task, and gives at most one claim    *)
(* for the delivery it takes back.                                         *)
LEMMA FaultClaims ==
  ASSUME TypeOK, Owned, Early, NEW w \in Workers, NEW t \in Tasks, BrokerForgets(w),
         \A v \in Workers : v # w => task'[v][t] = task[v][t],
         task'[w][t] = task[w][t] \/ task'[w][t] = "none"
  PROVE  /\ Claims(t) \in Nat /\ Claims(t)' \in Nat
         /\ Claims(t)' - Claims(t) \in -1 .. 1
<1>1. /\ Claims(t) \in Nat /\ Claims(t)' \in Nat
      /\ Claims(t)' = Claims(t) + One(task'[w][t] \in Acting) - One(task[w][t] \in Acting)
                        + One(Pending(t)') - One(Pending(t))
  BY ClaimsStep
<1>2. /\ One(task'[w][t] \in Acting) \in 0 .. 1 /\ One(task[w][t] \in Acting) \in 0 .. 1
      /\ One(Pending(t)') \in 0 .. 1 /\ One(Pending(t)) \in 0 .. 1
  BY DEF One
<1>3. One(task'[w][t] \in Acting) <= One(task[w][t] \in Acting)
  BY DEF One, Acting, InHand, Settled
<1>4. frames' = {f \in frames : f.by # w}
  BY DEF BrokerForgets
<1>5. CASE Pending(t)' \/ ~ Pending(t)
  <2>1. One(Pending(t)') >= One(Pending(t))
    BY <1>5 DEF One
  <2>2. QED
    BY <1>1, <1>2, <1>3, <2>1
<1>6. CASE Pending(t) /\ ~ Pending(t)'
  <2>1. queue[t] = "inflight"
    <3>1. queue[t] # w
      <4>1. queue[t] = w => queue'[t] = "ready"
        BY WorkerAssumption DEF BrokerForgets
      <4>2. QED
        BY <1>6, <4>1 DEF Pending
    <3>2. \A v \in Workers : Sent(v, t, {"requeue"}) => v # w
      BY <3>1, FrameParts DEF Owned, Sent, Verbs
    <3>3. \A v \in Workers : Sent(v, t, {"requeue"}) => Sent(v, t, {"requeue"})'
      BY <1>4, <3>2 DEF Sent
    <3>4. queue[t] \in {"unsent", "inflight", "ready"}
      BY <1>6, <3>3 DEF Pending
    <3>5. queue[t] \in {"unsent", "ready"} => queue'[t] = queue[t]
      BY WorkerAssumption DEF BrokerForgets
    <3>6. QED
      BY <1>6, <3>4, <3>5 DEF Pending
  <2>2. task[w][t] = "none"
    BY <2>1 DEF Early
  <2>3. One(task[w][t] \in Acting) = 0
    BY <2>2 DEF One, Acting, InHand, Settled
  <2>4. QED
    BY <1>1, <1>2, <1>3, <2>3
<1>7. QED
  BY <1>5, <1>6

(* A fault is counted.                                                     *)
LEMMA FaultIsCounted ==
  ASSUME TypeOK, NEW w \in Workers
  PROVE  /\ Broken \in Nat
         /\ LoseConnection(w) => /\ faults'.losses = faults.losses + 1
                                 /\ faults'.crashes = faults.crashes
         /\ Crash(w) => /\ faults'.losses = faults.losses
                        /\ faults'.crashes = faults.crashes + 1
         /\ LoseConnection(w) \/ Crash(w) => Broken' = Broken + 1
<1>1. /\ faults \in FaultCounts
      /\ faults.losses \in Nat /\ faults.crashes \in Nat
  BY FaultTypes DEF TypeOK, FaultCounts
<1>2. LoseConnection(w) => faults'.losses = faults.losses + 1 /\ faults'.crashes = faults.crashes
  BY <1>1 DEF LoseConnection, FaultCounts
<1>3. Crash(w) => faults'.losses = faults.losses /\ faults'.crashes = faults.crashes + 1
  BY <1>1 DEF Crash, FaultCounts
<1>4. QED
  BY <1>1, <1>2, <1>3 DEF Broken

(* Every step of the pipeline is a step of the ledger, or none.            *)
LEMMA LedgerStep ==
  ASSUME TypeOK, Owned, Early, [Next]_vars
  PROVE  LedgerNext
<1> USE DEF broker, run, http
<1>1. ASSUME NEW t \in Tasks, UNCHANGED <<rows, faults>>,
             Claims(t) > 0, Claims(t)' = Claims(t) - 1,
             \A s \in Tasks \ {t} : Claims(s)' = Claims(s)
      PROVE  LedgerNext
  <2>1. {t} \in SUBSET Tasks /\ UNCHANGED <<rows, Broken>>
    BY <1>1 DEF Broken
  <2>2. /\ \A s \in {t} : Claims(s) > 0 /\ Claims(s)' = Claims(s) - 1
        /\ \A s \in Tasks \ {t} : Claims(s)' = Claims(s)
    BY <1>1
  <2>3. QED
    BY <2>1, <2>2, GivesUp
<1>2. CASE UNCHANGED <<queue, frames, task, rows, faults>>
  <2>1. \A t \in Tasks : Pending(t)' <=> Pending(t)
    BY <1>2 DEF Pending, Sent
  <2>2. \A t \in Tasks : Claims(t)' = Claims(t)
    BY <1>2, <2>1, ClaimsFrame
  <2>3. QED
    BY <1>2, <2>2, Stutters DEF Broken
<1>3. ASSUME NEW t \in Tasks, NEW w \in Workers,
             RefuseRequest(t, w) \/ RequestFails(t, w)
      PROVE  LedgerNext
  BY <1>2, <1>3 DEF RefuseRequest, RequestFails
<1>4. ASSUME NEW t \in Tasks, NEW p \in {"inflight", "ready"},
             queue[t] \in {"unsent", "inflight"}, queue' = [queue EXCEPT ![t] = p],
             UNCHANGED <<frames, task, rows, faults>>
      PROVE  LedgerNext
  <2>1. \A s \in Tasks : Pending(s)' <=> Pending(s)
    BY <1>4 DEF Pending, Sent, TypeOK
  <2>2. \A s \in Tasks : Claims(s)' = Claims(s)
    BY <1>4, <2>1, ClaimsFrame
  <2>3. QED
    BY <1>4, <2>2, Stutters DEF Broken
<1>5. ASSUME NEW t \in Tasks, NEW w \in Workers, Request(t, w)
      PROVE  LedgerNext
  <2>1. queue[t] = "unsent"
    BY <1>5 DEF Request, Early
  <2>2. QED
    BY <1>4, <1>5, <2>1 DEF Request
<1>6. ASSUME NEW t \in Tasks, Arrive(t)
      PROVE  LedgerNext
  BY <1>4, <1>6 DEF Arrive
<1>7. ASSUME NEW t \in Tasks, PublishTask(t)
      PROVE  LedgerNext
  <2>1. /\ queue[t] = "unsent" /\ UNCHANGED <<frames, task, rows, faults>>
        /\ queue' = [queue EXCEPT ![t] = "inflight"] \/ queue' = [queue EXCEPT ![t] = "gone"]
    BY <1>7 DEF PublishTask
  <2>2. CASE queue' = [queue EXCEPT ![t] = "inflight"]
    BY <1>4, <2>1, <2>2
  <2>3. CASE queue' = [queue EXCEPT ![t] = "gone"]
    <3>1. \A s \in Tasks \ {t} : Claims(s)' = Claims(s)
      <4>1. \A s \in Tasks \ {t} : Pending(s)' <=> Pending(s)
        BY <2>1, <2>3 DEF Pending, Sent, TypeOK
      <4>2. QED
        BY <2>1, <4>1, ClaimsFrame
    <3>2. Pending(t) /\ \A v \in Workers : ~ Sent(v, t, {"requeue"})
      BY <2>1, NotHeld DEF Pending, Sent, Verbs
    <3>3. queue'[t] = "gone"
      BY <2>3 DEF TypeOK
    <3>4. ~ Pending(t)'
      BY <2>1, <3>2, <3>3 DEF Pending, Sent
    <3>5. Active(t)' = Active(t) /\ Cardinality(Active(t)) \in Nat
      BY <2>1, ProcessCount DEF Active
    <3>6. Claims(t) > 0 /\ Claims(t)' = Claims(t) - 1
      BY <3>2, <3>4, <3>5 DEF Claims
    <3>7. QED
      BY <1>1, <2>1, <3>1, <3>6
  <2>4. QED
    BY <2>1, <2>2, <2>3
<1>8. ASSUME NEW w \in Workers, NEW t \in Tasks, Deliver(w, t)
      PROVE  LedgerNext
  <2>1. /\ queue[t] = "ready" /\ queue' = [queue EXCEPT ![t] = w]
        /\ task' = [task EXCEPT ![w][t] = "delivered"] /\ UNCHANGED <<frames, rows, faults>>
    BY <1>8 DEF Deliver, HandOver
  <2>2. /\ task'[w][t] = "delivered" /\ \A v \in Workers : v # w => task'[v][t] = task[v][t]
        /\ \A s \in Tasks \ {t} : Claims(s)' = Claims(s)
    <3>1. \A s \in Tasks : s # t => queue'[s] = queue[s]
      BY <2>1 DEF TypeOK
    <3>2. QED
      BY <2>1, <3>1, OthersKeep
  <2>3. Pending(t) /\ \A v \in Workers : ~ Sent(v, t, {"requeue"})
    BY <2>1, NotHeld DEF Pending, Sent, Verbs
  <2>4. queue'[t] = w
    BY <2>1 DEF TypeOK
  <2>5. ~ Pending(t)'
    BY <2>1, <2>3, <2>4, WorkerAssumption DEF Pending, Sent
  <2>6. /\ Claims(t) \in Nat
        /\ Claims(t)' = Claims(t) + One(task'[w][t] \in Acting) - One(task[w][t] \in Acting)
                          + One(Pending(t)') - One(Pending(t))
    BY <2>2, ClaimsStep
  <2>7. task[w][t] = "none"
    BY <1>8, DeliverStep
  <2>8. /\ One(task'[w][t] \in Acting) = 1 /\ One(task[w][t] \in Acting) = 0
        /\ One(Pending(t)') = 0 /\ One(Pending(t)) = 1
    BY <2>2, <2>3, <2>5, <2>7 DEF One, Acting, InHand, Settled
  <2>9. Claims(t)' = Claims(t)
    BY <2>6, <2>8
  <2>10. QED
    BY <2>1, <2>2, <2>9, Stutters DEF Broken
<1>9. ASSUME NEW f \in frames, HandleVerb(f)
      PROVE  LedgerNext
  <2> DEFINE t == f.of
             w == f.by
  <2>1. /\ w \in Workers /\ t \in Tasks /\ f.what \in Verbs /\ queue[t] = w
        /\ frames' = frames \ {f} /\ UNCHANGED <<task, rows, faults>>
        /\ queue' = [queue EXCEPT ![t] = IF f.what = "requeue" THEN "ready" ELSE "gone"]
    BY <1>9, FrameParts DEF HandleVerb, Owned
  <2>2. \A s \in Tasks \ {t} : queue'[s] = queue[s]
    BY <2>1 DEF TypeOK
  <2>3. \A s \in Tasks \ {t} : Pending(s)' <=> Pending(s)
    BY <2>1, <2>2 DEF Pending, Sent
  <2>4. Pending(t) <=> Sent(w, t, {"requeue"})
    BY <2>1, PendingFacts
  <2>5. \A g \in frames : g.of = t /\ g.what \in Verbs => g = f
    BY <2>1 DEF Owned
  <2>6. Pending(t)' <=> Pending(t)
    <3>1. CASE f.what = "requeue"
      <4>1. Pending(t)
        BY <2>4, <3>1 DEF Sent
      <4>2. queue'[t] = "ready"
        BY <2>1, <3>1 DEF TypeOK
      <4>3. QED
        BY <4>1, <4>2 DEF Pending
    <3>2. CASE f.what # "requeue"
      <4>1. ~ Pending(t)
        BY <2>4, <2>5, <3>2 DEF Sent, Verbs
      <4>2. queue'[t] = "gone"
        BY <2>1, <3>2 DEF TypeOK
      <4>3. \A v \in Workers : ~ Sent(v, t, {"requeue"})'
        BY <2>1, <2>5, <3>2 DEF Sent, Verbs
      <4>4. QED
        BY <4>1, <4>2, <4>3 DEF Pending
    <3>3. QED
      BY <3>1, <3>2
  <2>7. \A s \in Tasks : Claims(s)' = Claims(s)
    BY <2>1, <2>3, <2>6, ClaimsFrame
  <2>8. QED
    BY <2>1, <2>7, Stutters DEF Broken
<1>10. ASSUME NEW f \in frames, HandleReply(f)
       PROVE  LedgerNext
  <2>1. /\ frames' = frames \ {f} /\ f.what \in Answers
        /\ UNCHANGED <<queue, task, rows, faults>>
    BY <1>10 DEF HandleReply
  <2>2. \A t \in Tasks : Pending(t)' <=> Pending(t)
    BY <2>1 DEF Pending, Sent, Answers
  <2>3. \A t \in Tasks : Claims(t)' = Claims(t)
    BY <2>1, <2>2, ClaimsFrame
  <2>4. QED
    BY <2>1, <2>3, Stutters DEF Broken
<1>11. ASSUME NEW w \in Workers, NEW t \in Tasks, RejectSingleShot(w, t)
       PROVE  LedgerNext
  <2>1. /\ task[w][t] = "delivered" /\ Write(w, t, "drop")
        /\ task' = [task EXCEPT ![w][t] = "rejected"] /\ UNCHANGED <<queue, rows, faults>>
    BY <1>11 DEF RejectSingleShot, Refuses
  <2>2. "rejected" \notin Acting /\ task[w][t] \in Acting
    BY <2>1 DEF Acting, InHand, Settled
  <2>3. "drop" \in Verbs /\ "drop" # "requeue"
    BY DEF Verbs
  <2>4. /\ \A f : f.of # t => (f \in frames' <=> f \in frames)
        /\ \A v \in Workers : Sent(v, t, {"requeue"})' <=> Sent(v, t, {"requeue"})
    BY <2>1, <2>3, WriteKeeps
  <2>5. Pending(t)' <=> Pending(t)
    BY <2>1, <2>4 DEF Pending
  <2>6. QED
    BY <1>1, <2>1, <2>2, <2>4, <2>5, RunGivesUp
<1>12. ASSUME NEW w \in Workers, NEW t \in Tasks, RejectBulk(w, t) \/ RequeueOnce(w, t)
       PROVE  LedgerNext
  <2>1. /\ task[w][t] \in InHand /\ Write(w, t, "requeue")
        /\ task' = [task EXCEPT ![w][t] = "none"] /\ UNCHANGED <<queue, rows, faults>>
    BY <1>12 DEF RejectBulk, RequeueOnce, Refuses, InHand, Leave
  <2>2. QED
    BY <2>1, RunRequeues
<1>13. ASSUME NEW w \in Workers, NEW t \in Tasks,
              NEW what \in {"ack", "throttled", "result"}, NEW p, Write(w, t, what),
              task[w][t] \in Acting <=> p \in Acting, task' = [task EXCEPT ![w][t] = p],
              UNCHANGED <<queue, rows, faults>>
       PROVE  LedgerNext
  <2>1. what \in Verbs \cup Answers /\ what # "requeue"
    BY DEF Verbs, Answers
  <2>2. /\ \A f : f.of # t => (f \in frames' <=> f \in frames)
        /\ \A v \in Workers : Sent(v, t, {"requeue"})' <=> Sent(v, t, {"requeue"})
    BY <1>13, <2>1, WriteKeeps
  <2>3. QED
    BY <1>13, <2>2, RunKeeps
<1>14. ASSUME NEW w \in Workers, NEW t \in Tasks, ReplyThrottled(w, t)
       PROVE  LedgerNext
  BY <1>13, <1>14 DEF ReplyThrottled, Leave, Acting, InHand, Settled
<1>15. ASSUME NEW w \in Workers, NEW t \in Tasks, Acknowledge(w, t)
       PROVE  LedgerNext
  BY <1>13, <1>15 DEF Acknowledge, Acting, InHand, Settled
<1>16. ASSUME NEW w \in Workers, NEW t \in Tasks, SendReply(w, t)
       PROVE  LedgerNext
  BY <1>13, <1>16 DEF SendReply, Acting, InHand, Settled
<1>17. ASSUME NEW w \in Workers, NEW t \in Tasks, NEW p \in Acting,
              task[w][t] \in Acting, task' = [task EXCEPT ![w][t] = p],
              UNCHANGED <<queue, frames, rows, faults>>
       PROVE  LedgerNext
  BY <1>17, RunKeeps DEF Sent
<1>18. ASSUME NEW w \in Workers, NEW t \in Tasks, StartCheck(w, t) \/ WebhookEnds(w, t)
       PROVE  LedgerNext
  BY <1>17, <1>18 DEF StartCheck, WebhookEnds, Acting, InHand, Settled
<1>19. ASSUME NEW w \in Workers, NEW t \in Tasks, CheckEnds(w, t)
       PROVE  LedgerNext
  <2>1. PICK p \in {"webhook", "checked"} : task' = [task EXCEPT ![w][t] = p]
    BY <1>19 DEF CheckEnds
  <2>2. p \in Acting /\ task[w][t] \in Acting
    BY <1>19 DEF CheckEnds, Acting, InHand, Settled
  <2>3. QED
    BY <1>17, <1>19, <2>1, <2>2 DEF CheckEnds
<1>20. ASSUME NEW w \in Workers, NEW t \in Tasks, task[w][t] \in Acting, Leave(w, t),
              UNCHANGED <<queue, frames>>
       PROVE  /\ Claims(t) > 0 /\ Claims(t)' = Claims(t) - 1
              /\ \A s \in Tasks \ {t} : Claims(s)' = Claims(s)
  <2>1. "none" \notin Acting
    BY DEF Acting, InHand, Settled
  <2>2. Pending(t)' <=> Pending(t)
    BY <1>20 DEF Pending, Sent
  <2>3. QED
    BY <1>20, <2>1, <2>2, RunGivesUp DEF Leave
<1>21. ASSUME NEW w \in Workers, NEW t \in Tasks, Orphaned(w, t) \/ ReplyFails(w, t)
       PROVE  LedgerNext
  <2>1. /\ task[w][t] \in Acting /\ Leave(w, t)
        /\ UNCHANGED <<queue, frames, rows, faults>>
    BY <1>21 DEF Orphaned, ReplyFails, Acting, InHand, Settled
  <2>2. QED
    BY <1>1, <1>20, <2>1
<1>22. ASSUME NEW w \in Workers, NEW t \in Tasks, Store(w, t)
       PROVE  LedgerNext
  <2>1. task[w][t] \in Acting
    BY <1>22 DEF Store, ToStore, Acting, InHand, Settled
  <2>2. Leave(w, t) /\ UNCHANGED <<queue, frames, faults>> /\ rows' = [rows EXCEPT ![t] = @ + 1]
    BY <1>22 DEF Store
  <2>3. QED
    BY <1>20, <2>1, <2>2, StoresRow DEF Broken
<1>23. ASSUME NEW w \in Workers, NEW t \in Tasks, StoreFails(w, t)
       PROVE  LedgerNext
  <2>1. task[w][t] \in Acting
    BY <1>23 DEF StoreFails, ToStore, Acting, InHand, Settled
  <2>2. /\ Leave(w, t) /\ UNCHANGED <<queue, frames, rows>>
        /\ faults' = [faults EXCEPT !.stores = @ + 1]
    BY <1>23 DEF StoreFails
  <2>3. UNCHANGED Broken
    BY <2>2 DEF Broken, TypeOK
  <2>4. /\ {t} \in SUBSET Tasks
        /\ \A s \in {t} : Claims(s) > 0 /\ Claims(s)' = Claims(s) - 1
        /\ \A s \in Tasks \ {t} : Claims(s)' = Claims(s)
    BY <1>20, <2>1, <2>2
  <2>5. QED
    BY <2>2, <2>3, <2>4, GivesUp
<1>24. ASSUME NEW w \in Workers, LoopEnds(w)
       PROVE  LedgerNext
  <2> DEFINE given == {t \in Tasks : task[w][t] = "delivered"}
  <2>1. UNCHANGED <<queue, frames, rows, faults>>
    BY <1>24 DEF LoopEnds
  <2>2. /\ \A v \in Workers, t \in Tasks : v # w => task'[v][t] = task[v][t]
        /\ \A t \in Tasks : task'[w][t] =
             IF task[w][t] \in {"delivered", "rejected"} THEN "none" ELSE task[w][t]
    BY <1>24 DEF LoopEnds, TypeOK
  <2>3. \A t \in Tasks : Pending(t)' <=> Pending(t)
    BY <2>1 DEF Pending, Sent
  <2>4. ASSUME NEW t \in given
        PROVE  Claims(t) > 0 /\ Claims(t)' = Claims(t) - 1
    <3>1. /\ Claims(t) \in Nat
          /\ Claims(t)' = Claims(t) + One(task'[w][t] \in Acting) - One(task[w][t] \in Acting)
                            + One(Pending(t)') - One(Pending(t))
          /\ Claims(t) >= One(task[w][t] \in Acting) + One(Pending(t))
      BY <2>2, ClaimsStep
    <3>2. /\ One(task'[w][t] \in Acting) = 0 /\ One(task[w][t] \in Acting) = 1
          /\ One(Pending(t)') = One(Pending(t)) /\ One(Pending(t)) \in Nat
      BY <2>2, <2>3 DEF One, Acting, InHand, Settled
    <3>3. QED
      BY <3>1, <3>2
  <2>5. ASSUME NEW t \in Tasks \ given
        PROVE  Claims(t)' = Claims(t)
    <3>1. task'[w][t] \in Acting <=> task[w][t] \in Acting
      BY <2>2 DEF Acting, InHand, Settled
    <3>2. QED
      BY <2>2, <2>3, <3>1, ClaimsFrame
  <2>6. given \in SUBSET Tasks /\ UNCHANGED <<rows, Broken>>
    BY <2>1 DEF Broken
  <2> HIDE DEF given
  <2>7. QED
    BY <2>4, <2>5, <2>6, GivesUp
<1>25. ASSUME NEW w \in Workers, LoseConnection(w) \/ Crash(w)
       PROVE  LedgerNext
  <2>1. /\ \A v \in Workers, t \in Tasks : v # w => task'[v][t] = task[v][t]
        /\ \A t \in Tasks : task'[w][t] = task[w][t] \/ task'[w][t] = "none"
    <3>1. CASE LoseConnection(w)
      BY <3>1 DEF LoseConnection
    <3>2. CASE Crash(w)
      BY <3>2 DEF Crash, TypeOK
    <3>3. QED
      BY <1>25, <3>1, <3>2
  <2>2. BrokerForgets(w) /\ UNCHANGED rows
    BY <1>25 DEF LoseConnection, Crash
  <2>3. \A t \in Tasks : /\ Claims(t) \in Nat /\ Claims(t)' \in Nat
                         /\ Claims(t)' - Claims(t) \in -1 .. 1
    BY <2>1, <2>2, FaultClaims
  <2>4. Broken' = Broken + 1
    BY <1>25, FaultIsCounted
  <2>5. QED
    BY <2>2, <2>3, <2>4, FaultStrikes
<1>26. QED
  BY <1>2, <1>3, <1>5, <1>6, <1>7, <1>8, <1>9, <1>10, <1>11, <1>12, <1>14, <1>15,
     <1>16, <1>18, <1>19, <1>21, <1>22, <1>23, <1>24, <1>25
     DEF Next, ServerSteps, BrokerSteps, Requests, LoopSteps, TaskSteps, Subscribe,
         ReceiveReply, CreateJob, PublishFails, AcceptJob, WindowElapses, NoticeLoss, vars

(* The pipeline is an at-least-once ledger: a row uses up a claim, and     *)
(* only a broken connection or a process that died grants another.         *)
THEOREM LedgerImplemented == Spec => ImplementsLedger
<1>1. Init => Ledger!Init
  <2> SUFFICES ASSUME Init, NEW t \in Tasks
               PROVE  Claims(t) = 1
    BY DEF Init, Ledger!Init, Broken
  <2>1. Active(t) = {} /\ Pending(t)
    BY DEF Init, Active, InHand, Settled, Pending
  <2>2. Cardinality({}) = 0
    BY FS_EmptySet
  <2>3. QED
    BY <2>1, <2>2 DEF Claims
<1>2. TypeOK /\ (Owned /\ Early) /\ [Next]_vars
        => [Ledger!Next]_<<[t \in Tasks |-> Claims(t)], rows, Broken>>
  BY LedgerStep DEF LedgerNext
<1>3. QED
  BY <1>1, <1>2, TypeCorrect, OwnedHolds, PTL DEF Spec, ImplementsLedger, Ledger!Spec

(* What the ledger adds up to.                                             *)
PaidFor == \A t \in Tasks : rows[t] + Claims(t) <= 1 + Broken

LEMMA ClaimsType ==
  ASSUME NEW t \in Tasks
  PROVE  Claims(t) \in Nat /\ Claims(t)' \in Nat
<1>1. Active(t) \in SUBSET Workers /\ Active(t)' \in SUBSET Workers
  BY DEF Active
<1>2. Cardinality(Active(t)) \in Nat /\ Cardinality(Active(t)') \in Nat
  BY <1>1, ProcessCount
<1>3. QED
  BY <1>2 DEF Claims

(* Rows and claims grow by no more than the faults.                        *)
LEMMA LedgerSum ==
  ASSUME TypeOK, LedgerNext, NEW t \in Tasks
  PROVE  rows'[t] + Claims(t)' + Broken <= rows[t] + Claims(t) + Broken'
<1>0. /\ \A s \in Tasks : Claims(s) \in Nat /\ Claims(s)' \in Nat /\ rows[s] \in Nat
      /\ Broken \in Nat
  BY ClaimsType, FaultTypes DEF TypeOK, Broken
<1>1. CASE UNCHANGED <<[s \in Tasks |-> Claims(s)], rows, Broken>>
  <2>1. Claims(t)' = Claims(t)
    BY <1>1
  <2>2. QED
    BY <1>0, <1>1, <2>1
<1>2. ASSUME NEW u \in Tasks, Ledger!Store(u)
      PROVE  rows'[t] + Claims(t)' + Broken <= rows[t] + Claims(t) + Broken'
  <2>1. /\ UNCHANGED Broken /\ rows' = [rows EXCEPT ![u] = @ + 1]
        /\ [s \in Tasks |-> Claims(s)'] = [[s \in Tasks |-> Claims(s)] EXCEPT ![u] = @ - 1]
    BY <1>2 DEF Ledger!Store
  <2>2. Claims(u)' = Claims(u) - 1 /\ \A s \in Tasks \ {u} : Claims(s)' = Claims(s)
    BY <2>1
  <2>3. rows'[u] = rows[u] + 1 /\ \A s \in Tasks \ {u} : rows'[s] = rows[s]
    BY <2>1 DEF TypeOK
  <2>4. rows'[t] + Claims(t)' = rows[t] + Claims(t)
    BY <1>0, <2>2, <2>3
  <2>5. QED
    BY <1>0, <2>1, <2>4
<1>3. ASSUME NEW given \in SUBSET Tasks, Ledger!GiveUp(given)
      PROVE  rows'[t] + Claims(t)' + Broken <= rows[t] + Claims(t) + Broken'
  BY <1>0, <1>3 DEF Ledger!GiveUp
<1>4. ASSUME NEW granted \in SUBSET Tasks, NEW given \in SUBSET Tasks,
             Ledger!Fault(granted, given)
      PROVE  rows'[t] + Claims(t)' + Broken <= rows[t] + Claims(t) + Broken'
  BY <1>0, <1>4 DEF Ledger!Fault
<1>5. QED
  BY <1>1, <1>2, <1>3, <1>4 DEF LedgerNext, Ledger!Next

LEMMA PaidHolds == Spec => []PaidFor
<1>1. Init => PaidFor
  <2> SUFFICES ASSUME Init, NEW t \in Tasks
               PROVE  rows[t] + Claims(t) <= 1 + Broken
    BY DEF PaidFor
  <2>1. Active(t) = {}
    BY DEF Init, Active, InHand, Settled
  <2>2. Cardinality({}) = 0
    BY FS_EmptySet
  <2>3. rows[t] = 0 /\ Broken = 0
    BY DEF Init, Broken
  <2>4. QED
    BY <2>1, <2>2, <2>3 DEF Claims
<1>2. TypeOK /\ (Owned /\ Early) /\ PaidFor /\ [Next]_vars => PaidFor'
  <2> SUFFICES ASSUME TypeOK, Owned, Early, PaidFor, [Next]_vars, NEW t \in Tasks
               PROVE  rows'[t] + Claims(t)' <= 1 + Broken'
    BY DEF PaidFor
  <2>1. TypeOK'
    BY TypeStep
  <2>2. /\ rows[t] \in Nat /\ rows'[t] \in Nat /\ Claims(t) \in Nat /\ Claims(t)' \in Nat
        /\ Broken \in Nat /\ Broken' \in Int
    BY <2>1, ClaimsType, FaultTypes, WorkerAssumption DEF TypeOK, Broken
  <2>3. rows'[t] + Claims(t)' + Broken <= rows[t] + Claims(t) + Broken'
    BY LedgerStep, LedgerSum
  <2>4. rows[t] + Claims(t) <= 1 + Broken
    BY DEF PaidFor
  <2>5. QED
    BY <2>2, <2>3, <2>4
<1>3. QED
  BY <1>1, <1>2, TypeCorrect, OwnedHolds, PTL DEF Spec

(* Every row of an email but the first is paid for by a fault.             *)
THEOREM RowsPaid == Spec => []RowsPaidFor
<1>1. TypeOK /\ PaidFor => RowsPaidFor
  <2> SUFFICES ASSUME TypeOK, PaidFor, NEW t \in Tasks
               PROVE  rows[t] <= 1 + Broken
    BY DEF RowsPaidFor
  <2>1. rows[t] \in Nat /\ Claims(t) \in Nat /\ Broken \in Nat
    BY ClaimsType, FaultTypes DEF TypeOK, Broken
  <2>2. QED
    BY <2>1 DEF PaidFor
<1>2. QED
  BY <1>1, TypeCorrect, PaidHolds, PTL
-----------------------------------------------------------------------------
(* What a completed job has.                                               *)

(* With one row per task at most, a job has as many rows as emails that    *)
(* were processed: no row stands for the missing one of another email.     *)
OneRow == \A t \in Tasks : rows[t] <= 1

LEMMA RowPerTask ==
  ASSUME TypeOK, OneRow, NEW j \in Jobs
  PROVE  /\ IsFiniteSet(Processed(j)) /\ IsFiniteSet(RowsOf(j))
         /\ JobRows(j) <= Cardinality(Processed(j))
<1> DEFINE f == [r \in RowsOf(j) |-> r[1]]
<1>1. IsFiniteSet(Processed(j))
  BY WorkerAssumption, FS_Subset DEF Processed, TasksOf
<1>2. \A r \in RowsOf(j) :
        /\ r[1] \in Processed(j)
        /\ r = <<r[1], 1>>
  <2> SUFFICES ASSUME NEW r \in RowsOf(j)
               PROVE  r[1] \in Processed(j) /\ r = <<r[1], 1>>
    OBVIOUS
  <2>1. PICK t \in TasksOf(j) : r \in {t} \X (1 .. rows[t])
    BY DEF RowsOf
  <2>2. rows[t] \in Nat /\ rows[t] <= 1
    BY DEF TypeOK, OneRow, TasksOf
  <2>3. PICK i \in 1 .. rows[t] : r = <<t, i>>
    BY <2>1
  <2>4. i = 1 /\ rows[t] > 0
    BY <2>2, <2>3
  <2>5. QED
    BY <2>3, <2>4 DEF Processed
<1>3. f \in Injection(RowsOf(j), Processed(j))
  BY <1>2 DEF Injection, IsInjective
<1>4. QED
  BY <1>1, <1>3, FS_Injection DEF JobRows

(* As long as no connection breaks and no process dies, a job that is      *)
(* reported as completed has a row of each of its emails, whatever INSERTs *)
(* failed.                                                                 *)
THEOREM CompletedJobHasAll == Spec => []CompletedHasAll
<1>1. TypeOK /\ RowsPaidFor => CompletedHasAll
  <2> SUFFICES ASSUME TypeOK, RowsPaidFor, NEW j \in Jobs, Completed(j), Broken = 0
               PROVE  Processed(j) = TasksOf(j)
    BY DEF CompletedHasAll
  <2>0. OneRow
    BY DEF RowsPaidFor, OneRow
  <2>1. Processed(j) \subseteq TasksOf(j)
    BY DEF Processed
  <2>2. IsFiniteSet(TasksOf(j))
    BY WorkerAssumption, FS_Subset DEF TasksOf
  <2>3. /\ JobRows(j) <= Cardinality(Processed(j))
        /\ IsFiniteSet(Processed(j))
    BY <2>0, RowPerTask
  <2>4. Cardinality(Processed(j)) <= Cardinality(TasksOf(j))
    BY <2>1, <2>2, FS_Subset
  <2>5. Cardinality(TasksOf(j)) \in Nat /\ Cardinality(Processed(j)) \in Nat
    BY <2>2, <2>3, FS_CardinalityType
  <2>6. Cardinality(TasksOf(j)) = Cardinality(Processed(j))
    <3>1. JobRows(j) >= Cardinality(TasksOf(j))
      BY DEF Completed
    <3>2. IsFiniteSet(RowsOf(j)) /\ JobRows(j) \in Int
      BY <2>0, RowPerTask, FS_CardinalityType DEF JobRows
    <3>3. QED
      BY <2>3, <2>4, <2>5, <3>1, <3>2
  <2>7. QED
    BY <2>1, <2>2, <2>6, FS_Subset
<1>2. QED
  BY <1>1, TypeCorrect, RowsPaid, PTL

-----------------------------------------------------------------------------
(* The progress of a job implements JobLedger.                             *)

(* The rows of a job can be counted.                                       *)
RowsCounted == \A j \in Jobs : IsFiniteSet(RowsOf(j)) /\ JobRows(j) \in Nat

LEMMA RowsAreCounted == Spec => []RowsCounted
<1>1. TypeOK /\ RowsPaidFor => RowsCounted
  <2> SUFFICES ASSUME TypeOK, RowsPaidFor, NEW j \in Jobs
               PROVE  IsFiniteSet(RowsOf(j)) /\ JobRows(j) \in Nat
    BY DEF RowsCounted
  <2>1. Broken \in Nat
    BY FaultTypes DEF Broken
  <2>2. IsFiniteSet(TasksOf(j)) /\ IsFiniteSet(1 .. (1 + Broken))
    BY <2>1, WorkerAssumption, FS_Subset, FS_Interval DEF TasksOf
  <2>3. IsFiniteSet(TasksOf(j) \X (1 .. (1 + Broken)))
    BY <2>2, FS_Product
  <2>4. RowsOf(j) \subseteq TasksOf(j) \X (1 .. (1 + Broken))
    <3> SUFFICES ASSUME NEW t \in TasksOf(j)
                 PROVE  {t} \X (1 .. rows[t]) \subseteq TasksOf(j) \X (1 .. (1 + Broken))
      BY DEF RowsOf
    <3>1. rows[t] \in Nat /\ rows[t] <= 1 + Broken
      BY DEF TypeOK, RowsPaidFor, TasksOf
    <3>2. 1 .. rows[t] \subseteq 1 .. (1 + Broken)
      BY <2>1, <3>1
    <3>3. QED
      BY <3>2
  <2>5. QED
    BY <2>3, <2>4, FS_Subset, FS_CardinalityType DEF JobRows
<1>2. QED
  BY <1>1, TypeCorrect, RowsPaid, PTL

(* A step that leaves the rows of a job alone and neither creates nor      *)
(* forgets the job leaves its progress alone.                              *)
LEMMA ProgressFrame ==
  ASSUME NEW j \in Jobs,
         \A t \in TasksOf(j) : rows'[t] = rows[t],
         job'[j] = "none" <=> job[j] = "none"
  PROVE  JobStatus(j)' = JobStatus(j)
<1>1. RowsOf(j)' = RowsOf(j)
  BY DEF RowsOf, TasksOf
<1>2. Completed(j)' = Completed(j)
  BY <1>1 DEF Completed, JobRows, TasksOf
<1>3. QED
  BY <1>2 DEF JobStatus

(* A step that leaves the progress of every job alone is a stutter.        *)
LEMMA ProgressStutter ==
  ASSUME \A j \in Jobs : JobStatus(j)' = JobStatus(j)
  PROVE  [Progress!Next]_[j \in Jobs |-> JobStatus(j)]
<1>1. [j \in Jobs |-> JobStatus(j)'] = [j \in Jobs |-> JobStatus(j)]
  OBVIOUS
<1>2. QED
  BY <1>1

(* A job that is complete stays so when a row is added.                    *)
LEMMA CompleteForGood ==
  ASSUME TypeOK, TypeOK', RowsCounted, RowsCounted', NEW j \in Jobs,
         \A t \in TasksOf(j) : rows'[t] >= rows[t]
  PROVE  Completed(j) => Completed(j)'
<1>1. RowsOf(j) \subseteq RowsOf(j)'
  <2> SUFFICES ASSUME NEW r \in RowsOf(j) PROVE r \in RowsOf(j)'
    OBVIOUS
  <2>1. PICK t \in TasksOf(j) : r \in {t} \X (1 .. rows[t])
    BY DEF RowsOf
  <2>2. rows[t] \in Nat /\ rows'[t] \in Nat /\ rows'[t] >= rows[t]
    BY DEF TypeOK, TasksOf
  <2>3. r \in {t} \X (1 .. rows'[t])
    BY <2>1, <2>2
  <2>4. QED
    BY <2>3 DEF RowsOf, TasksOf
<1>2. /\ IsFiniteSet(RowsOf(j)') /\ JobRows(j)' \in Nat
      /\ IsFiniteSet(RowsOf(j)) /\ JobRows(j) \in Nat
  BY DEF RowsCounted
<1>3. JobRows(j)' >= JobRows(j)
  BY <1>1, <1>2, FS_Subset DEF JobRows
<1>4. Cardinality(TasksOf(j)) \in Nat /\ TasksOf(j)' = TasksOf(j)
  BY WorkerAssumption, FS_Subset, FS_CardinalityType DEF TasksOf
<1>5. QED
  BY <1>2, <1>3, <1>4 DEF Completed

(* Only CreateJob makes a job and only Store adds a row; a job that is     *)
(* given up or accepted is as far as it was.                               *)
LEMMA ProgressStep ==
  ASSUME TypeOK, TypeOK', RowsCounted, RowsCounted', [Next]_vars
  PROVE  [Progress!Next]_[j \in Jobs |-> JobStatus(j)]
<1>1. ASSUME UNCHANGED rows, \A j \in Jobs : job'[j] = "none" <=> job[j] = "none"
      PROVE  [Progress!Next]_[i \in Jobs |-> JobStatus(i)]
  <2>1. \A j \in Jobs : JobStatus(j)' = JobStatus(j)
    BY <1>1, ProgressFrame
  <2>2. QED
    BY <2>1, ProgressStutter
<1>2. CASE UNCHANGED <<rows, job>>
  BY <1>2, <1>1
<1>3. ASSUME NEW t \in Tasks, PublishFails(t)
      PROVE  [Progress!Next]_[i \in Jobs |-> JobStatus(i)]
  <2>1. \A j \in Jobs : job'[j] = "none" <=> job[j] = "none"
    BY <1>3 DEF PublishFails, TypeOK
  <2>2. QED
    BY <1>1, <1>3, <2>1 DEF PublishFails
<1>4. ASSUME NEW j \in Jobs, AcceptJob(j)
      PROVE  [Progress!Next]_[i \in Jobs |-> JobStatus(i)]
  <2>1. \A i \in Jobs : job'[i] = "none" <=> job[i] = "none"
    BY <1>4 DEF AcceptJob, TypeOK
  <2>2. QED
    BY <1>1, <1>4, <2>1 DEF AcceptJob
<1>5. ASSUME NEW w \in Workers, Crash(w)
      PROVE  [Progress!Next]_[i \in Jobs |-> JobStatus(i)]
  <2>1. \A j \in Jobs : job'[j] = "none" <=> job[j] = "none"
    BY <1>5 DEF Crash, TypeOK
  <2>2. QED
    BY <1>1, <1>5, <2>1 DEF Crash
<1>6. ASSUME NEW j \in Jobs, NEW w \in Workers, CreateJob(j, w)
      PROVE  [Progress!Next]_[i \in Jobs |-> JobStatus(i)]
  <2>1. /\ job[j] = "none" /\ job'[j] = "publishing" /\ UNCHANGED rows
        /\ \A i \in Jobs \ {j} : job'[i] = job[i]
    BY <1>6 DEF CreateJob, TypeOK
  <2>2. \A i \in Jobs \ {j} : JobStatus(i)' = JobStatus(i)
    BY <2>1, ProgressFrame
  <2>3. JobStatus(j) = "new" /\ JobStatus(j)' \in {"running", "complete"}
    BY <2>1 DEF JobStatus
  <2>4. Progress!Create(j)
    BY <2>2, <2>3 DEF Progress!Create
  <2>5. QED
    BY <2>4 DEF Progress!Next
<1>7. ASSUME NEW w \in Workers, NEW t \in Tasks, Store(w, t)
      PROVE  [Progress!Next]_[i \in Jobs |-> JobStatus(i)]
  <2> DEFINE j == JobOf[t]
  <2>1. rows' = [rows EXCEPT ![t] = @ + 1] /\ UNCHANGED job
    BY <1>7 DEF Store, http
  <2>2. \A i \in Jobs \ {j} : JobStatus(i)' = JobStatus(i)
    <3> SUFFICES ASSUME NEW i \in Jobs, i # j PROVE JobStatus(i)' = JobStatus(i)
      OBVIOUS
    <3>1. \A s \in TasksOf(i) : rows'[s] = rows[s]
      BY <2>1 DEF TasksOf, TypeOK
    <3>2. QED
      BY <2>1, <3>1, ProgressFrame
  <2>3. CASE j \notin Jobs
    BY <2>2, <2>3, ProgressStutter
  <2>4. CASE j \in Jobs
    <3>1. \A s \in TasksOf(j) : rows'[s] >= rows[s]
      BY <2>1 DEF TasksOf, TypeOK
    <3>2. Completed(j) => Completed(j)'
      BY <2>4, <3>1, CompleteForGood
    <3>3. \/ JobStatus(j)' = JobStatus(j)
          \/ JobStatus(j) = "running" /\ JobStatus(j)' = "complete"
      BY <2>1, <3>2 DEF JobStatus
    <3>4. CASE JobStatus(j)' = JobStatus(j)
      BY <2>2, <3>4, ProgressStutter
    <3>5. CASE JobStatus(j) = "running" /\ JobStatus(j)' = "complete"
      <4>1. Progress!Finish(j)
        BY <2>2, <2>4, <3>5 DEF Progress!Finish
      <4>2. QED
        BY <2>4, <4>1 DEF Progress!Next
    <3>6. QED
      BY <3>3, <3>4, <3>5
  <2>5. QED
    BY <2>3, <2>4
<1>8. QED
  BY <1>2, <1>3, <1>4, <1>5, <1>6, <1>7
     DEF Next, ServerSteps, Requests, LoopSteps, TaskSteps, RefuseRequest, Request,
         RequestFails, Subscribe, ReceiveReply, PublishTask, Arrive, WindowElapses,
         Deliver, RejectSingleShot, ReplyThrottled, RejectBulk, StartCheck, RequeueOnce,
         Acknowledge, Orphaned, SendReply, ReplyFails, StoreFails, LoseConnection,
         NoticeLoss, LoopEnds, CheckEnds, WebhookEnds, BrokerSteps, HandleVerb,
         HandleReply, vars, http

(* A job that get_progress.rs reported as completed is never reported as   *)
(* running again, with any number of processes and faults.                 *)
THEOREM JobLedgerImplemented == Spec => ImplementsJobLedger
<1>1. Init => Progress!Init
  BY DEF Init, Progress!Init, JobStatus
<1>2. TypeOK /\ TypeOK' /\ RowsCounted /\ RowsCounted' /\ [Next]_vars
        => [Progress!Next]_[j \in Jobs |-> JobStatus(j)]
  BY ProgressStep
<1>3. QED
  BY <1>1, <1>2, TypeCorrect, RowsAreCounted, PTL
     DEF Spec, ImplementsJobLedger, Progress!Spec

-----------------------------------------------------------------------------
(* Deliveries in hand.                                                     *)

Hands(w) == {t \in Tasks : task[w][t] \in InHand}

(* Deliveries come one at a time and under the limit; what stays behind of *)
(* a closed channel only becomes less.                                     *)
FewInHand ==
  \A w \in Workers : IsFiniteSet(Hands(w)) /\ Cardinality(Hands(w)) <= Concurrency

LEMMA FewerInHand ==
  ASSUME FewInHand, NEW w \in Workers, Hands(w)' \subseteq Hands(w)
  PROVE  IsFiniteSet(Hands(w)') /\ Cardinality(Hands(w)') <= Concurrency
<1>1. IsFiniteSet(Hands(w)) /\ Cardinality(Hands(w)) <= Concurrency
  BY DEF FewInHand
<1>2. /\ IsFiniteSet(Hands(w)')
      /\ Cardinality(Hands(w)') <= Cardinality(Hands(w))
  BY <1>1, FS_Subset
<1>3. Cardinality(Hands(w)) \in Nat /\ Cardinality(Hands(w)') \in Nat
  BY <1>1, <1>2, FS_CardinalityType
<1>4. QED
  BY <1>1, <1>2, <1>3, WorkerAssumption

LEMMA InHandStep ==
  ASSUME TypeOK, Owned, FewInHand, [Next]_vars
  PROVE  FewInHand'
<1> DEFINE Fewer == \A w \in Workers : Hands(w)' \subseteq Hands(w)
<1>1. Fewer => FewInHand'
  BY FewerInHand DEF FewInHand
<1>2. ASSUME NEW w \in Workers, NEW t \in Tasks, Deliver(w, t)
      PROVE  FewInHand'
  <2>1. channel[w] = "open" /\ Cardinality(Unacked(w)) < Concurrency
    BY <1>2 DEF Deliver
  <2>2. Hands(w) \subseteq Unacked(w)
    BY <2>1 DEF Unacked, Hands, Owned
  <2>3. IsFiniteSet(Unacked(w))
    BY WorkerAssumption, FS_Subset DEF Unacked
  <2>4. /\ IsFiniteSet(Hands(w)) /\ Cardinality(Hands(w)) <= Cardinality(Unacked(w))
        /\ Cardinality(Hands(w)) \in Nat /\ Cardinality(Unacked(w)) \in Nat
    BY <2>2, <2>3, FS_Subset, FS_CardinalityType
  <2>5. task[w][t] = "none"
    BY <1>2, DeliverStep
  <2>6. t \notin Hands(w) /\ Hands(w)' = Hands(w) \cup {t}
    BY <1>2, <2>5 DEF Deliver, HandOver, Hands, InHand, TypeOK
  <2>7. IsFiniteSet(Hands(w)') /\ Cardinality(Hands(w)') <= Concurrency
    <3>1. /\ IsFiniteSet(Hands(w)')
          /\ Cardinality(Hands(w)') = Cardinality(Hands(w)) + 1
      BY <2>4, <2>6, FS_AddElement
    <3>2. QED
      BY <2>1, <2>4, <3>1, WorkerAssumption
  <2>8. \A v \in Workers \ {w} : Hands(v)' = Hands(v)
    BY <1>2 DEF Deliver, HandOver, Hands, TypeOK
  <2>9. QED
    BY <2>7, <2>8 DEF FewInHand
<1>3. ASSUME NEW w \in Workers, NEW t \in Tasks, NEW p,
             p \in InHand => task[w][t] \in InHand,
             task' = [task EXCEPT ![w][t] = p]
      PROVE  Fewer
  BY <1>3 DEF Hands, TypeOK
<1>4. ASSUME NEW w \in Workers, NEW t \in Tasks, StartCheck(w, t) \/ WebhookEnds(w, t)
      PROVE  Fewer
  BY <1>3, <1>4 DEF StartCheck, WebhookEnds, InHand
<1>5. ASSUME NEW w \in Workers, NEW t \in Tasks, CheckEnds(w, t)
      PROVE  Fewer
  BY <1>3, <1>5 DEF CheckEnds, InHand
<1>6. "none" \notin InHand /\ "acked" \notin InHand /\ "replied" \notin InHand
        /\ "rejected" \notin InHand
  BY DEF InHand
<1>7. ASSUME NEW w \in Workers, NEW t \in Tasks,
             \/ RejectSingleShot(w, t) \/ ReplyThrottled(w, t) \/ RejectBulk(w, t)
             \/ Orphaned(w, t) \/ RequeueOnce(w, t)
      PROVE  Fewer
  BY <1>3, <1>6, <1>7
     DEF RejectSingleShot, ReplyThrottled, RejectBulk, Orphaned, RequeueOnce, Leave
<1>8. ASSUME NEW w \in Workers, NEW t \in Tasks,
             \/ Acknowledge(w, t) \/ SendReply(w, t) \/ ReplyFails(w, t)
             \/ Store(w, t) \/ StoreFails(w, t)
      PROVE  Fewer
  BY <1>3, <1>6, <1>8 DEF Acknowledge, SendReply, ReplyFails, Store, StoreFails, Leave
<1>9. ASSUME NEW w \in Workers, LoopEnds(w) \/ Crash(w)
      PROVE  Fewer
  <2>1. \A v \in Workers, t \in Tasks : task'[v][t] \in {task[v][t], "none"}
    <3>1. CASE LoopEnds(w)
      BY <3>1 DEF LoopEnds, TypeOK
    <3>2. CASE Crash(w)
      BY <3>2 DEF Crash, TypeOK
    <3>3. QED
      BY <1>9, <3>1, <3>2
  <2>2. QED
    BY <1>6, <2>1 DEF Hands
<1>10. UNCHANGED task => Fewer
  BY DEF Hands
<1>11. QED
  BY <1>1, <1>2, <1>4, <1>5, <1>7, <1>8, <1>9, <1>10
     DEF Next, ServerSteps, BrokerSteps, Requests, LoopSteps, TaskSteps, RefuseRequest,
         Request, RequestFails, Subscribe, ReceiveReply, PublishTask, PublishFails,
         CreateJob, AcceptJob, Arrive, HandleVerb, HandleReply, WindowElapses,
         LoseConnection, NoticeLoss, run, vars

(* rabbitmq.concurrency bounds what a process works on, the checks that    *)
(* outlive their channel included.                                         *)
THEOREM ConcurrencyBounded == Spec => []ConcurrencyBound
<1>1. Init => FewInHand
  <2> SUFFICES ASSUME Init, NEW w \in Workers
               PROVE  IsFiniteSet(Hands(w)) /\ Cardinality(Hands(w)) <= Concurrency
    BY DEF FewInHand
  <2>1. Hands(w) = {}
    BY DEF Init, Hands, InHand
  <2>2. IsFiniteSet({}) /\ Cardinality({}) = 0
    BY FS_EmptySet
  <2>3. 0 <= Concurrency
    BY WorkerAssumption
  <2>4. QED
    BY <2>1, <2>2, <2>3
<1>2. TypeOK /\ (Owned /\ Early) /\ FewInHand /\ [Next]_vars => FewInHand'
  BY InHandStep
<1>3. FewInHand => ConcurrencyBound
  BY DEF FewInHand, Hands, ConcurrencyBound
<1>4. QED
  BY <1>1, <1>2, <1>3, TypeCorrect, OwnedHolds, PTL DEF Spec

-----------------------------------------------------------------------------
(* Accepted jobs.                                                          *)

Past == {"webhook", "checked", "acked", "replied"}

(* Observations and faults are never taken back.                           *)
LEMMA Grows ==
  ASSUME TypeOK, [Next]_vars
  PROVE  /\ \A t \in Tasks : checks'[t] >= checks[t] /\ rows'[t] >= rows[t]
         /\ faults'.losses >= faults.losses /\ faults'.crashes >= faults.crashes
         /\ faults'.stores >= faults.stores
<1> USE DEF broker, run, http
<1>1. /\ checks \in [Tasks -> Nat] /\ rows \in [Tasks -> Nat]
      /\ faults.losses \in Nat /\ faults.crashes \in Nat /\ faults.stores \in Nat
      /\ faults \in FaultCounts
  BY FaultTypes DEF TypeOK, FaultCounts
<1>2. UNCHANGED checks \/ \E t \in Tasks : checks' = [checks EXCEPT ![t] = @ + 1]
  BY DEF Next, ServerSteps, BrokerSteps, Requests, LoopSteps, TaskSteps, RefuseRequest,
         Request, RequestFails, Subscribe, ReceiveReply, PublishTask, PublishFails,
         CreateJob, AcceptJob, Arrive, Deliver, HandleVerb, HandleReply,
         RejectSingleShot, ReplyThrottled, RejectBulk, StartCheck, LoopEnds,
         WindowElapses, CheckEnds, WebhookEnds, RequeueOnce, Acknowledge, Orphaned,
         SendReply, ReplyFails, Store, StoreFails, LoseConnection, NoticeLoss, Crash, vars
<1>3. UNCHANGED rows \/ \E t \in Tasks : rows' = [rows EXCEPT ![t] = @ + 1]
  BY DEF Next, ServerSteps, BrokerSteps, Requests, LoopSteps, TaskSteps, RefuseRequest,
         Request, RequestFails, Subscribe, ReceiveReply, PublishTask, PublishFails,
         CreateJob, AcceptJob, Arrive, Deliver, HandleVerb, HandleReply,
         RejectSingleShot, ReplyThrottled, RejectBulk, StartCheck, LoopEnds,
         WindowElapses, CheckEnds, WebhookEnds, RequeueOnce, Acknowledge, Orphaned,
         SendReply, ReplyFails, Store, StoreFails, LoseConnection, NoticeLoss, Crash, vars
<1>4. \/ UNCHANGED faults
      \/ faults' = [faults EXCEPT !.losses = @ + 1]
      \/ faults' = [faults EXCEPT !.crashes = @ + 1]
      \/ faults' = [faults EXCEPT !.stores = @ + 1]
  BY DEF Next, ServerSteps, BrokerSteps, Requests, LoopSteps, TaskSteps, RefuseRequest,
         Request, RequestFails, Subscribe, ReceiveReply, PublishTask, PublishFails,
         CreateJob, AcceptJob, Arrive, Deliver, HandleVerb, HandleReply,
         RejectSingleShot, ReplyThrottled, RejectBulk, StartCheck, LoopEnds,
         WindowElapses, CheckEnds, WebhookEnds, RequeueOnce, Acknowledge, Orphaned,
         SendReply, ReplyFails, Store, StoreFails, LoseConnection, NoticeLoss, Crash, vars
<1>5. \A t \in Tasks : checks'[t] >= checks[t]
  BY <1>1, <1>2
<1>6. \A t \in Tasks : rows'[t] >= rows[t]
  BY <1>1, <1>3
<1>7. /\ faults'.losses >= faults.losses /\ faults'.crashes >= faults.crashes
      /\ faults'.stores >= faults.stores
  BY <1>1, <1>4 DEF FaultCounts
<1>8. QED
  BY <1>5, <1>6, <1>7

(* What is said about a delivery says how far its run got, and a channel   *)
(* that is not open was lost.                                              *)
Seen ==
  /\ \A f \in frames : /\ f.what = "drop" => ~ Bulk(f.of)
                       /\ f.what = "ack" => checks[f.of] > 0
  /\ \A w \in Workers, t \in Tasks : task[w][t] \in Past => checks[t] > 0
  /\ \A w \in Workers : channel[w] # "open" => faults.losses > 0

LEMMA SeenFrame ==
  ASSUME TypeOK, Seen, [Next]_vars,
         \A f \in frames' : \/ f \in frames
                            \/ /\ f.what = "drop" => ~ Bulk(f.of)
                               /\ f.what = "ack" => f.of \in Tasks /\ checks[f.of] > 0,
         \A w \in Workers, t \in Tasks : task'[w][t] \in Past =>
           task[w][t] \in Past \/ checks'[t] > 0,
         \A w \in Workers : channel'[w] # "open" => channel[w] # "open" \/ faults'.losses > 0
  PROVE  Seen'
<1>1. /\ \A t \in Tasks : checks[t] > 0 => checks'[t] > 0
      /\ faults.losses > 0 => faults'.losses > 0
  <2>1. /\ \A t \in Tasks : checks[t] \in Nat /\ checks'[t] >= checks[t]
        /\ faults.losses \in Nat /\ faults'.losses >= faults.losses
    BY Grows, FaultTypes DEF TypeOK
  <2>2. /\ \A t \in Tasks : checks'[t] \in Int
        /\ faults'.losses \in Int
    <3>1. TypeOK'
      BY TypeStep
    <3>2. QED
      BY <3>1, FaultTypes DEF TypeOK
  <2>3. QED
    BY <2>1, <2>2
<1>2. \A f \in frames : f.of \in Tasks
  BY FrameParts
<1>3. QED
  BY <1>1, <1>2 DEF Seen, Bulk

(* The publisher of a job is known, and nobody waits for a bulk task.      *)
Requested ==
  \A t \in Tasks : Bulk(t) =>
    /\ client[t] = "idle"
    /\ job[JobOf[t]] # "none" => home[t] \in Workers

LEMMA RequestedStep ==
  ASSUME TypeOK, Requested, [Next]_vars
  PROVE  Requested'
<1> USE DEF http
<1>1. CASE UNCHANGED <<job, home, client>>
  BY <1>1 DEF Requested, Bulk
<1>2. ASSUME NEW t \in Tasks, NEW w \in Workers,
             RefuseRequest(t, w) \/ RequestFails(t, w)
      PROVE  Requested'
  BY <1>2 DEF RefuseRequest, RequestFails, Requested, Bulk, TypeOK
<1>3. ASSUME NEW t \in Tasks, NEW w \in Workers, Request(t, w)
      PROVE  Requested'
  BY <1>3 DEF Request, Requested, Bulk, TypeOK
<1>4. ASSUME NEW t \in Tasks, Subscribe(t) \/ ReceiveReply(t)
      PROVE  Requested'
  BY <1>4 DEF Subscribe, ReceiveReply, Requested, Bulk, TypeOK
<1>5. ASSUME NEW j \in Jobs, NEW w \in Workers, CreateJob(j, w)
      PROVE  Requested'
  BY <1>5 DEF CreateJob, Requested, Bulk, TypeOK
<1>6. ASSUME UNCHANGED <<home, client>>, \A j \in Jobs : job'[j] # "none" => job[j] # "none"
      PROVE  Requested'
  BY <1>6, WorkerAssumption DEF Requested, Bulk
<1>7. ASSUME NEW t \in Tasks, PublishFails(t)
      PROVE  Requested'
  BY <1>6, <1>7, WorkerAssumption DEF PublishFails, Bulk, TypeOK
<1>8. ASSUME NEW j \in Jobs, AcceptJob(j)
      PROVE  Requested'
  BY <1>6, <1>8 DEF AcceptJob, TypeOK
<1>9. ASSUME NEW w \in Workers, NoticeLoss(w) \/ Crash(w)
      PROVE  Requested'
  <2>1. \A j \in Jobs : job'[j] # "none" => job[j] # "none"
    BY <1>9 DEF NoticeLoss, Crash
  <2>2. \A t \in Tasks : client[t] = "idle" => client'[t] = "idle"
    BY <1>9 DEF NoticeLoss, Crash, Waiting
  <2>3. UNCHANGED home
    BY <1>9 DEF NoticeLoss, Crash
  <2>4. QED
    BY <2>1, <2>2, <2>3, WorkerAssumption DEF Requested, Bulk
<1>10. QED
  BY <1>1, <1>2, <1>3, <1>4, <1>5, <1>7, <1>8, <1>9
     DEF Next, ServerSteps, BrokerSteps, Requests, LoopSteps, TaskSteps, PublishTask, Arrive,
         Deliver, HandleVerb, HandleReply, RejectSingleShot, ReplyThrottled, RejectBulk,
         StartCheck, LoopEnds, WindowElapses, CheckEnds, WebhookEnds, RequeueOnce,
         Acknowledge, Orphaned, SendReply, ReplyFails, Store, StoreFails, LoseConnection, vars

LEMMA RequestedHolds == Spec => []Requested
<1>1. Init => Requested
  BY WorkerAssumption DEF Init, Requested, Bulk
<1>2. TypeOK /\ Requested /\ [Next]_vars => Requested'
  BY RequestedStep
<1>3. QED
  BY <1>1, <1>2, TypeCorrect, PTL DEF Spec

LEMMA SeenStep ==
  ASSUME TypeOK, Owned, Seen, [Next]_vars
  PROVE  Seen'
<1> USE DEF broker, run, http
<1>1. CASE UNCHANGED <<frames, task, channel>>
  BY <1>1, SeenFrame
<1>2. ASSUME NEW t \in Tasks, NEW w \in Workers,
             RefuseRequest(t, w) \/ Request(t, w) \/ RequestFails(t, w)
      PROVE  Seen'
  BY <1>1, <1>2 DEF RefuseRequest, Request, RequestFails
<1>3. ASSUME NEW w \in Workers, NEW t \in Tasks, NEW p,
             task' = [task EXCEPT ![w][t] = p],
             p \in Past => task[w][t] \in Past \/ checks'[t] > 0,
             \A f \in frames' : f \in frames \/ f.what \notin {"ack", "drop"},
             UNCHANGED channel
      PROVE  Seen'
  <2>1. \A v \in Workers, s \in Tasks : task'[v][s] \in Past =>
          task[v][s] \in Past \/ checks'[s] > 0
    BY <1>3 DEF TypeOK
  <2>2. QED
    BY <1>3, <2>1, SeenFrame
<1>4. ASSUME NEW w \in Workers, NEW t \in Tasks, NEW a \in {"requeue", "throttled", "result"},
             Write(w, t, a)
      PROVE  \A f \in frames' : f \in frames \/ f.what \notin {"ack", "drop"}
  <2>1. a \in Verbs \cup Answers
    BY DEF Verbs, Answers
  <2>2. \A f \in frames' : f \in frames \/ f.what = a
    BY <1>4, <2>1, WriteAdds
  <2>3. QED
    BY <2>2
<1>5. ASSUME NEW w \in Workers, NEW t \in Tasks,
             RejectBulk(w, t) \/ RequeueOnce(w, t) \/ ReplyThrottled(w, t)
      PROVE  Seen'
  <2>1. /\ task' = [task EXCEPT ![w][t] = "none"] /\ UNCHANGED channel
        /\ Write(w, t, "requeue") \/ Write(w, t, "throttled")
    BY <1>5 DEF RejectBulk, RequeueOnce, ReplyThrottled, Leave
  <2>2. "none" \notin Past
    BY DEF Past
  <2>3. \A f \in frames' : f \in frames \/ f.what \notin {"ack", "drop"}
    BY <1>4, <2>1
  <2>4. QED
    BY <1>3, <2>1, <2>2, <2>3
<1>6. ASSUME NEW w \in Workers, NEW t \in Tasks, SendReply(w, t)
      PROVE  Seen'
  <2>1. /\ task' = [task EXCEPT ![w][t] = "replied"] /\ UNCHANGED channel
        /\ Write(w, t, "result") /\ task[w][t] \in Past
    BY <1>6 DEF SendReply, Past
  <2>2. \A f \in frames' : f \in frames \/ f.what \notin {"ack", "drop"}
    BY <1>4, <2>1
  <2>3. QED
    BY <1>3, <2>1, <2>2
<1>7. ASSUME NEW w \in Workers, NEW t \in Tasks, Deliver(w, t)
      PROVE  Seen'
  BY <1>3, <1>7 DEF Deliver, HandOver, Past
<1>8. ASSUME NEW w \in Workers, NEW t \in Tasks, StartCheck(w, t) \/ WebhookEnds(w, t)
      PROVE  Seen'
  <2>1. CASE StartCheck(w, t)
    BY <1>3, <2>1 DEF StartCheck, Past
  <2>2. CASE WebhookEnds(w, t)
    <3>1. task[w][t] \in Past
      BY <2>2 DEF WebhookEnds, Past
    <3>2. QED
      BY <1>3, <2>2, <3>1 DEF WebhookEnds
  <2>3. QED
    BY <1>8, <2>1, <2>2
<1>9. ASSUME NEW w \in Workers, NEW t \in Tasks, CheckEnds(w, t)
      PROVE  Seen'
  <2>1. checks'[t] > 0
    BY <1>9 DEF CheckEnds, TypeOK
  <2>2. PICK p : task' = [task EXCEPT ![w][t] = p]
    BY <1>9 DEF CheckEnds
  <2>3. UNCHANGED <<frames, channel>>
    BY <1>9 DEF CheckEnds
  <2>4. QED
    BY <1>3, <2>1, <2>2, <2>3
<1>10. ASSUME NEW w \in Workers, NEW t \in Tasks,
              Orphaned(w, t) \/ ReplyFails(w, t) \/ Store(w, t) \/ StoreFails(w, t)
       PROVE  Seen'
  <2>1. task' = [task EXCEPT ![w][t] = "none"] /\ UNCHANGED <<frames, channel>>
    BY <1>10 DEF Orphaned, ReplyFails, Store, StoreFails, Leave
  <2>2. "none" \notin Past
    BY DEF Past
  <2>3. QED
    BY <1>3, <2>1, <2>2
<1>11. ASSUME NEW w \in Workers, NEW t \in Tasks, RejectSingleShot(w, t)
       PROVE  Seen'
  <2>1. /\ ~ Bulk(t) /\ Write(w, t, "drop") /\ UNCHANGED channel
        /\ task' = [task EXCEPT ![w][t] = "rejected"]
    BY <1>11 DEF RejectSingleShot
  <2>2. \A f \in frames' : f \in frames \/ (f.of = t /\ f.what = "drop")
    <3>1. "drop" \in Verbs \cup Answers
      BY DEF Verbs
    <3>2. QED
      BY <2>1, <3>1, WriteAdds
  <2>3. \A v \in Workers, s \in Tasks : task'[v][s] \in Past => task[v][s] \in Past
    BY <2>1 DEF Past, TypeOK
  <2>4. QED
    BY <2>1, <2>2, <2>3, SeenFrame
<1>12. ASSUME NEW w \in Workers, NEW t \in Tasks, Acknowledge(w, t)
       PROVE  Seen'
  <2>1. /\ task[w][t] = "checked" /\ Write(w, t, "ack") /\ UNCHANGED <<channel, checks>>
        /\ task' = [task EXCEPT ![w][t] = "acked"]
    BY <1>12 DEF Acknowledge
  <2>2. checks[t] > 0
    BY <2>1 DEF Seen, Past
  <2>3. \A f \in frames' : f \in frames \/ (f.of = t /\ f.what = "ack")
    <3>1. "ack" \in Verbs \cup Answers
      BY DEF Verbs
    <3>2. QED
      BY <2>1, <3>1, WriteAdds
  <2>4. \A v \in Workers, s \in Tasks : task'[v][s] \in Past =>
          task[v][s] \in Past \/ checks'[s] > 0
    BY <2>1, <2>2 DEF TypeOK
  <2>5. QED
    BY <2>1, <2>2, <2>3, <2>4, SeenFrame
<1>13. ASSUME NEW f \in frames, HandleVerb(f) \/ HandleReply(f)
       PROVE  Seen'
  <2>1. frames' = frames \ {f} /\ UNCHANGED <<task, channel>>
    BY <1>13 DEF HandleVerb, HandleReply
  <2>2. QED
    BY <2>1, SeenFrame
<1>14. ASSUME NEW w \in Workers, LoopEnds(w)
       PROVE  Seen'
  <2>1. \A v \in Workers, s \in Tasks : task'[v][s] \in {task[v][s], "none"}
    BY <1>14 DEF LoopEnds, TypeOK
  <2>2. "none" \notin Past
    BY DEF Past
  <2>3. QED
    BY <1>14, <2>1, <2>2, SeenFrame DEF LoopEnds
<1>15. ASSUME NEW w \in Workers, LoseConnection(w) \/ NoticeLoss(w) \/ Crash(w)
       PROVE  Seen'
  <2>1. \A v \in Workers, s \in Tasks : task'[v][s] \in {task[v][s], "none"}
    <3>1. CASE Crash(w)
      BY <3>1 DEF Crash, TypeOK
    <3>2. CASE LoseConnection(w) \/ NoticeLoss(w)
      BY <3>2 DEF LoseConnection, NoticeLoss
    <3>3. QED
      BY <1>15, <3>1, <3>2
  <2>2. "none" \notin Past /\ frames' \subseteq frames
    BY <1>15 DEF Past, LoseConnection, NoticeLoss, Crash, BrokerForgets
  <2>3. \A v \in Workers : channel'[v] # "open" => channel[v] # "open" \/ faults'.losses > 0
    <3>1. CASE LoseConnection(w)
      BY <3>1, FaultIsCounted, FaultTypes
    <3>2. CASE NoticeLoss(w)
      BY <3>2 DEF NoticeLoss, TypeOK
    <3>3. CASE Crash(w)
      BY <3>3 DEF Crash, TypeOK
    <3>4. QED
      BY <1>15, <3>1, <3>2, <3>3
  <2>4. QED
    BY <2>1, <2>2, <2>3, SeenFrame
<1>16. QED
  BY <1>1, <1>2, <1>5, <1>6, <1>7, <1>8, <1>9, <1>10, <1>11, <1>12, <1>13, <1>14, <1>15
     DEF Next, ServerSteps, BrokerSteps, Requests, LoopSteps, TaskSteps, Subscribe,
         ReceiveReply, PublishTask, PublishFails, CreateJob, AcceptJob, Arrive,
         WindowElapses, vars

LEMMA SeenHolds == Spec => []Seen
<1>1. Init => Seen
  BY DEF Init, Seen, Past
<1>2. TypeOK /\ (Owned /\ Early) /\ Seen /\ [Next]_vars => Seen'
  BY SeenStep
<1>3. QED
  BY <1>1, <1>2, TypeCorrect, OwnedHolds, PTL DEF Spec

(* A bulk task leaves the queue unverified only by a fault.                *)
GoneIsVerified ==
  \A t \in Tasks : Bulk(t) /\ queue[t] = "gone" /\ checks[t] = 0 => Broken > 0

AllPublished ==
  \A j \in Jobs : job[j] = "accepted" => \A t \in TasksOf(j) : queue[t] # "unsent"

LEMMA PublishedStep ==
  ASSUME TypeOK, Owned, Early, Requested, Seen, GoneIsVerified, AllPublished, [Next]_vars
  PROVE  GoneIsVerified' /\ AllPublished'
<1> USE DEF broker, run, http
<1>1. ASSUME \A t \in Tasks : queue'[t] = "unsent" => queue[t] = "unsent",
             \A j \in Jobs : job'[j] = "accepted" => job[j] = "accepted",
             \A t \in Tasks : Bulk(t) /\ queue'[t] = "gone" =>
               queue[t] = "gone" \/ checks[t] > 0 \/ Broken' > 0
      PROVE  GoneIsVerified' /\ AllPublished'
  <2>1. \A t \in Tasks : checks[t] > 0 => checks'[t] > 0
    <3>1. \A t \in Tasks : checks[t] \in Nat /\ checks'[t] \in Nat /\ checks'[t] >= checks[t]
      BY Grows, TypeStep DEF TypeOK
    <3>2. QED
      BY <3>1
  <2>2. Broken > 0 => Broken' > 0
    <3>1. /\ faults'.losses >= faults.losses /\ faults'.crashes >= faults.crashes
          /\ faults.losses \in Nat /\ faults.crashes \in Nat
      BY Grows, FaultTypes
    <3>2. faults'.losses \in Int /\ faults'.crashes \in Int
      BY TypeStep, WorkerAssumption DEF TypeOK
    <3>3. QED
      BY <3>1, <3>2 DEF Broken
  <2>3. \A t \in Tasks : checks[t] = 0 \/ checks[t] > 0
    BY DEF TypeOK
  <2>4. GoneIsVerified'
    BY <1>1, <2>1, <2>2, <2>3 DEF GoneIsVerified, Bulk
  <2>5. AllPublished'
    BY <1>1 DEF AllPublished, TasksOf
  <2>6. QED
    BY <2>4, <2>5
<1>2. CASE UNCHANGED <<queue, job>>
  BY <1>1, <1>2
<1>3. ASSUME NEW t \in Tasks, NEW w \in Workers,
             RefuseRequest(t, w) \/ RequestFails(t, w)
      PROVE  GoneIsVerified' /\ AllPublished'
  BY <1>2, <1>3 DEF RefuseRequest, RequestFails
<1>4. ASSUME NEW t \in Tasks, NEW w \in Workers,
             Request(t, w) \/ Deliver(w, t)
      PROVE  GoneIsVerified' /\ AllPublished'
  <2>1. PICK p \in {"inflight", w} : queue' = [queue EXCEPT ![t] = p]
    BY <1>4 DEF Request, Deliver
  <2>2. p # "gone" /\ p # "unsent"
    BY WorkerAssumption
  <2>3. UNCHANGED job
    BY <1>4 DEF Request, Deliver
  <2>4. QED
    BY <1>1, <2>1, <2>2, <2>3 DEF TypeOK
<1>5. ASSUME NEW t \in Tasks, PublishTask(t)
      PROVE  GoneIsVerified' /\ AllPublished'
  <2>1. UNCHANGED <<job, faults>> /\ channel[home[t]] # "closed"
        /\ queue' = [queue EXCEPT ![t] =
             IF channel[home[t]] = "open" THEN "inflight" ELSE "gone"]
    BY <1>5 DEF PublishTask
  <2>2. CASE channel[home[t]] = "open"
    BY <1>1, <2>1, <2>2 DEF TypeOK
  <2>3. CASE channel[home[t]] # "open" /\ home[t] \in Workers
    <3>1. faults.losses > 0
      BY <2>3 DEF Seen
    <3>2. Broken' > 0
      BY <2>1, <3>1, FaultTypes DEF Broken
    <3>3. QED
      BY <1>1, <2>1, <3>2 DEF TypeOK
  <2>4. home[t] \in Workers
    BY <1>5 DEF Requested, PublishTask
  <2>5. QED
    BY <2>2, <2>3, <2>4
<1>6. ASSUME NEW f \in frames, HandleVerb(f)
      PROVE  GoneIsVerified' /\ AllPublished'
  <2>1. /\ f.of \in Tasks /\ f.what \in Verbs /\ UNCHANGED job
        /\ queue' = [queue EXCEPT ![f.of] = IF f.what = "requeue" THEN "ready" ELSE "gone"]
    BY <1>6, FrameParts DEF HandleVerb
  <2>2. f.what # "requeue" => ~ Bulk(f.of) \/ checks[f.of] > 0
    BY <2>1 DEF Seen, Verbs
  <2>3. QED
    BY <1>1, <2>1, <2>2 DEF TypeOK
<1>7. ASSUME NEW f \in frames, HandleReply(f)
      PROVE  GoneIsVerified' /\ AllPublished'
  BY <1>2, <1>7 DEF HandleReply
<1>8. ASSUME NEW j \in Jobs, NEW w \in Workers, CreateJob(j, w)
      PROVE  GoneIsVerified' /\ AllPublished'
  BY <1>1, <1>8 DEF CreateJob, TypeOK
<1>9. ASSUME NEW t \in Tasks, PublishFails(t)
      PROVE  GoneIsVerified' /\ AllPublished'
  BY <1>1, <1>9 DEF PublishFails, TypeOK
<1>10. ASSUME NEW j \in Jobs, AcceptJob(j)
       PROVE  GoneIsVerified' /\ AllPublished'
  <2>1. AllPublished'
    BY <1>10 DEF AcceptJob, AllPublished, TasksOf, TypeOK
  <2>2. GoneIsVerified'
    BY <1>10 DEF AcceptJob, GoneIsVerified, Bulk, Broken
  <2>3. QED
    BY <2>1, <2>2
<1>11. ASSUME NEW w \in Workers, LoseConnection(w) \/ Crash(w)
       PROVE  GoneIsVerified' /\ AllPublished'
  <2>1. Broken' > 0
    BY <1>11, FaultIsCounted
  <2>2. \A t \in Tasks : queue'[t] = "unsent" => queue[t] = "unsent"
    BY <1>11 DEF LoseConnection, Crash, BrokerForgets
  <2>3. \A j \in Jobs : job'[j] = "accepted" => job[j] = "accepted"
    BY <1>11 DEF LoseConnection, Crash
  <2>4. QED
    BY <1>1, <2>1, <2>2, <2>3
<1>12. ASSUME NEW t \in Tasks, Arrive(t)
       PROVE  GoneIsVerified' /\ AllPublished'
  BY <1>1, <1>12 DEF Arrive, TypeOK
<1>13. QED
  BY <1>2, <1>3, <1>4, <1>5, <1>6, <1>7, <1>8, <1>9, <1>10, <1>11, <1>12
     DEF Next, ServerSteps, BrokerSteps, Requests, LoopSteps, TaskSteps, Subscribe,
         ReceiveReply, RejectSingleShot, ReplyThrottled, RejectBulk, StartCheck, LoopEnds,
         WindowElapses, CheckEnds, WebhookEnds, RequeueOnce, Acknowledge, Orphaned,
         SendReply, ReplyFails, Store, StoreFails, NoticeLoss, vars

(* The id of a job is not given out before all of its tasks are published, *)
(* and without a fault none of them is lost before it is verified.         *)
THEOREM AcceptedArePublished == Spec => []AcceptedIsPublished
<1>1. Init => GoneIsVerified /\ AllPublished
  BY DEF Init, GoneIsVerified, AllPublished
<1>2. TypeOK /\ (Owned /\ Early) /\ Requested /\ Seen /\ (GoneIsVerified /\ AllPublished) /\ [Next]_vars
        => (GoneIsVerified /\ AllPublished)'
  BY PublishedStep
<1>3. GoneIsVerified /\ AllPublished => AcceptedIsPublished
  <2>1. \A j \in Jobs : \A t \in TasksOf(j) : t \in Tasks /\ Bulk(t)
    BY WorkerAssumption DEF TasksOf, Bulk
  <2>2. QED
    BY <2>1 DEF GoneIsVerified, AllPublished, AcceptedIsPublished
<1>4. QED
  BY <1>1, <1>2, <1>3, TypeCorrect, OwnedHolds, RequestedHolds, SeenHolds, PTL DEF Spec

-----------------------------------------------------------------------------
(* Lost verdicts.                                                          *)

Reason(t) ==
  \/ faults.crashes > 0 \/ faults.stores > 0
  \/ ~ Bulk(t) /\ faults.losses > 0

\* The client of t has its result, or will have it.
Told(t) ==
  \/ client[t] = "result" \/ reply[t] = "result"
  \/ \E f \in frames : f.of = t /\ f.what = "result"

Kept(t) ==
  \/ rows[t] > 0 \/ \E w \in Workers : task[w][t] = "replied"
  \/ faults.crashes > 0 \/ faults.stores > 0

(* Every lost verdict has its reason, and what a client was told is kept.  *)
LossesExplained ==
  \A t \in Tasks :
    /\ rows[t] = 0 /\ output[t] # "none" /\ ~ Final(t) => Reason(t)
    /\ Told(t) => Kept(t)

(* Reasons stay, rows stay.                                                *)
LEMMA ReasonsStay ==
  ASSUME TypeOK, [Next]_vars, NEW t \in Tasks
  PROVE  /\ Reason(t) => Reason(t)'
         /\ faults.crashes > 0 => faults'.crashes > 0
         /\ faults.stores > 0 => faults'.stores > 0
         /\ rows[t] > 0 => rows'[t] > 0
         /\ rows'[t] = 0 => rows[t] = 0
<1>1. /\ rows'[t] >= rows[t] /\ faults'.losses >= faults.losses
      /\ faults'.crashes >= faults.crashes /\ faults'.stores >= faults.stores
  BY Grows
<1>2. /\ rows[t] \in Nat /\ faults.losses \in Nat /\ faults.crashes \in Nat
      /\ faults.stores \in Nat
  BY FaultTypes DEF TypeOK
<1>3. /\ rows'[t] \in Nat /\ faults'.losses \in Int /\ faults'.crashes \in Int
      /\ faults'.stores \in Int
  BY TypeStep, WorkerAssumption DEF TypeOK
<1>4. QED
  BY <1>1, <1>2, <1>3 DEF Reason, Bulk

(* A step that gives a verdict only to a run that is final then, ends a    *)
(* final run only with a row or a reason, and tells a client only what is  *)
(* kept.                                                                   *)
LEMMA LossFrame ==
  ASSUME TypeOK, LossesExplained, [Next]_vars,
         \A t \in Tasks :
           /\ output'[t] = output[t] \/ Final(t)'
           /\ Final(t) => Final(t)' \/ rows'[t] > 0 \/ Reason(t)'
           /\ Told(t)' => Told(t) \/ Kept(t)'
           /\ \A w \in Workers : task[w][t] = "replied" => Kept(t)'
  PROVE  LossesExplained'
<1> SUFFICES ASSUME NEW t \in Tasks
             PROVE  /\ rows'[t] = 0 /\ output'[t] # "none" /\ ~ Final(t)' => Reason(t)'
                    /\ Told(t)' => Kept(t)'
  BY DEF LossesExplained
<1>1. ~ (rows'[t] = 0 /\ rows'[t] > 0)
  OBVIOUS
<1>2. rows'[t] = 0 /\ output'[t] # "none" /\ ~ Final(t)' => Reason(t)'
  BY <1>1, ReasonsStay DEF LossesExplained
<1>3. Told(t)' => Kept(t)'
  BY ReasonsStay DEF LossesExplained, Kept
<1>4. QED
  BY <1>2, <1>3

LEMMA LossStep ==
  ASSUME TypeOK, Owned, Seen, LossesExplained, [Next]_vars
  PROVE  LossesExplained'
<1> USE DEF broker, run, http
<1>1. ASSUME \A w \in Workers, t \in Tasks :
               /\ task[w][t] = "acked" => task'[w][t] \in {"acked", "replied"}
               /\ task[w][t] = "replied" => task'[w][t] = "replied"
      PROVE  \A t \in Tasks :
               /\ Final(t) => Final(t)'
               /\ \A w \in Workers : task[w][t] = "replied" => Kept(t)'
  BY <1>1 DEF Final, Settled, Kept
<1>2. CASE UNCHANGED <<task, output, rows, client, reply, frames>>
  BY <1>1, <1>2, LossFrame DEF Told
<1>3. ASSUME UNCHANGED <<task, output, frames>>,
             \A t \in Tasks : \/ client'[t] # "result" \/ client[t] = "result"
                              \/ reply[t] = "result",
             \A t \in Tasks : reply'[t] # "result" \/ reply[t] = "result"
      PROVE  LossesExplained'
  BY <1>1, <1>3, LossFrame DEF Told
<1>4. ASSUME NEW t \in Tasks, NEW w \in Workers,
             RefuseRequest(t, w) \/ Request(t, w) \/ RequestFails(t, w)
      PROVE  LossesExplained'
  BY <1>3, <1>4 DEF RefuseRequest, Request, RequestFails, TypeOK
<1>5. ASSUME NEW t \in Tasks, Subscribe(t)
      PROVE  LossesExplained'
  BY <1>3, <1>5 DEF Subscribe, TypeOK
<1>6. ASSUME NEW t \in Tasks, ReceiveReply(t)
      PROVE  LossesExplained'
  BY <1>3, <1>6 DEF ReceiveReply, TypeOK
<1>7. ASSUME NEW w \in Workers, NoticeLoss(w)
      PROVE  LossesExplained'
  BY <1>3, <1>7 DEF NoticeLoss
<1>8. ASSUME NEW f \in frames, HandleReply(f)
      PROVE  LossesExplained'
  <2>1. /\ f.of \in Tasks /\ frames' \subseteq frames /\ UNCHANGED <<task, output, client>>
        /\ \A t \in Tasks : reply'[t] = reply[t] \/ (t = f.of /\ reply'[t] = f.what)
    BY <1>8, FrameParts DEF HandleReply, TypeOK
  <2>2. \A t \in Tasks : Told(t)' => Told(t)
    BY <2>1 DEF Told
  <2>3. QED
    BY <1>1, <2>1, <2>2, LossFrame
<1>9. ASSUME NEW w \in Workers, NEW t \in Tasks, NEW p, NEW q,
             task[w][t] = q, task' = [task EXCEPT ![w][t] = p],
             q \notin {"acked", "replied"} \/ (q = "acked" /\ p = "replied"),
             \A f \in frames' : \/ f \in frames \/ f.what # "result"
                                \/ (f.of = t /\ p = "replied"),
             output' = output \/ (p = "acked" /\ \E o : output' = [output EXCEPT ![t] = o]),
             UNCHANGED <<client, reply>>
      PROVE  LossesExplained'
  <2>1. /\ task'[w][t] = p
        /\ \A v \in Workers, s \in Tasks : v # w \/ s # t => task'[v][s] = task[v][s]
    BY <1>9 DEF TypeOK
  <2>2. \A v \in Workers, s \in Tasks :
               /\ task[v][s] = "acked" => task'[v][s] \in {"acked", "replied"}
               /\ task[v][s] = "replied" => task'[v][s] = "replied"
    BY <1>9, <2>1
  <2>3. \A s \in Tasks : Told(s)' => Told(s) \/ Kept(s)'
    BY <1>9, <2>1 DEF Told, Kept
  <2>4. \A s \in Tasks : output'[s] = output[s] \/ Final(s)'
    <3>1. p = "acked" => Final(t)'
      BY <2>1 DEF Final, Settled
    <3>2. QED
      BY <1>9, <3>1 DEF TypeOK
  <2>5. QED
    BY <1>1, <2>2, <2>3, <2>4, LossFrame
<1>10. ASSUME NEW w \in Workers, NEW t \in Tasks, Deliver(w, t)
       PROVE  LossesExplained'
  <2>1. task[w][t] = "none"
    BY <1>10, DeliverStep
  <2>2. QED
    BY <1>9, <1>10, <2>1 DEF Deliver, HandOver
<1>11. ASSUME NEW w \in Workers, NEW t \in Tasks, NEW a, a \in Verbs \cup Answers,
              Write(w, t, a)
       PROVE  \A f \in frames' : f \in frames \/ (f.of = t /\ f.what = a)
  BY <1>11, WriteAdds
<1>12. ASSUME NEW w \in Workers, NEW t \in Tasks,
              RejectSingleShot(w, t) \/ RejectBulk(w, t) \/ RequeueOnce(w, t)
                \/ ReplyThrottled(w, t)
       PROVE  LossesExplained'
  <2>1. PICK a \in {"drop", "requeue", "throttled"} : Write(w, t, a)
    BY <1>12 DEF RejectSingleShot, RejectBulk, RequeueOnce, ReplyThrottled
  <2>2. a \in Verbs \cup Answers /\ a # "result"
    BY DEF Verbs, Answers
  <2>3. \A f \in frames' : f \in frames \/ f.what # "result"
    BY <1>11, <2>1, <2>2
  <2>4. PICK p : task' = [task EXCEPT ![w][t] = p]
    BY <1>12 DEF RejectSingleShot, RejectBulk, RequeueOnce, ReplyThrottled, Leave
  <2>5. /\ task[w][t] \notin {"acked", "replied"}
        /\ UNCHANGED <<output, client, reply>>
    BY <1>12 DEF RejectSingleShot, RejectBulk, RequeueOnce, ReplyThrottled, Refuses
  <2>6. QED
    BY <1>9, <2>3, <2>4, <2>5
<1>13. ASSUME NEW w \in Workers, NEW t \in Tasks,
              StartCheck(w, t) \/ WebhookEnds(w, t) \/ Orphaned(w, t)
       PROVE  LossesExplained'
  <2>1. PICK p : task' = [task EXCEPT ![w][t] = p]
    BY <1>13 DEF StartCheck, WebhookEnds, Orphaned, Leave
  <2>2. /\ task[w][t] \notin {"acked", "replied"}
        /\ UNCHANGED <<frames, output, client, reply>>
    BY <1>13 DEF StartCheck, WebhookEnds, Orphaned
  <2>3. QED
    BY <1>9, <2>1, <2>2
<1>14. ASSUME NEW w \in Workers, NEW t \in Tasks, CheckEnds(w, t)
       PROVE  LossesExplained'
  <2>1. PICK p : task' = [task EXCEPT ![w][t] = p]
    BY <1>14 DEF CheckEnds
  <2>2. /\ task[w][t] \notin {"acked", "replied"}
        /\ UNCHANGED <<frames, output, client, reply>>
    BY <1>14 DEF CheckEnds
  <2>3. QED
    BY <1>9, <2>1, <2>2
<1>15. ASSUME NEW w \in Workers, NEW t \in Tasks, Acknowledge(w, t)
       PROVE  LossesExplained'
  <2>1. /\ task[w][t] = "checked" /\ Write(w, t, "ack") /\ UNCHANGED <<client, reply>>
        /\ task' = [task EXCEPT ![w][t] = "acked"]
        /\ \E o : output' = [output EXCEPT ![t] = o]
    BY <1>15 DEF Acknowledge
  <2>2. "ack" \in Verbs \cup Answers
    BY DEF Verbs
  <2>3. \A f \in frames' : f \in frames \/ f.what # "result"
    BY <1>11, <2>1, <2>2
  <2>4. QED
    BY <1>9, <2>1, <2>3
<1>16. ASSUME NEW w \in Workers, NEW t \in Tasks, SendReply(w, t)
       PROVE  LossesExplained'
  <2>1. /\ task[w][t] = "acked" /\ Write(w, t, "result") /\ UNCHANGED <<output, client, reply>>
        /\ task' = [task EXCEPT ![w][t] = "replied"]
    BY <1>16 DEF SendReply
  <2>2. "result" \in Verbs \cup Answers
    BY DEF Answers
  <2>3. \A f \in frames' : f \in frames \/ f.of = t
    BY <1>11, <2>1, <2>2
  <2>4. QED
    BY <1>9, <2>1, <2>3
<1>17. ASSUME NEW w \in Workers, NEW t \in Tasks, task' = [task EXCEPT ![w][t] = "none"],
              UNCHANGED <<frames, output, client, reply>>,
              rows'[t] > 0 \/ Reason(t)',
              task[w][t] = "replied" => Kept(t)'
       PROVE  LossesExplained'
  <2>1. \A v \in Workers, s \in Tasks : v # w \/ s # t => task'[v][s] = task[v][s]
    BY <1>17 DEF TypeOK
  <2>2. \A s \in Tasks : s # t => (Final(s) => Final(s)')
    BY <2>1 DEF Final
  <2>3. \A s \in Tasks, v \in Workers : task[v][s] = "replied" => Kept(s)'
    <3>1. ASSUME NEW s \in Tasks, NEW v \in Workers, task[v][s] = "replied", v # w \/ s # t
          PROVE  Kept(s)'
      BY <2>1, <3>1 DEF Kept
    <3>2. QED
      BY <1>17, <3>1
  <2>4. \A s \in Tasks : Told(s)' => Told(s)
    BY <1>17 DEF Told
  <2>5. QED
    BY <1>17, <2>2, <2>3, <2>4, LossFrame
<1>18. ASSUME NEW w \in Workers, NEW t \in Tasks, ReplyFails(w, t)
       PROVE  LossesExplained'
  <2>1. /\ task[w][t] = "acked" /\ ~ Bulk(t) /\ channel[w] = "closed"
        /\ task' = [task EXCEPT ![w][t] = "none"]
        /\ UNCHANGED <<frames, output, client, reply, faults>>
    BY <1>18 DEF ReplyFails, Leave
  <2>2. faults.losses > 0
    BY <2>1 DEF Seen
  <2>3. Reason(t)'
    BY <2>1, <2>2 DEF Reason, Bulk
  <2>4. QED
    BY <1>17, <2>1, <2>3
<1>19. ASSUME NEW w \in Workers, NEW t \in Tasks, Store(w, t)
       PROVE  LossesExplained'
  <2>1. /\ task' = [task EXCEPT ![w][t] = "none"]
        /\ UNCHANGED <<frames, output, client, reply>>
    BY <1>19 DEF Store, Leave
  <2>2. rows'[t] > 0
    BY <1>19 DEF Store, TypeOK
  <2>3. Kept(t)'
    BY <2>2 DEF Kept
  <2>4. QED
    BY <1>17, <2>1, <2>2, <2>3
<1>20. ASSUME NEW w \in Workers, NEW t \in Tasks, StoreFails(w, t)
       PROVE  LossesExplained'
  <2>1. /\ task' = [task EXCEPT ![w][t] = "none"]
        /\ UNCHANGED <<frames, output, client, reply>>
    BY <1>20 DEF StoreFails, Leave
  <2>2. faults'.stores > 0
    BY <1>20, FaultTypes DEF StoreFails, TypeOK
  <2>3. Reason(t)' /\ Kept(t)'
    BY <2>2 DEF Reason, Kept
  <2>4. QED
    BY <1>17, <2>1, <2>3
<1>21. ASSUME NEW f \in frames, HandleVerb(f)
       PROVE  LossesExplained'
  <2>1. frames' \subseteq frames /\ UNCHANGED <<task, output, client, reply>>
    BY <1>21 DEF HandleVerb
  <2>2. \A t \in Tasks : Told(t)' => Told(t)
    BY <2>1 DEF Told
  <2>3. QED
    BY <1>1, <2>1, <2>2, LossFrame
<1>22. ASSUME NEW w \in Workers, LoopEnds(w)
       PROVE  LossesExplained'
  <2>1. \A v \in Workers, s \in Tasks :
               /\ task[v][s] = "acked" => task'[v][s] \in {"acked", "replied"}
               /\ task[v][s] = "replied" => task'[v][s] = "replied"
    BY <1>22 DEF LoopEnds, TypeOK
  <2>2. UNCHANGED <<frames, output, client, reply>>
    BY <1>22 DEF LoopEnds
  <2>3. QED
    BY <1>1, <2>1, <2>2, LossFrame DEF Told
<1>23. ASSUME NEW w \in Workers, LoseConnection(w)
       PROVE  LossesExplained'
  <2>1. /\ frames' \subseteq frames /\ UNCHANGED <<task, output, client>>
        /\ \A t \in Tasks : reply'[t] \in {reply[t], "none"}
    BY <1>23 DEF LoseConnection, BrokerForgets
  <2>2. \A t \in Tasks : Told(t)' => Told(t)
    BY <2>1 DEF Told
  <2>3. QED
    BY <1>1, <2>1, <2>2, LossFrame
<1>24. ASSUME NEW w \in Workers, Crash(w)
       PROVE  LossesExplained'
  <2>1. faults'.crashes > 0
    BY <1>24, FaultIsCounted, FaultTypes
  <2>2. QED
    BY <2>1 DEF LossesExplained, Reason, Kept
<1>25. QED
  BY <1>2, <1>4, <1>5, <1>6, <1>7, <1>8, <1>10, <1>12, <1>13, <1>14, <1>15, <1>16,
     <1>18, <1>19, <1>20, <1>21, <1>22, <1>23, <1>24
     DEF Next, ServerSteps, BrokerSteps, Requests, LoopSteps, TaskSteps, PublishTask,
         PublishFails, CreateJob, AcceptJob, Arrive, WindowElapses, vars

(* No verdict is lost but by a process that died, an INSERT that failed or *)
(* a broken connection that kept its client from being answered.           *)
THEOREM LossesHaveReasons == Spec => []LostForAReason
<1>1. Init => LossesExplained
  BY DEF Init, LossesExplained, Told
<1>2. TypeOK /\ (Owned /\ Early) /\ Seen /\ LossesExplained /\ [Next]_vars
        => LossesExplained'
  BY LossStep
<1>3. TypeOK /\ LossesExplained => LostForAReason
  <2> SUFFICES ASSUME TypeOK, LossesExplained, NEW t \in Tasks, Lost(t),
                      ~ faults.crashes > 0, ~ faults.stores > 0
               PROVE  ~ Bulk(t) /\ faults.losses > 0 /\ client[t] # "result"
    BY DEF LostForAReason
  <2>1. ~ Bulk(t) /\ faults.losses > 0
    BY DEF LossesExplained, Lost, Reason
  <2>2. ~ Kept(t)
    BY DEF Lost, Kept, Final, Settled
  <2>3. QED
    BY <2>1, <2>2 DEF LossesExplained, Told
<1>4. QED
  BY <1>1, <1>2, <1>3, TypeCorrect, OwnedHolds, SeenHolds, PTL DEF Spec


-----------------------------------------------------------------------------
(* Refusals.                                                               *)

(* A worker has refused the task of a client, and the client is told so or *)
(* will be.                                                                *)
Refused(t) ==
  \/ \E w \in Workers : task[w][t] = "rejected"
  \/ \E f \in frames : f.of = t /\ f.what \in {"drop", "throttled"}
  \/ reply[t] = "throttled"
  \/ client[t] = "throttled" /\ queue[t] # "unsent"

(* The run that is refused has given up its claim.                         *)
RefusalsPaid == \A t \in Tasks : Refused(t) => rows[t] + Claims(t) <= Broken

LEMMA RefusedFrame ==
  ASSUME NEW t \in Tasks,
         \A w \in Workers : task'[w][t] = "rejected" => task[w][t] = "rejected",
         \A f \in frames' : f.of = t /\ f.what \in {"drop", "throttled"} =>
           f \in frames \/ Refused(t),
         reply'[t] = "throttled" => reply[t] = "throttled" \/ Refused(t),
         client'[t] = "throttled" /\ queue'[t] # "unsent" =>
           Refused(t) \/ (client[t] = "throttled" /\ queue[t] # "unsent")
  PROVE  Refused(t)' => Refused(t)
BY DEF Refused

(* Only the consumer loop refuses a task that was published.               *)
LEMMA RefusedStep ==
  ASSUME TypeOK, Owned, Early, Requested, [Next]_vars, NEW t \in Tasks, Refused(t)'
  PROVE  Refused(t) \/ \E w \in Workers : RejectSingleShot(w, t)
<1> USE DEF broker, run, http
<1>1. CASE UNCHANGED <<queue, task, frames, client, reply>>
  BY <1>1, RefusedFrame
<1>2. ASSUME NEW s \in Tasks, NEW w \in Workers,
             RefuseRequest(s, w) \/ Request(s, w) \/ RequestFails(s, w)
      PROVE  Refused(t)
  <2>1. UNCHANGED <<task, frames, reply>>
    BY <1>2 DEF RefuseRequest, Request, RequestFails
  <2>2. s = t => client'[t] # "throttled" \/ queue'[t] = "unsent"
    BY <1>2 DEF RefuseRequest, Request, RequestFails, Early, TypeOK
  <2>3. s # t => client'[t] = client[t] /\ queue'[t] = queue[t]
    BY <1>2 DEF RefuseRequest, Request, RequestFails, TypeOK
  <2>4. QED
    BY <2>1, <2>2, <2>3, RefusedFrame
<1>3. ASSUME NEW s \in Tasks, Subscribe(s)
      PROVE  Refused(t)
  <2>1. UNCHANGED <<queue, task, frames, reply>> /\ (client'[t] = "throttled" => client[t] = "throttled")
    BY <1>3 DEF Subscribe, TypeOK
  <2>2. QED
    BY <2>1, RefusedFrame
<1>4. ASSUME NEW s \in Tasks, ReceiveReply(s)
      PROVE  Refused(t)
  <2>1. UNCHANGED <<queue, task, frames>>
    BY <1>4 DEF ReceiveReply
  <2>2. /\ client'[t] = "throttled" => client[t] = "throttled" \/ reply[t] = "throttled"
        /\ reply'[t] = "throttled" => reply[t] = "throttled"
    BY <1>4 DEF ReceiveReply, TypeOK
  <2>3. QED
    BY <2>1, <2>2, RefusedFrame DEF Refused
<1>5. ASSUME NEW s \in Tasks, PublishTask(s)
      PROVE  Refused(t)
  <2>1. UNCHANGED <<client, task, frames, reply>>
    BY <1>5 DEF PublishTask
  <2>2. client[s] = "idle"
    BY <1>5 DEF PublishTask, Requested
  <2>3. s # t => queue'[t] = queue[t]
    BY <1>5 DEF PublishTask, TypeOK
  <2>4. QED
    BY <2>1, <2>2, <2>3, RefusedFrame
<1>6. ASSUME UNCHANGED <<client, reply>>, queue'[t] # "unsent" => queue[t] # "unsent",
             \A w \in Workers : task'[w][t] = "rejected" => task[w][t] = "rejected",
             \A f \in frames' : f \in frames \/ f.of # t \/ f.what \in {"requeue", "ack", "result"}
      PROVE  Refused(t)
  BY <1>6, RefusedFrame
<1>7. ASSUME NEW s \in Tasks, Arrive(s)
      PROVE  Refused(t)
  <2>1. queue'[t] # "unsent" => queue[t] # "unsent"
    BY <1>7 DEF Arrive, TypeOK
  <2>2. QED
    BY <1>6, <1>7, <2>1 DEF Arrive
<1>8. ASSUME NEW w \in Workers, NEW s \in Tasks, Deliver(w, s)
      PROVE  Refused(t)
  <2>1. queue'[t] # "unsent" => queue[t] # "unsent"
    BY <1>8 DEF Deliver, TypeOK
  <2>2. \A v \in Workers : task'[v][t] = "rejected" => task[v][t] = "rejected"
    BY <1>8 DEF Deliver, HandOver, TypeOK
  <2>3. UNCHANGED <<client, reply, frames>>
    BY <1>8 DEF Deliver
  <2>4. QED
    BY <1>6, <2>1, <2>2, <2>3
<1>9. ASSUME NEW f \in frames, HandleVerb(f)
      PROVE  Refused(t)
  <2>1. queue[f.of] = f.by /\ f.by # "unsent"
    BY <1>9, FrameParts DEF HandleVerb, Owned
  <2>2. queue'[t] # "unsent" => queue[t] # "unsent"
    BY <1>9, <2>1 DEF HandleVerb, TypeOK
  <2>3. UNCHANGED <<client, reply, task>> /\ frames' \subseteq frames
    BY <1>9 DEF HandleVerb
  <2>4. QED
    BY <1>6, <2>2, <2>3
<1>10. ASSUME NEW f \in frames, HandleReply(f)
       PROVE  Refused(t)
  <2>1. UNCHANGED <<client, queue, task>> /\ frames' \subseteq frames
    BY <1>10 DEF HandleReply
  <2>2. reply'[t] = "throttled" =>
          reply[t] = "throttled" \/ (f.of = t /\ f.what = "throttled")
    BY <1>10 DEF HandleReply, TypeOK
  <2>3. QED
    BY <2>1, <2>2, RefusedFrame DEF Refused
<1>11. ASSUME NEW w \in Workers, NEW s \in Tasks, NEW p,
              task' = [task EXCEPT ![w][s] = p], p # "rejected",
              \A f \in frames' : f \in frames \/ f.what \in {"requeue", "ack", "result"},
              UNCHANGED <<queue, client, reply>>
       PROVE  Refused(t)
  <2>1. \A v \in Workers : task'[v][t] = "rejected" => task[v][t] = "rejected"
    BY <1>11 DEF TypeOK
  <2>2. QED
    BY <1>6, <1>11, <2>1
<1>12. ASSUME NEW w \in Workers, NEW s \in Tasks, NEW a \in Verbs \cup Answers, Write(w, s, a)
       PROVE  \A f \in frames' : f \in frames \/ (f.of = s /\ f.what = a)
  BY <1>12, WriteAdds
<1>13. ASSUME NEW w \in Workers, NEW s \in Tasks, RejectSingleShot(w, s), s # t
       PROVE  Refused(t)
  <2>1. /\ task' = [task EXCEPT ![w][s] = "rejected"] /\ Write(w, s, "drop")
        /\ UNCHANGED <<queue, client, reply>>
    BY <1>13 DEF RejectSingleShot
  <2>2. \A v \in Workers : task'[v][t] = task[v][t]
    BY <1>13, <2>1 DEF TypeOK
  <2>3. \A f \in frames' : f \in frames \/ f.of # t
    BY <1>12, <1>13, <2>1 DEF Verbs
  <2>4. QED
    BY <1>6, <2>1, <2>2, <2>3
<1>14. ASSUME NEW w \in Workers, NEW s \in Tasks, ReplyThrottled(w, s)
       PROVE  Refused(t)
  <2>1. /\ task[w][s] = "rejected" /\ Write(w, s, "throttled")
        /\ task' = [task EXCEPT ![w][s] = "none"] /\ UNCHANGED <<queue, client, reply>>
    BY <1>14 DEF ReplyThrottled, Leave
  <2>2. \A f \in frames' : f \in frames \/ f.of = s
    BY <1>12, <2>1 DEF Answers
  <2>3. \A v \in Workers : task'[v][t] = "rejected" => task[v][t] = "rejected"
    BY <2>1 DEF TypeOK
  <2>4. s = t => Refused(t)
    BY <2>1 DEF Refused
  <2>5. QED
    BY <1>6, <2>1, <2>2, <2>3, <2>4
<1>15. ASSUME NEW w \in Workers, NEW s \in Tasks, RejectBulk(w, s) \/ RequeueOnce(w, s)
       PROVE  Refused(t)
  <2>1. /\ Write(w, s, "requeue") /\ task' = [task EXCEPT ![w][s] = "none"]
        /\ UNCHANGED <<queue, client, reply>>
    BY <1>15 DEF RejectBulk, RequeueOnce, Leave
  <2>2. QED
    BY <1>11, <1>12, <2>1 DEF Verbs
<1>16. ASSUME NEW w \in Workers, NEW s \in Tasks, Acknowledge(w, s)
       PROVE  Refused(t)
  <2>1. /\ Write(w, s, "ack") /\ task' = [task EXCEPT ![w][s] = "acked"]
        /\ UNCHANGED <<queue, client, reply>>
    BY <1>16 DEF Acknowledge
  <2>2. QED
    BY <1>11, <1>12, <2>1 DEF Verbs
<1>17. ASSUME NEW w \in Workers, NEW s \in Tasks, SendReply(w, s)
       PROVE  Refused(t)
  <2>1. /\ Write(w, s, "result") /\ task' = [task EXCEPT ![w][s] = "replied"]
        /\ UNCHANGED <<queue, client, reply>>
    BY <1>17 DEF SendReply
  <2>2. QED
    BY <1>11, <1>12, <2>1 DEF Answers
<1>18. ASSUME NEW w \in Workers, NEW s \in Tasks, CheckEnds(w, s)
       PROVE  Refused(t)
  <2>1. PICK p \in {"webhook", "checked"} : task' = [task EXCEPT ![w][s] = p]
    BY <1>18 DEF CheckEnds
  <2>2. QED
    BY <1>11, <1>18, <2>1 DEF CheckEnds
<1>19. ASSUME NEW w \in Workers, NEW s \in Tasks,
              StartCheck(w, s) \/ WebhookEnds(w, s) \/ Orphaned(w, s) \/ ReplyFails(w, s)
                \/ Store(w, s) \/ StoreFails(w, s)
       PROVE  Refused(t)
  <2>1. PICK p \in {"checking", "checked", "none"} : task' = [task EXCEPT ![w][s] = p]
    BY <1>19 DEF StartCheck, WebhookEnds, Orphaned, ReplyFails, Store, StoreFails, Leave
  <2>2. UNCHANGED <<frames, queue, client, reply>>
    BY <1>19 DEF StartCheck, WebhookEnds, Orphaned, ReplyFails, Store, StoreFails
  <2>3. QED
    BY <1>11, <2>1, <2>2
<1>20. ASSUME NEW w \in Workers, LoopEnds(w)
       PROVE  Refused(t)
  <2>1. \A v \in Workers : task'[v][t] = "rejected" => task[v][t] = "rejected"
    BY <1>20 DEF LoopEnds, TypeOK
  <2>2. QED
    BY <1>6, <1>20, <2>1 DEF LoopEnds
<1>21. ASSUME NEW w \in Workers, LoseConnection(w) \/ NoticeLoss(w) \/ Crash(w)
       PROVE  Refused(t)
  <2>1. \A v \in Workers : task'[v][t] = "rejected" => task[v][t] = "rejected"
    <3>1. ASSUME Crash(w)
          PROVE  \A v \in Workers : task'[v][t] \in {task[v][t], "none"}
      BY <3>1 DEF Crash, TypeOK
    <3>2. QED
      BY <1>21, <3>1 DEF LoseConnection, NoticeLoss
  <2>2. queue'[t] # "unsent" => queue[t] # "unsent"
    BY <1>21, WorkerAssumption DEF LoseConnection, NoticeLoss, Crash, BrokerForgets
  <2>3. frames' \subseteq frames /\ (reply'[t] = "throttled" => reply[t] = "throttled")
    BY <1>21 DEF LoseConnection, NoticeLoss, Crash, BrokerForgets
  <2>4. client'[t] = "throttled" => client[t] = "throttled"
    BY <1>21 DEF LoseConnection, NoticeLoss, Crash
  <2>5. QED
    BY <2>1, <2>2, <2>3, <2>4, RefusedFrame
<1>22. QED
  BY <1>1, <1>2, <1>3, <1>4, <1>5, <1>7, <1>8, <1>9, <1>10, <1>13, <1>14, <1>15,
     <1>16, <1>17, <1>18, <1>19, <1>20, <1>21
     DEF Next, ServerSteps, BrokerSteps, Requests, LoopSteps, TaskSteps, PublishFails,
         CreateJob, AcceptJob, WindowElapses, vars

LEMMA RefusalsPaidStep ==
  ASSUME TypeOK, Owned, Early, Requested, PaidFor, RefusalsPaid, [Next]_vars
  PROVE  RefusalsPaid'
<1> SUFFICES ASSUME NEW t \in Tasks, Refused(t)'
             PROVE  rows'[t] + Claims(t)' <= Broken'
  BY DEF RefusalsPaid
<1>0. /\ rows[t] \in Nat /\ rows'[t] \in Nat /\ Claims(t) \in Nat /\ Claims(t)' \in Nat
      /\ Broken \in Nat /\ Broken' \in Int
  <2>1. TypeOK'
    BY TypeStep
  <2>2. Broken' \in Int
    BY <2>1, WorkerAssumption DEF TypeOK, Broken
  <2>3. QED
    BY <2>1, <2>2, ClaimsType, FaultTypes DEF TypeOK, Broken
<1>1. CASE Refused(t)
  <2>1. rows[t] + Claims(t) <= Broken
    BY <1>1 DEF RefusalsPaid
  <2>2. rows'[t] + Claims(t)' + Broken <= rows[t] + Claims(t) + Broken'
    BY LedgerStep, LedgerSum
  <2>3. QED
    BY <1>0, <2>1, <2>2
<1>2. ASSUME NEW w \in Workers, RejectSingleShot(w, t)
      PROVE  rows'[t] + Claims(t)' <= Broken'
  <2>1. /\ task[w][t] = "delivered" /\ Write(w, t, "drop")
        /\ task' = [task EXCEPT ![w][t] = "rejected"] /\ UNCHANGED <<queue, rows, faults>>
    BY <1>2 DEF RejectSingleShot, Refuses
  <2>2. "rejected" \notin Acting /\ task[w][t] \in Acting
    BY <2>1 DEF Acting, InHand, Settled
  <2>3. "drop" \in Verbs /\ "drop" # "requeue"
    BY DEF Verbs
  <2>4. /\ \A f : f.of # t => (f \in frames' <=> f \in frames)
        /\ \A v \in Workers : Sent(v, t, {"requeue"})' <=> Sent(v, t, {"requeue"})
    BY <2>1, <2>3, WriteKeeps
  <2>5. Pending(t)' <=> Pending(t)
    BY <2>1, <2>4 DEF Pending
  <2>6. Claims(t)' = Claims(t) - 1
    BY <2>1, <2>2, <2>4, <2>5, RunGivesUp
  <2>7. rows[t] + Claims(t) <= 1 + Broken /\ rows'[t] = rows[t] /\ Broken' = Broken
    BY <2>1 DEF PaidFor, Broken
  <2>8. QED
    BY <1>0, <2>6, <2>7
<1>3. QED
  BY <1>1, <1>2, RefusedStep

(* A run that is final when its client is refused is one that a fault has  *)
(* paid for, and so is its row.                                            *)
THEOREM ThrottledNeverStored == Spec => []ThrottledNotStored
<1>1. Init => RefusalsPaid
  BY DEF Init, RefusalsPaid, Refused
<1>2. TypeOK /\ (Owned /\ Early) /\ Requested /\ PaidFor /\ RefusalsPaid /\ [Next]_vars
        => RefusalsPaid'
  BY RefusalsPaidStep
<1>3. TypeOK /\ (Owned /\ Early) /\ RefusalsPaid => ThrottledNotStored
  <2> SUFFICES ASSUME TypeOK, Early, RefusalsPaid, NEW t \in Tasks,
                      client[t] = "throttled" \/ reply[t] = "throttled"
               PROVE  rows[t] + Cardinality({w \in Workers : task[w][t] \in Settled}) <= Broken
    BY DEF ThrottledNotStored
  <2> DEFINE S == {w \in Workers : task[w][t] \in Settled}
  <2>0. rows[t] \in Nat /\ Claims(t) \in Nat /\ Broken \in Nat
    BY ClaimsType, FaultTypes DEF TypeOK, Broken
  <2>1. CASE Refused(t)
    <3>1. rows[t] + Claims(t) <= Broken
      BY <2>1 DEF RefusalsPaid
    <3>2. S \subseteq Active(t) /\ Active(t) \in SUBSET Workers
      BY DEF Active
    <3>3. Cardinality(S) <= Cardinality(Active(t)) /\ Cardinality(S) \in Nat
      BY <3>2, ProcessCount, FS_Subset
    <3>4. Cardinality(Active(t)) <= Claims(t) /\ Cardinality(Active(t)) \in Nat
      BY <3>2, ProcessCount DEF Claims
    <3> HIDE DEF S
    <3>5. QED
      BY <2>0, <3>1, <3>3, <3>4 DEF S
  <2>2. CASE queue[t] = "unsent"
    <3>1. rows[t] = 0 /\ \A w \in Workers : task[w][t] = "none"
      BY <2>2 DEF Early
    <3>2. S = {}
      BY <3>1 DEF Settled
    <3>3. Cardinality(S) = 0
      BY <3>2, FS_EmptySet
    <3> HIDE DEF S
    <3>4. rows[t] + Cardinality(S) <= Broken
      BY <2>0, <3>1, <3>3
    <3>5. QED
      BY <3>4 DEF S
  <2>3. QED
    BY <2>1, <2>2 DEF Refused
<1>4. QED
  BY <1>1, <1>2, <1>3, TypeCorrect, OwnedHolds, RequestedHolds, PaidHolds, PTL DEF Spec

-----------------------------------------------------------------------------
(* How often an email is verified.                                         *)

\* The runs of t whose check is still to end.
Unchecked == {"delivered", "checking"}
Busy(t)   == {w \in Workers : task[w][t] \in Unchecked}

\* Whoever has the message of t is about to put it back, or may.
Returns(t) ==
  \E w \in Workers : queue[t] = w /\
    (Sent(w, t, {"requeue"}) \/ (task[w][t] \in InHand /\ ~ redelivered[t]))

\* How many runs the message of t may still start.
Left(t) ==
  IF queue[t] \in {"unsent", "inflight", "ready"} THEN 1 + One(~ redelivered[t])
  ELSE One(Returns(t))

(* The checks of an email that are over, under way and still possible.     *)
Budget(t) == checks[t] + Cardinality(Busy(t)) + Left(t)

WithinBudget == \A t \in Tasks : Budget(t) <= 2 + Broken

\* A step makes no more checks possible than it counts faults.
Spends(t) == Budget(t)' + Broken <= Budget(t) + Broken'

LEMMA BudgetTypes ==
  ASSUME NEW t \in Tasks
  PROVE  /\ Cardinality(Busy(t)) \in Nat /\ Cardinality(Busy(t)') \in Nat
         /\ Left(t) \in 0 .. 2 /\ Left(t)' \in 0 .. 2
<1>1. Busy(t) \in SUBSET Workers /\ Busy(t)' \in SUBSET Workers
  BY DEF Busy
<1>2. Left(t) \in 0 .. 2 /\ Left(t)' \in 0 .. 2
  BY DEF Left, One
<1>3. QED
  BY <1>1, <1>2, ProcessCount

LEMMA BusyFewer ==
  ASSUME NEW t \in Tasks,
         \A w \in Workers : task'[w][t] \in Unchecked => task[w][t] \in Unchecked
  PROVE  Cardinality(Busy(t)') <= Cardinality(Busy(t))
<1>1. Busy(t)' \subseteq Busy(t) /\ Busy(t) \in SUBSET Workers
  BY DEF Busy
<1>2. QED
  BY <1>1, ProcessCount, FS_Subset

LEMMA BusyStep ==
  ASSUME NEW t \in Tasks, NEW w \in Workers,
         \A v \in Workers : v # w => task'[v][t] = task[v][t]
  PROVE  Cardinality(Busy(t)') =
           Cardinality(Busy(t)) + One(task'[w][t] \in Unchecked) - One(task[w][t] \in Unchecked)
<1> DEFINE A == Busy(t)
           B == Busy(t)'
<1>1. A \in SUBSET Workers /\ B \in SUBSET Workers
  BY DEF Busy
<1>2. /\ \A v \in Workers : v \in A <=> task[v][t] \in Unchecked
      /\ \A v \in Workers : v \in B <=> task'[v][t] \in Unchecked
  BY DEF Busy
<1>3. \A v \in Workers : v # w => (v \in A <=> v \in B)
  BY <1>2
<1> HIDE DEF A, B
<1>4. Cardinality(B) = Cardinality(A) + One(w \in B) - One(w \in A)
  BY <1>1, <1>3, ProcessStep
<1>5. /\ One(w \in A) = One(task[w][t] \in Unchecked)
      /\ One(w \in B) = One(task'[w][t] \in Unchecked)
  BY <1>2 DEF One
<1>6. QED
  BY <1>4, <1>5 DEF A, B

(* The runs a message may start depend on its holder only.                 *)
LEMMA LeftSame ==
  ASSUME NEW t \in Tasks, queue'[t] = queue[t], redelivered'[t] = redelivered[t],
         \A w \in Workers : queue[t] = w =>
           /\ task'[w][t] \in InHand <=> task[w][t] \in InHand
           /\ Sent(w, t, {"requeue"})' <=> Sent(w, t, {"requeue"})
  PROVE  Left(t)' = Left(t)
<1>1. Returns(t)' <=> Returns(t)
  BY DEF Returns
<1>2. QED
  BY <1>1 DEF Left, One

LEMMA Quiet ==
  ASSUME TypeOK, NEW t \in Tasks, checks'[t] = checks[t], Broken' = Broken,
         \A w \in Workers : task'[w][t] \in Unchecked => task[w][t] \in Unchecked,
         Left(t)' <= Left(t)
  PROVE  Spends(t)
<1>1. /\ checks[t] \in Nat /\ Broken \in Nat
      /\ Cardinality(Busy(t)) \in Nat /\ Cardinality(Busy(t)') \in Nat
      /\ Left(t) \in 0 .. 2 /\ Left(t)' \in 0 .. 2
      /\ Cardinality(Busy(t)') <= Cardinality(Busy(t))
  BY BudgetTypes, BusyFewer, FaultTypes DEF TypeOK, Broken
<1>2. QED
  BY <1>1 DEF Spends, Budget

(* A step about other tasks.                                               *)
LEMMA OtherTask ==
  ASSUME TypeOK, NEW t \in Tasks, checks'[t] = checks[t], Broken' = Broken,
         queue'[t] = queue[t], redelivered'[t] = redelivered[t],
         \A w \in Workers : task'[w][t] = task[w][t],
         \A f : f.of = t => (f \in frames' <=> f \in frames)
  PROVE  Spends(t)
<1>1. Left(t)' = Left(t)
  BY LeftSame DEF Sent
<1>2. Left(t)' <= Left(t)
  BY <1>1, BudgetTypes
<1>3. QED
  BY <1>2, Quiet

(* A run of t goes on or ends, and what it does with the message leaves no *)
(* more to come of it.                                                     *)
LEMMA OneRun ==
  ASSUME TypeOK, Owned, NEW w \in Workers, NEW s \in Tasks, NEW t \in Tasks, NEW p,
         task' = [task EXCEPT ![w][s] = p],
         p \in Unchecked => task[w][s] \in Unchecked,
         p \in InHand => task[w][s] \in InHand,
         UNCHANGED <<queue, redelivered, checks, faults>>,
         \A f : f.of # s => (f \in frames' <=> f \in frames),
         channel[w] = "open" =>
           \A v \in Workers : Sent(v, s, {"requeue"})' => Sent(v, s, {"requeue"}),
         channel[w] # "open" => frames' = frames
  PROVE  Spends(t)
<1>1. /\ task'[w][s] = p
      /\ \A v \in Workers, u \in Tasks : v # w \/ u # s => task'[v][u] = task[v][u]
  BY DEF TypeOK
<1>2. CASE t # s
  BY <1>1, <1>2, OtherTask DEF Broken
<1>3. CASE t = s
  <2>1. \A v \in Workers : /\ task'[v][t] \in Unchecked => task[v][t] \in Unchecked
                           /\ task'[v][t] \in InHand => task[v][t] \in InHand
    BY <1>1, <1>3
  <2>2. \A v \in Workers : Sent(v, t, {"requeue"})' => Sent(v, t, {"requeue"})
    BY <1>3 DEF Sent
  <2>3. Returns(t)' => Returns(t)
    BY <2>1, <2>2 DEF Returns
  <2>4. Left(t)' <= Left(t)
    BY <2>3 DEF Left, One
  <2>5. QED
    BY <2>1, <2>4, Quiet DEF Broken
<1>4. QED
  BY <1>2, <1>3

(* A message moves on towards the queue, or is lost on its way.            *)
LEMMA Publishing ==
  ASSUME TypeOK, NEW t \in Tasks, NEW s \in Tasks, NEW p \in {"inflight", "ready", "gone"},
         queue[s] \in {"unsent", "inflight"}, queue' = [queue EXCEPT ![s] = p],
         UNCHANGED <<redelivered, frames, task, checks, faults>>
  PROVE  Spends(t)
<1>1. queue'[s] = p /\ (t # s => queue'[t] = queue[t])
  BY DEF TypeOK
<1>2. CASE t # s
  BY <1>1, <1>2, OtherTask DEF Broken
<1>3. CASE t = s
  <2>1. p = "gone" => ~ Returns(t)'
    BY <1>1, <1>3, WorkerAssumption DEF Returns
  <2>2. Left(t)' <= Left(t)
    BY <1>1, <1>3, <2>1 DEF Left, One
  <2>3. QED
    BY <2>2, Quiet DEF Broken
<1>4. QED
  BY <1>2, <1>3

(* A run puts its message back instead of checking it, or for the first    *)
(* time.                                                                   *)
LEMMA PutsBack ==
  ASSUME TypeOK, Owned, NEW w \in Workers, NEW s \in Tasks, NEW t \in Tasks,
         task[w][s] = "delivered" \/ (task[w][s] = "checked" /\ ~ again[w][s]),
         Write(w, s, "requeue"), task' = [task EXCEPT ![w][s] = "none"],
         UNCHANGED <<queue, redelivered, channel, checks, faults>>
  PROVE  Spends(t)
<1>0. /\ "requeue" \in Verbs /\ task[w][s] \in InHand
      /\ "none" \notin Unchecked /\ "none" \notin InHand
      /\ "delivered" \in Unchecked
  BY DEF Verbs, InHand, Unchecked
<1>1. /\ task'[w][s] = "none"
      /\ \A v \in Workers, u \in Tasks : v # w \/ u # s => task'[v][u] = task[v][u]
  BY DEF TypeOK
<1>2. /\ \A f : f.of # s => (f \in frames' <=> f \in frames)
      /\ channel[w] # "open" => frames' = frames
  BY <1>0, WriteKeeps, WriteTypes
<1>3. CASE channel[w] # "open"
  BY <1>0, <1>2, <1>3, OneRun
<1>4. CASE t # s
  BY <1>1, <1>2, <1>4, OtherTask DEF Broken
<1>5. CASE channel[w] = "open" /\ t = s
  <2>1. queue[t] = w /\ again[w][t] = redelivered[t]
    BY <1>0, <1>5 DEF Owned
  <2>2. w \notin {"unsent", "inflight", "ready"}
    BY WorkerAssumption
  <2>3. Left(t)' <= 1
    BY <2>1, <2>2 DEF Left, One
  <2>4. \A v \in Workers : task'[v][t] \in Unchecked => task[v][t] \in Unchecked
    BY <1>0, <1>1, <1>5
  <2>5. CASE task[w][s] = "checked" /\ ~ again[w][s]
    <3>1. Returns(t)
      BY <1>0, <1>5, <2>1, <2>5 DEF Returns
    <3>2. Left(t) = 1
      BY <2>1, <2>2, <3>1 DEF Left, One
    <3>3. Left(t)' <= Left(t)
      BY <2>3, <3>2
    <3>4. QED
      BY <2>4, <3>3, Quiet DEF Broken
  <2>6. CASE task[w][s] = "delivered"
    <3>1. Cardinality(Busy(t)') = Cardinality(Busy(t)) + One(task'[w][t] \in Unchecked)
                                    - One(task[w][t] \in Unchecked)
      BY <1>1, <1>5, BusyStep
    <3>2. One(task'[w][t] \in Unchecked) = 0 /\ One(task[w][t] \in Unchecked) = 1
      BY <1>0, <1>1, <1>5, <2>6 DEF One
    <3>3. /\ checks[t] \in Nat /\ checks'[t] = checks[t] /\ Broken \in Nat /\ Broken' = Broken
          /\ Cardinality(Busy(t)) \in Nat /\ Cardinality(Busy(t)') \in Nat
          /\ Left(t) \in 0 .. 2 /\ Left(t)' \in 0 .. 2
      BY BudgetTypes, FaultTypes DEF TypeOK, Broken
    <3>4. QED
      BY <2>3, <3>1, <3>2, <3>3 DEF Spends, Budget
  <2>7. QED
    BY <2>5, <2>6
<1>6. QED
  BY <1>3, <1>4, <1>5

LEMMA SpendsDeliver ==
  ASSUME TypeOK, Owned, NEW w \in Workers, NEW s \in Tasks, NEW t \in Tasks, Deliver(w, s)
  PROVE  Spends(t)
<1>1. /\ queue[s] = "ready" /\ queue' = [queue EXCEPT ![s] = w]
      /\ task' = [task EXCEPT ![w][s] = "delivered"]
      /\ UNCHANGED <<redelivered, frames, checks, faults>>
  BY DEF Deliver, HandOver
<1>2. /\ task'[w][s] = "delivered"
      /\ \A v \in Workers, u \in Tasks : v # w \/ u # s => task'[v][u] = task[v][u]
      /\ queue'[s] = w /\ (t # s => queue'[t] = queue[t])
  BY <1>1 DEF TypeOK
<1>3. task[w][s] = "none" /\ \A v \in Workers : ~ Sent(v, s, Verbs)
  BY <1>1, DeliverStep, NotHeld
<1>4. CASE t # s
  BY <1>1, <1>2, <1>4, OtherTask DEF Broken
<1>5. CASE t = s
  <2>1. Left(t) = 1 + One(~ redelivered[t])
    BY <1>1, <1>5 DEF Left
  <2>2. \A v \in Workers : ~ Sent(v, t, {"requeue"})'
    BY <1>1, <1>3, <1>5 DEF Sent, Verbs
  <2>3. Returns(t)' <=> ~ redelivered[t]
    BY <1>1, <1>2, <1>5, <2>2 DEF Returns, InHand
  <2>4. queue'[t] \notin {"unsent", "inflight", "ready"}
    BY <1>2, <1>5, WorkerAssumption
  <2>5. Left(t)' = One(~ redelivered[t])
    BY <2>3, <2>4 DEF Left, One
  <2>6. Cardinality(Busy(t)') = Cardinality(Busy(t)) + One(task'[w][t] \in Unchecked)
                                  - One(task[w][t] \in Unchecked)
    BY <1>2, <1>5, BusyStep
  <2>7. One(task'[w][t] \in Unchecked) = 1 /\ One(task[w][t] \in Unchecked) = 0
    BY <1>2, <1>3, <1>5 DEF One, Unchecked
  <2>8. /\ checks[t] \in Nat /\ checks'[t] = checks[t] /\ Broken \in Nat /\ Broken' = Broken
        /\ Cardinality(Busy(t)) \in Nat /\ Cardinality(Busy(t)') \in Nat
        /\ One(~ redelivered[t]) \in 0 .. 1
    BY <1>1, BudgetTypes, FaultTypes DEF TypeOK, Broken, One
  <2>9. QED
    BY <2>1, <2>5, <2>6, <2>7, <2>8 DEF Spends, Budget
<1>6. QED
  BY <1>4, <1>5

LEMMA SpendsCheck ==
  ASSUME TypeOK, Owned, NEW w \in Workers, NEW s \in Tasks, NEW t \in Tasks, CheckEnds(w, s)
  PROVE  Spends(t)
<1>1. PICK p \in {"webhook", "checked"} : task' = [task EXCEPT ![w][s] = p]
  BY DEF CheckEnds
<1>2. /\ task[w][s] = "checking" /\ checks' = [checks EXCEPT ![s] = @ + 1]
      /\ UNCHANGED <<queue, redelivered, frames, faults>>
  BY DEF CheckEnds, broker
<1>3. /\ task'[w][s] = p
      /\ \A v \in Workers, u \in Tasks : v # w \/ u # s => task'[v][u] = task[v][u]
  BY <1>1 DEF TypeOK
<1>4. CASE t # s
  <2>1. checks'[t] = checks[t]
    BY <1>2, <1>4 DEF TypeOK
  <2>2. QED
    BY <1>2, <1>3, <1>4, <2>1, OtherTask DEF Broken
<1>5. CASE t = s
  <2>1. Left(t)' = Left(t)
    BY <1>2, <1>3, <1>5, LeftSame DEF Sent, InHand
  <2>2. Cardinality(Busy(t)') = Cardinality(Busy(t)) + One(task'[w][t] \in Unchecked)
                                  - One(task[w][t] \in Unchecked)
    BY <1>3, <1>5, BusyStep
  <2>3. One(task'[w][t] \in Unchecked) = 0 /\ One(task[w][t] \in Unchecked) = 1
    BY <1>2, <1>3, <1>5 DEF One, Unchecked
  <2>4. checks[t] \in Nat /\ checks'[t] = checks[t] + 1
    BY <1>2, <1>5 DEF TypeOK
  <2>5. /\ Broken \in Nat /\ Broken' = Broken
        /\ Cardinality(Busy(t)) \in Nat /\ Left(t) \in 0 .. 2
    BY <1>2, BudgetTypes, FaultTypes DEF TypeOK, Broken
  <2>6. QED
    BY <2>1, <2>2, <2>3, <2>4, <2>5 DEF Spends, Budget
<1>6. QED
  BY <1>4, <1>5

LEMMA SpendsVerb ==
  ASSUME TypeOK, Owned, NEW f \in frames, NEW t \in Tasks, HandleVerb(f)
  PROVE  Spends(t)
<1> DEFINE s == f.of
<1>1. /\ f.by \in Workers /\ s \in Tasks /\ queue[s] = f.by
      /\ frames' = frames \ {f} /\ UNCHANGED <<task, checks, faults>>
      /\ queue' = [queue EXCEPT ![s] = IF f.what = "requeue" THEN "ready" ELSE "gone"]
      /\ redelivered' = [redelivered EXCEPT ![s] = @ \/ f.what = "requeue"]
  BY FrameParts DEF HandleVerb, Owned, run
<1>2. CASE t # s
  <2>1. queue'[t] = queue[t] /\ redelivered'[t] = redelivered[t]
    BY <1>1, <1>2 DEF TypeOK
  <2>2. QED
    BY <1>1, <1>2, <2>1, OtherTask DEF Broken
<1>3. CASE t = s
  <2>1. f.by \notin {"unsent", "inflight", "ready"}
    BY FrameParts
  <2>2. CASE f.what = "requeue"
    <3>1. Returns(t)
      BY <1>1, <1>3, <2>2 DEF Returns, Sent
    <3>2. Left(t) = 1
      BY <1>1, <1>3, <2>1, <3>1 DEF Left, One
    <3>3. queue'[t] = "ready"
      BY <1>1, <1>3, <2>2 DEF TypeOK
    <3>4. redelivered'[t]
      <4>1. /\ redelivered \in [Tasks -> BOOLEAN]
            /\ redelivered' = [redelivered EXCEPT ![t] = TRUE]
        BY <1>1, <1>3, <2>2 DEF TypeOK
      <4>2. QED
        BY <4>1
    <3>5. Left(t)' = 1
      BY <3>3, <3>4 DEF Left, One
    <3>6. Left(t)' <= Left(t)
      BY <3>2, <3>5
    <3>7. QED
      BY <1>1, <3>6, Quiet DEF Broken
  <2>3. CASE f.what # "requeue"
    <3>1. queue'[t] = "gone"
      BY <1>1, <1>3, <2>3 DEF TypeOK
    <3>2. ~ Returns(t)'
      BY <3>1, WorkerAssumption DEF Returns
    <3>3. Left(t)' = 0
      BY <3>1, <3>2 DEF Left, One
    <3>4. Left(t)' <= Left(t)
      BY <3>3, BudgetTypes
    <3>5. QED
      BY <1>1, <3>4, Quiet DEF Broken
  <2>4. QED
    BY <2>2, <2>3
<1>4. QED
  BY <1>2, <1>3

(* A fault gives at most one check back: the one of the delivery that the  *)
(* broker takes back.                                                      *)
LEMMA SpendsFault ==
  ASSUME TypeOK, Owned, NEW w \in Workers, NEW t \in Tasks, BrokerForgets(w),
         \A v \in Workers : v # w => task'[v][t] = task[v][t],
         task'[w][t] = task[w][t] \/ task'[w][t] = "none",
         checks'[t] = checks[t], Broken' = Broken + 1
  PROVE  Spends(t)
<1>1. \A v \in Workers : task'[v][t] \in Unchecked => task[v][t] \in Unchecked
  BY DEF Unchecked
<1>2. Left(t)' <= Left(t) + 1
  <2>1. frames' = {f \in frames : f.by # w}
    BY DEF BrokerForgets
  <2>2. CASE queue[t] = w
    <3>1. queue'[t] = "ready"
      BY <2>2, WorkerAssumption DEF BrokerForgets
    <3>2. redelivered'[t]
      <4>1. redelivered' = [u \in Tasks |-> redelivered[u] \/ queue[u] = w]
        BY DEF BrokerForgets
      <4>2. QED
        BY <2>2, <4>1
    <3>3. Left(t)' = 1
      BY <3>1, <3>2 DEF Left, One
    <3>4. QED
      BY <3>3, BudgetTypes
  <2>3. CASE queue[t] # w /\ queue[t] = "inflight" /\ home[t] = w
    <3>1. queue'[t] = "gone"
      BY <2>3, WorkerAssumption DEF BrokerForgets
    <3>2. ~ Returns(t)'
      BY <3>1, WorkerAssumption DEF Returns
    <3>3. Left(t)' = 0
      BY <3>1, <3>2 DEF Left, One
    <3>4. QED
      BY <3>3, BudgetTypes
  <2>4. CASE queue[t] # w /\ ~ (queue[t] = "inflight" /\ home[t] = w)
    <3>1. queue'[t] = queue[t]
      BY <2>4, WorkerAssumption DEF BrokerForgets
    <3>2. redelivered'[t] = redelivered[t]
      <4>1. /\ redelivered' = [u \in Tasks |-> redelivered[u] \/ queue[u] = w]
            /\ redelivered \in [Tasks -> BOOLEAN]
        BY DEF BrokerForgets, TypeOK
      <4>2. QED
        BY <2>4, <4>1
    <3>3. \A v \in Workers : queue[t] = v =>
            /\ task'[v][t] \in InHand <=> task[v][t] \in InHand
            /\ Sent(v, t, {"requeue"})' <=> Sent(v, t, {"requeue"})
      BY <2>1, <2>4 DEF Sent
    <3>4. Left(t)' = Left(t)
      BY <3>1, <3>2, <3>3, LeftSame
    <3>5. QED
      BY <3>4, BudgetTypes
  <2>5. QED
    BY <2>2, <2>3, <2>4
<1>3. /\ checks[t] \in Nat /\ Broken \in Nat
      /\ Cardinality(Busy(t)) \in Nat /\ Cardinality(Busy(t)') \in Nat
      /\ Left(t) \in 0 .. 2 /\ Left(t)' \in 0 .. 2
      /\ Cardinality(Busy(t)') <= Cardinality(Busy(t))
  BY <1>1, BudgetTypes, BusyFewer, FaultTypes DEF TypeOK, Broken
<1>4. QED
  BY <1>2, <1>3 DEF Spends, Budget

LEMMA SpendsStep ==
  ASSUME TypeOK, Owned, Early, [Next]_vars, NEW t \in Tasks
  PROVE  Spends(t)
<1> USE DEF broker, run, http
<1>0. /\ \A p \in {"none", "rejected", "acked", "replied"} : p \notin InHand \cup Unchecked
      /\ "checked" \in InHand /\ "webhook" \in InHand /\ "checking" \in InHand
      /\ "delivered" \in InHand /\ "checked" \notin Unchecked
      /\ "delivered" \in Unchecked /\ "checking" \in Unchecked
  BY DEF InHand, Unchecked
<1>1. CASE UNCHANGED <<queue, redelivered, frames, task, checks, faults>>
  BY <1>1, OtherTask DEF Broken
<1>2. ASSUME NEW s \in Tasks, NEW w \in Workers,
             RefuseRequest(s, w) \/ RequestFails(s, w)
      PROVE  Spends(t)
  BY <1>1, <1>2 DEF RefuseRequest, RequestFails
<1>3. ASSUME NEW s \in Tasks, NEW w \in Workers, Request(s, w)
      PROVE  Spends(t)
  <2>1. queue[s] = "unsent"
    BY <1>3 DEF Request, Early
  <2>2. QED
    BY <1>3, <2>1, Publishing DEF Request
<1>4. ASSUME NEW s \in Tasks, PublishTask(s) \/ Arrive(s)
      PROVE  Spends(t)
  BY <1>4, Publishing DEF PublishTask, Arrive
<1>5. ASSUME NEW w \in Workers, NEW s \in Tasks, Deliver(w, s)
      PROVE  Spends(t)
  BY <1>5, SpendsDeliver
<1>6. ASSUME NEW f \in frames, HandleVerb(f)
      PROVE  Spends(t)
  BY <1>6, SpendsVerb
<1>7. ASSUME NEW f \in frames, HandleReply(f)
      PROVE  Spends(t)
  <2>1. /\ frames' = frames \ {f} /\ f.what # "requeue"
        /\ UNCHANGED <<queue, redelivered, task, checks, faults>>
    BY <1>7 DEF HandleReply, Answers
  <2>2. \A v \in Workers : Sent(v, t, {"requeue"})' <=> Sent(v, t, {"requeue"})
    BY <2>1 DEF Sent
  <2>3. Left(t)' = Left(t)
    BY <2>1, <2>2, LeftSame
  <2>4. Left(t)' <= Left(t)
    BY <2>3, BudgetTypes
  <2>5. QED
    BY <2>1, <2>4, Quiet DEF Broken
<1>8. ASSUME NEW w \in Workers, NEW s \in Tasks, NEW what \in {"ack", "drop", "throttled", "result"},
             Write(w, s, what)
      PROVE  /\ \A f : f.of # s => (f \in frames' <=> f \in frames)
             /\ \A v \in Workers : Sent(v, s, {"requeue"})' => Sent(v, s, {"requeue"})
             /\ channel[w] # "open" => frames' = frames
  <2>1. what \in Verbs \cup Answers /\ what # "requeue"
    BY DEF Verbs, Answers
  <2>2. QED
    BY <1>8, <2>1, WriteKeeps, WriteTypes
<1>9. ASSUME NEW w \in Workers, NEW s \in Tasks,
             NEW what \in {"ack", "drop", "throttled", "result"},
             NEW p \in {"none", "rejected", "acked", "replied"},
             Write(w, s, what), task' = [task EXCEPT ![w][s] = p],
             UNCHANGED <<queue, redelivered, checks, faults>>
      PROVE  Spends(t)
  <2>1. p \notin InHand /\ p \notin Unchecked
    BY <1>0
  <2>2. /\ \A f : f.of # s => (f \in frames' <=> f \in frames)
        /\ \A v \in Workers : Sent(v, s, {"requeue"})' => Sent(v, s, {"requeue"})
        /\ channel[w] # "open" => frames' = frames
    BY <1>8, <1>9
  <2>3. QED
    BY <1>9, <2>1, <2>2, OneRun
<1>10. ASSUME NEW w \in Workers, NEW s \in Tasks,
              RejectSingleShot(w, s) \/ ReplyThrottled(w, s) \/ Acknowledge(w, s)
                \/ SendReply(w, s)
       PROVE  Spends(t)
  BY <1>9, <1>10 DEF RejectSingleShot, ReplyThrottled, Acknowledge, SendReply, Leave
<1>11. ASSUME NEW w \in Workers, NEW s \in Tasks, RejectBulk(w, s) \/ RequeueOnce(w, s)
       PROVE  Spends(t)
  <2>1. /\ task[w][s] = "delivered" \/ (task[w][s] = "checked" /\ ~ again[w][s])
        /\ Write(w, s, "requeue") /\ task' = [task EXCEPT ![w][s] = "none"]
        /\ UNCHANGED <<queue, redelivered, channel, checks, faults>>
    BY <1>11 DEF RejectBulk, RequeueOnce, Refuses, Leave
  <2>2. QED
    BY <2>1, PutsBack
<1>12. ASSUME NEW w \in Workers, NEW s \in Tasks, NEW p,
              task' = [task EXCEPT ![w][s] = p],
              p \in Unchecked => task[w][s] \in Unchecked,
              p \in InHand => task[w][s] \in InHand,
              UNCHANGED <<queue, redelivered, frames, checks, faults>>
       PROVE  Spends(t)
  BY <1>12, OneRun DEF Sent
<1>13. ASSUME NEW w \in Workers, NEW s \in Tasks,
              StartCheck(w, s) \/ WebhookEnds(w, s)
       PROVE  Spends(t)
  BY <1>0, <1>12, <1>13 DEF StartCheck, WebhookEnds
<1>14. ASSUME NEW w \in Workers, NEW s \in Tasks, CheckEnds(w, s)
       PROVE  Spends(t)
  BY <1>14, SpendsCheck
<1>15. ASSUME NEW w \in Workers, NEW s \in Tasks,
              Orphaned(w, s) \/ ReplyFails(w, s) \/ Store(w, s)
       PROVE  Spends(t)
  BY <1>0, <1>12, <1>15 DEF Orphaned, ReplyFails, Store, Leave
<1>16. ASSUME UNCHANGED <<queue, redelivered, frames, checks, Broken>>,
              \A v \in Workers : /\ task'[v][t] \in {task[v][t], "none"}
                                 /\ queue[t] = v =>
                                      (task'[v][t] \in InHand <=> task[v][t] \in InHand)
       PROVE  Spends(t)
  <2>1. Left(t)' = Left(t)
    BY <1>16, LeftSame DEF Sent
  <2>2. Left(t)' <= Left(t)
    BY <2>1, BudgetTypes
  <2>3. \A v \in Workers : task'[v][t] \in Unchecked => task[v][t] \in Unchecked
    BY <1>0, <1>16
  <2>4. QED
    BY <1>16, <2>2, <2>3, Quiet
<1>17. ASSUME NEW w \in Workers, NEW s \in Tasks, StoreFails(w, s)
       PROVE  Spends(t)
  <2>1. /\ task[w][s] \in {"acked", "replied"} /\ task' = [task EXCEPT ![w][s] = "none"]
        /\ UNCHANGED <<queue, redelivered, frames, checks>>
        /\ faults' = [faults EXCEPT !.stores = @ + 1]
    BY <1>17 DEF StoreFails, ToStore, Leave
  <2>2. UNCHANGED Broken
    BY <2>1 DEF Broken, TypeOK
  <2>3. \A v \in Workers : /\ task'[v][t] \in {task[v][t], "none"}
                           /\ task'[v][t] \in InHand <=> task[v][t] \in InHand
    BY <1>0, <2>1 DEF TypeOK
  <2>4. QED
    BY <1>16, <2>1, <2>2, <2>3
<1>18. ASSUME NEW w \in Workers, LoopEnds(w)
       PROVE  Spends(t)
  <2>1. /\ channel[w] = "closed" /\ UNCHANGED <<queue, redelivered, frames, checks, faults>>
        /\ \A v \in Workers : /\ task'[v][t] \in {task[v][t], "none"}
                              /\ v # w => task'[v][t] = task[v][t]
    BY <1>18 DEF LoopEnds, TypeOK
  <2>2. queue[t] # w
    BY <2>1 DEF Owned
  <2>3. QED
    BY <1>16, <2>1, <2>2 DEF Broken
<1>19. ASSUME NEW w \in Workers, LoseConnection(w) \/ Crash(w)
       PROVE  Spends(t)
  <2>1. /\ \A v \in Workers : v # w => task'[v][t] = task[v][t]
        /\ task'[w][t] = task[w][t] \/ task'[w][t] = "none"
    <3>1. CASE LoseConnection(w)
      BY <3>1 DEF LoseConnection
    <3>2. CASE Crash(w)
      BY <3>2 DEF Crash, TypeOK
    <3>3. QED
      BY <1>19, <3>1, <3>2
  <2>2. BrokerForgets(w) /\ checks'[t] = checks[t]
    BY <1>19 DEF LoseConnection, Crash
  <2>3. Broken' = Broken + 1
    BY <1>19, FaultIsCounted
  <2>4. QED
    BY <2>1, <2>2, <2>3, SpendsFault
<1>20. QED
  BY <1>1, <1>2, <1>3, <1>4, <1>5, <1>6, <1>7, <1>10, <1>11, <1>13, <1>14, <1>15,
     <1>17, <1>18, <1>19
     DEF Next, ServerSteps, BrokerSteps, Requests, LoopSteps, TaskSteps, Subscribe,
         ReceiveReply, CreateJob, PublishFails, AcceptJob, WindowElapses, NoticeLoss, vars

(* An email is verified twice at most, and once more for every fault.      *)
THEOREM ChecksBounded == Spec => []BoundedChecks
<1>1. Init => WithinBudget
  <2> SUFFICES ASSUME Init, NEW t \in Tasks
               PROVE  Budget(t) <= 2 + Broken
    BY DEF WithinBudget
  <2>1. Busy(t) = {}
    BY DEF Init, Busy, Unchecked
  <2>2. Cardinality(Busy(t)) = 0
    BY <2>1, FS_EmptySet
  <2>3. checks[t] = 0 /\ Broken = 0 /\ Left(t) <= 2
    BY DEF Init, Broken, Left, One
  <2>4. QED
    BY <2>2, <2>3, BudgetTypes DEF Budget
<1>2. TypeOK /\ (Owned /\ Early) /\ WithinBudget /\ [Next]_vars => WithinBudget'
  <2> SUFFICES ASSUME TypeOK, Owned, Early, WithinBudget, [Next]_vars, NEW t \in Tasks
               PROVE  Budget(t)' <= 2 + Broken'
    BY DEF WithinBudget
  <2>1. TypeOK'
    BY TypeStep
  <2>2. /\ checks[t] \in Nat /\ checks'[t] \in Nat /\ Broken \in Nat /\ Broken' \in Int
        /\ Cardinality(Busy(t)) \in Nat /\ Cardinality(Busy(t)') \in Nat
        /\ Left(t) \in 0 .. 2 /\ Left(t)' \in 0 .. 2
    BY <2>1, BudgetTypes, FaultTypes, WorkerAssumption DEF TypeOK, Broken
  <2>3. Budget(t) \in Int /\ Budget(t)' \in Int
    BY <2>2 DEF Budget
  <2>4. Budget(t)' + Broken <= Budget(t) + Broken'
    BY SpendsStep DEF Spends
  <2>5. Budget(t) <= 2 + Broken
    BY DEF WithinBudget
  <2>6. QED
    BY <2>2, <2>3, <2>4, <2>5
<1>3. TypeOK /\ WithinBudget => BoundedChecks
  <2> SUFFICES ASSUME TypeOK, WithinBudget, NEW t \in Tasks
               PROVE  checks[t] <= 2 + Broken
    BY DEF BoundedChecks
  <2>1. /\ checks[t] \in Nat /\ Broken \in Nat
        /\ Cardinality(Busy(t)) \in Nat /\ Left(t) \in 0 .. 2
    BY BudgetTypes, FaultTypes DEF TypeOK, Broken
  <2>2. QED
    BY <2>1 DEF WithinBudget, Budget
<1>4. QED
  BY <1>1, <1>2, <1>3, TypeCorrect, OwnedHolds, PTL DEF Spec
=============================================================================
