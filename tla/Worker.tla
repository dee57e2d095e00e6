------------------------------- MODULE Worker -------------------------------
(***************************************************************************)
(* The v1 verification pipeline of the backend:                            *)
(*   - http/v1/check_email/post.rs (handle_with_worker): one email, the    *)
(*     handler waits for the answer on a reply queue of its own;           *)
(*   - http/v1/bulk/post.rs: a job of many emails, one task each;          *)
(*   - worker/consume.rs and worker/do_work.rs: the consumer loop of the   *)
(*     "check_email" queue and the task it spawns for each delivery;       *)
(*   - storage/postgres.rs: one row of v1_task_result per result.          *)
(* RabbitMQ is external: a priority queue with explicit acknowledgement,   *)
(* a redelivered flag and a prefetch limit per channel.  It is modelled    *)
(* from how the code uses it.  basic.ack, basic.reject and basic.publish   *)
(* have no answer: awaiting one of them is awaiting that its frame is      *)
(* written, and a frame that is written may still be lost.                 *)
(*                                                                         *)
(* A worker is a backend process: HTTP server and consumer loop share one  *)
(* channel.  A task is a message of the queue; single-shot tasks and bulk  *)
(* tasks differ in JobOf.                                                  *)
(***************************************************************************)
EXTENDS Integers, FiniteSets

CONSTANTS
  Workers, NoWorker,
  Tasks, Jobs, SingleShot,
  JobOf,          \* the job of a bulk task, SingleShot for the others
  Webhooks,       \* the jobs that have a webhook
  Concurrency,    \* rabbitmq.concurrency, the prefetch limit of a channel
  Limit,          \* the configured maximum of one throttle window
  MaxLosses,      \* bound on lost connections to the broker
  MaxCrashes,     \* bound on killed processes
  MaxFaults,      \* bound on both together
  MaxStoreErrors  \* bound on failed INSERTs

ASSUME WorkerAssumption ==
  /\ IsFiniteSet(Workers)
  /\ IsFiniteSet(Tasks)
  /\ NoWorker \notin Workers
  /\ SingleShot \notin Jobs
  /\ JobOf \in [Tasks -> Jobs \cup {SingleShot}]
  /\ Webhooks \subseteq Jobs
  /\ \A w \in Workers : w \notin {"unsent", "inflight", "ready", "gone"}
  /\ Concurrency \in Nat \ {0}
  /\ Limit \in Nat
  /\ MaxLosses \in Nat
  /\ MaxCrashes \in Nat
  /\ MaxFaults \in Nat
  /\ MaxStoreErrors \in Nat

VARIABLES
  queue,       \* where each message is: with its publisher, in the broker, or unacked at a worker
  redelivered, \* the broker's redelivered flag
  frames,      \* acks, rejects and replies that are written and not yet at the broker
  channel,     \* a worker's channel: open, lost before the worker knows, closed
  task,        \* what worker w is doing with task t
  again,       \* Delivery.redelivered of that task
  count,       \* verifications a worker started in its current throttle window
  output,      \* worker_output of the last delivery that was acknowledged
  checks,      \* completed runs of check_email per task (observation)
  rows,        \* rows of v1_task_result per task
  job,         \* the POST /v1/bulk request of each job
  home,        \* the worker whose HTTP server took the request
  client,      \* the POST /v1/check_email request of a single-shot task
  reply,       \* content of that request's reply queue
  faults       \* how many faults of each kind have happened

broker == <<queue, redelivered, frames>>
run    == <<task, again>>
http   == <<job, home, client>>
vars   == <<queue, redelivered, frames, channel, task, again, count, output,
            checks, rows, job, home, client, reply, faults>>

Bulk(t)     == JobOf[t] # SingleShot
Hooked(t)   == JobOf[t] \in Webhooks
TasksOf(j)  == {t \in Tasks : JobOf[t] = j}
Places      == {"unsent", "inflight", "ready", "gone"} \cup Workers
Channels    == {"open", "lost", "closed"}
Phases      == {"none", "delivered", "checking", "webhook", "checked",
                "rejected", "acked", "replied"}
Outputs     == {"known", "unsure"}  \* unsure: unknown, or the webhook failed
JobStates   == {"none", "publishing", "accepted", "failed"}
Waiting     == {"published", "waiting"}
Answered    == {"result", "throttled", "error"}

\* What settles a delivery, and what answers the client of one.
Verbs   == {"ack", "drop", "requeue"}
Answers == {"result", "throttled"}
Frames  == [by : Workers, of : Tasks, what : Verbs \cup Answers]

Init ==
  /\ queue = [t \in Tasks |-> "unsent"]
  /\ redelivered = [t \in Tasks |-> FALSE]
  /\ frames = {}
  /\ channel = [w \in Workers |-> "open"]
  /\ task = [w \in Workers |-> [t \in Tasks |-> "none"]]
  /\ again = [w \in Workers |-> [t \in Tasks |-> FALSE]]
  /\ count = [w \in Workers |-> 0]
  /\ output = [t \in Tasks |-> "none"]
  /\ checks = [t \in Tasks |-> 0]
  /\ rows = [t \in Tasks |-> 0]
  /\ job = [j \in Jobs |-> "none"]
  /\ home = [t \in Tasks |-> NoWorker]
  /\ client = [t \in Tasks |-> "idle"]
  /\ reply = [t \in Tasks |-> "none"]
  /\ faults = [losses |-> 0, crashes |-> 0, stores |-> 0]

Throttled(w) == count[w] >= Limit

\* Everything the broker counts against the prefetch limit of w's channel.
Unacked(w) == {t \in Tasks : queue[t] = w}

Frame(w, t, what) == [by |-> w, of |-> t, what |-> what]

\* Writing fails only on a channel that is known to be closed; what is written
\* to a connection that is lost goes nowhere.
Write(w, t, what) ==
  frames' = IF channel[w] = "open" THEN frames \cup {Frame(w, t, what)} ELSE frames

\* Worker w is through with task t.
Leave(w, t) ==
  /\ task' = [task EXCEPT ![w][t] = "none"]
  /\ again' = [again EXCEPT ![w][t] = FALSE]

-----------------------------------------------------------------------------
(* POST /v1/check_email with a worker.                                     *)

\* check_throttle refuses the request with 429 before anything is published.
RefuseRequest(t, w) ==
  /\ ~ Bulk(t)
  /\ client[t] = "idle"
  /\ Throttled(w)
  /\ client' = [client EXCEPT ![t] = "throttled"]
  /\ UNCHANGED <<broker, channel, run, count, output, checks, rows, job, home,
                 reply, faults>>

\* The handler declares its exclusive reply queue, which waits for the broker's
\* answer, and publishes the task.
Request(t, w) ==
  /\ ~ Bulk(t)
  /\ client[t] = "idle"
  /\ ~ Throttled(w)
  /\ channel[w] = "open"
  /\ client' = [client EXCEPT ![t] = "published"]
  /\ home' = [home EXCEPT ![t] = w]
  /\ queue' = [queue EXCEPT ![t] = "inflight"]
  /\ UNCHANGED <<redelivered, frames, channel, run, count, output, checks,
                 rows, job, reply, faults>>

\* Declaring or publishing fails on a closed channel: 500.
RequestFails(t, w) ==
  /\ ~ Bulk(t)
  /\ client[t] = "idle"
  /\ ~ Throttled(w)
  /\ channel[w] = "closed"
  /\ client' = [client EXCEPT ![t] = "error"]
  /\ UNCHANGED <<broker, channel, run, count, output, checks, rows, job, home,
                 reply, faults>>

\* Only then does it start to consume its reply queue.
Subscribe(t) ==
  /\ client[t] = "published"
  /\ channel[home[t]] = "open"
  /\ client' = [client EXCEPT ![t] = "waiting"]
  /\ UNCHANGED <<broker, channel, run, count, output, checks, rows, job, home,
                 reply, faults>>

\* The reply is delivered on the same channel as the tasks, under the same
\* prefetch limit (basic_qos is global), and acknowledged at once.
ReceiveReply(t) ==
  /\ client[t] = "waiting"
  /\ reply[t] # "none"
  /\ Cardinality(Unacked(home[t])) < Concurrency
  /\ client' = [client EXCEPT ![t] = reply[t]]
  /\ reply' = [reply EXCEPT ![t] = "none"]
  /\ UNCHANGED <<broker, channel, run, count, output, checks, rows, job, home,
                 faults>>

-----------------------------------------------------------------------------
(* POST /v1/bulk.                                                          *)

\* The job's row, with the number of its emails, is written first.
CreateJob(j, w) ==
  /\ job[j] = "none"
  /\ job' = [job EXCEPT ![j] = "publishing"]
  /\ home' = [t \in Tasks |-> IF JobOf[t] = j THEN w ELSE home[t]]
  /\ UNCHANGED <<broker, channel, run, count, output, checks, rows, client,
                 reply, faults>>

\* Then its tasks are published, several at a time and so in any order.
PublishTask(t) ==
  /\ Bulk(t)
  /\ job[JobOf[t]] = "publishing"
  /\ queue[t] = "unsent"
  /\ channel[home[t]] # "closed"
  /\ queue' = [queue EXCEPT ![t] =
       IF channel[home[t]] = "open" THEN "inflight" ELSE "gone"]
  /\ UNCHANGED <<redelivered, frames, channel, run, count, output, checks, rows,
                 http, reply, faults>>

\* Bug: the job's row is removed again, although some tasks were published.
PublishFailsForgets(t) ==
  /\ Bulk(t)
  /\ job[JobOf[t]] = "publishing"
  /\ queue[t] = "unsent"
  /\ channel[home[t]] = "closed"
  /\ job' = [job EXCEPT ![JobOf[t]] = "none"]
  /\ UNCHANGED <<broker, channel, run, count, output, checks, rows, home,
                 client, reply, faults>>

\* The first publish that fails ends the request; the tasks published so far
\* stay in the queue.
PublishFails(t) ==
  /\ Bulk(t)
  /\ job[JobOf[t]] = "publishing"
  /\ queue[t] = "unsent"
  /\ channel[home[t]] = "closed"
  /\ job' = [job EXCEPT ![JobOf[t]] = "failed"]
  /\ UNCHANGED <<broker, channel, run, count, output, checks, rows, home,
                 client, reply, faults>>

\* Bug: the publishes are spawned and the job's id is returned at once.
AcceptJobEarly(j) ==
  /\ job[j] = "publishing"
  /\ job' = [job EXCEPT ![j] = "accepted"]
  /\ UNCHANGED <<broker, channel, run, count, output, checks, rows, home,
                 client, reply, faults>>

\* All of them published: the client gets the job's id.
AcceptJob(j) ==
  /\ job[j] = "publishing"
  /\ \A t \in TasksOf(j) : queue[t] # "unsent"
  /\ job' = [job EXCEPT ![j] = "accepted"]
  /\ UNCHANGED <<broker, channel, run, count, output, checks, rows, home,
                 client, reply, faults>>

-----------------------------------------------------------------------------
(* The broker.                                                             *)

\* Publishes are not confirmed: basic_publish returns before the message is
\* in the queue.
Arrive(t) ==
  /\ queue[t] = "inflight"
  /\ queue' = [queue EXCEPT ![t] = "ready"]
  /\ UNCHANGED <<redelivered, frames, channel, run, count, output, checks, rows,
                 http, reply, faults>>

\* Single-shot tasks have the highest priority, bulk tasks the lowest.
FirstInLine(t) == Bulk(t) => \A s \in Tasks : queue[s] = "ready" => Bulk(s)

HandOver(w, t) ==
  /\ task' = [task EXCEPT ![w][t] = "delivered"]
  /\ again' = [again EXCEPT ![w][t] = redelivered[t]]

\* Bug: the prefetch limit is off by one.
DeliverOneMore(w, t) ==
  /\ channel[w] = "open"
  /\ queue[t] = "ready"
  /\ FirstInLine(t)
  /\ Cardinality(Unacked(w)) <= Concurrency
  /\ queue' = [queue EXCEPT ![t] = w]
  /\ HandOver(w, t)
  /\ UNCHANGED <<redelivered, frames, channel, count, output, checks, rows, http,
                 reply, faults>>

\* Bug: messages are consumed with no_ack, so delivery takes them off the queue.
DeliverNoAck(w, t) ==
  /\ channel[w] = "open"
  /\ queue[t] = "ready"
  /\ FirstInLine(t)
  /\ Cardinality(Unacked(w)) < Concurrency
  /\ queue' = [queue EXCEPT ![t] = "gone"]
  /\ HandOver(w, t)
  /\ UNCHANGED <<redelivered, frames, channel, count, output, checks, rows, http,
                 reply, faults>>

Deliver(w, t) ==
  /\ channel[w] = "open"
  /\ queue[t] = "ready"
  /\ FirstInLine(t)
  /\ Cardinality(Unacked(w)) < Concurrency
  /\ queue' = [queue EXCEPT ![t] = w]
  /\ HandOver(w, t)
  /\ UNCHANGED <<redelivered, frames, channel, count, output, checks, rows, http,
                 reply, faults>>

\* A frame that settles a delivery takes the message off the queue or puts it
\* back ...
HandleVerb(f) ==
  /\ f \in frames
  /\ f.what \in Verbs
  /\ frames' = frames \ {f}
  /\ queue' = [queue EXCEPT ![f.of] = IF f.what = "requeue" THEN "ready" ELSE "gone"]
  /\ redelivered' = [redelivered EXCEPT ![f.of] = @ \/ f.what = "requeue"]
  /\ UNCHANGED <<channel, run, count, output, checks, rows, http, reply, faults>>

\* ... and a reply, written behind it on the same channel, goes to its reply
\* queue if that still exists, else nowhere.
HandleReply(f) ==
  /\ f \in frames
  /\ f.what \in Answers
  /\ \A g \in frames : g.by = f.by /\ g.of = f.of => g.what \in Answers
  /\ frames' = frames \ {f}
  /\ reply' = [reply EXCEPT ![f.of] =
       IF client[f.of] \in Waiting /\ channel[home[f.of]] = "open" THEN f.what ELSE @]
  /\ UNCHANGED <<queue, redelivered, channel, run, count, output, checks, rows,
                 http, faults>>

-----------------------------------------------------------------------------
(* The consumer loop, consume_check_email.                                 *)

\* The loop handles one delivery at a time.
LoopIdle(w) == \A t \in Tasks : task[w][t] # "rejected"

Refuses(w, t) ==
  /\ task[w][t] = "delivered"
  /\ LoopIdle(w)
  /\ Throttled(w)
  /\ channel[w] # "closed"

\* Bug: the loop continues without telling the client.
RejectSilently(w, t) ==
  /\ Refuses(w, t)
  /\ ~ Bulk(t)
  /\ Write(w, t, "drop")
  /\ Leave(w, t)
  /\ UNCHANGED <<queue, redelivered, channel, count, output, checks, rows, http,
                 reply, faults>>

\* A throttled single-shot task is dropped from the queue ...
RejectSingleShot(w, t) ==
  /\ Refuses(w, t)
  /\ ~ Bulk(t)
  /\ Write(w, t, "drop")
  /\ task' = [task EXCEPT ![w][t] = "rejected"]
  /\ UNCHANGED <<queue, redelivered, channel, again, count, output, checks, rows,
                 http, reply, faults>>

\* ... and its client is told.
ReplyThrottled(w, t) ==
  /\ task[w][t] = "rejected"
  /\ channel[w] # "closed"
  /\ Write(w, t, "throttled")
  /\ Leave(w, t)
  /\ UNCHANGED <<queue, redelivered, channel, count, output, checks, rows, http,
                 reply, faults>>

\* Bug: a throttled bulk task is rejected without requeue.
DiscardBulk(w, t) ==
  /\ Refuses(w, t)
  /\ Bulk(t)
  /\ Write(w, t, "drop")
  /\ Leave(w, t)
  /\ UNCHANGED <<queue, redelivered, channel, count, output, checks, rows, http,
                 reply, faults>>

\* A throttled bulk task goes back to the queue.
RejectBulk(w, t) ==
  /\ Refuses(w, t)
  /\ Bulk(t)
  /\ Write(w, t, "requeue")
  /\ Leave(w, t)
  /\ UNCHANGED <<queue, redelivered, channel, count, output, checks, rows, http,
                 reply, faults>>

\* Otherwise the task is spawned and counted by the throttle, also when it was
\* delivered before the channel closed.
StartCheck(w, t) ==
  /\ task[w][t] = "delivered"
  /\ LoopIdle(w)
  /\ ~ Throttled(w)
  /\ task' = [task EXCEPT ![w][t] = "checking"]
  /\ count' = [count EXCEPT ![w] = @ + 1]
  /\ UNCHANGED <<broker, channel, again, output, checks, rows, http, reply, faults>>

\* On a closed channel the loop ends, at the consumer's error or at a reject or
\* a reply that fails, and drops what it has not started.
LoopEnds(w) ==
  /\ channel[w] = "closed"
  /\ \E t \in Tasks : task[w][t] \in {"delivered", "rejected"}
  /\ LET left == {t \in Tasks : task[w][t] \in {"delivered", "rejected"}} IN
       /\ task' = [task EXCEPT ![w] =
            [t \in Tasks |-> IF t \in left THEN "none" ELSE task[w][t]]]
       /\ again' = [again EXCEPT ![w] =
            [t \in Tasks |-> again[w][t] /\ t \notin left]]
  /\ UNCHANGED <<broker, channel, count, output, checks, rows, http, reply, faults>>

\* The throttle's window runs out and check_throttle restarts it.
WindowElapses(w) ==
  /\ count[w] > 0
  /\ count' = [count EXCEPT ![w] = 0]
  /\ UNCHANGED <<broker, channel, run, output, checks, rows, http, reply, faults>>

-----------------------------------------------------------------------------
(* The spawned task, do_check_email_work.                                  *)

\* check_email is over; the webhook is called, if the job has one ...
CheckEnds(w, t) ==
  /\ task[w][t] = "checking"
  /\ checks' = [checks EXCEPT ![t] = @ + 1]
  /\ task' = [task EXCEPT ![w][t] = IF Hooked(t) THEN "webhook" ELSE "checked"]
  /\ UNCHANGED <<broker, channel, again, count, output, rows, http, reply, faults>>

\* ... and answers or fails.
WebhookEnds(w, t) ==
  /\ task[w][t] = "webhook"
  /\ task' = [task EXCEPT ![w][t] = "checked"]
  /\ UNCHANGED <<broker, channel, again, count, output, checks, rows, http, reply,
                 faults>>

\* Bug: the redelivered flag is not looked at.
RequeueAlways(w, t) ==
  /\ task[w][t] = "checked"
  /\ channel[w] # "closed"
  /\ Write(w, t, "requeue")
  /\ Leave(w, t)
  /\ UNCHANGED <<queue, redelivered, channel, count, output, checks, rows, http,
                 reply, faults>>

\* An unknown or failed result of a message that was never redelivered goes
\* back to the queue.
RequeueOnce(w, t) ==
  /\ task[w][t] = "checked"
  /\ channel[w] # "closed"
  /\ ~ again[w][t]
  /\ Write(w, t, "requeue")
  /\ Leave(w, t)
  /\ UNCHANGED <<queue, redelivered, channel, count, output, checks, rows, http,
                 reply, faults>>

\* Bug: a final result is rejected like the others, and stored.
AcknowledgeRequeues(w, t) ==
  /\ task[w][t] = "checked"
  /\ channel[w] # "closed"
  /\ \E o \in Outputs :
       /\ o = "unsure" => again[w][t]
       /\ output' = [output EXCEPT ![t] = o]
  /\ Write(w, t, "requeue")
  /\ task' = [task EXCEPT ![w][t] = "acked"]
  /\ UNCHANGED <<queue, redelivered, channel, again, count, checks, rows, http,
                 reply, faults>>

\* Any other result is final: the message is acknowledged first.
Acknowledge(w, t) ==
  /\ task[w][t] = "checked"
  /\ channel[w] # "closed"
  /\ \E o \in Outputs :
       /\ o = "unsure" => again[w][t]
       /\ output' = [output EXCEPT ![t] = o]
  /\ Write(w, t, "ack")
  /\ task' = [task EXCEPT ![w][t] = "acked"]
  /\ UNCHANGED <<queue, redelivered, channel, again, count, checks, rows, http,
                 reply, faults>>

\* The channel is closed: neither reject nor ack succeeds and the task ends.
Orphaned(w, t) ==
  /\ task[w][t] = "checked"
  /\ channel[w] = "closed"
  /\ Leave(w, t)
  /\ UNCHANGED <<broker, channel, count, output, checks, rows, http, reply, faults>>

\* Then the client of a single-shot task is answered ...
SendReply(w, t) ==
  /\ task[w][t] = "acked"
  /\ ~ Bulk(t)
  /\ channel[w] # "closed"
  /\ Write(w, t, "result")
  /\ task' = [task EXCEPT ![w][t] = "replied"]
  /\ UNCHANGED <<queue, redelivered, channel, again, count, output, checks, rows,
                 http, reply, faults>>

\* ... and if that fails the task ends with an error, before its result is
\* stored.
ReplyFails(w, t) ==
  /\ task[w][t] = "acked"
  /\ ~ Bulk(t)
  /\ channel[w] = "closed"
  /\ Leave(w, t)
  /\ UNCHANGED <<broker, channel, count, output, checks, rows, http, reply, faults>>

ToStore(w, t) == task[w][t] = IF Bulk(t) THEN "acked" ELSE "replied"

\* Last, the result is stored ...
Store(w, t) ==
  /\ ToStore(w, t)
  /\ rows' = [rows EXCEPT ![t] = @ + 1]
  /\ Leave(w, t)
  /\ UNCHANGED <<broker, channel, count, output, checks, http, reply, faults>>

\* ... or the INSERT fails and nobody retries it.
StoreFails(w, t) ==
  /\ ToStore(w, t)
  /\ faults.stores < MaxStoreErrors
  /\ faults' = [faults EXCEPT !.stores = @ + 1]
  /\ Leave(w, t)
  /\ UNCHANGED <<broker, channel, count, output, checks, rows, http, reply>>

-----------------------------------------------------------------------------
(* Faults.                                                                 *)

\* What the broker does when w's connection is over: unacked messages return to
\* the queue, w's reply queues are exclusive and vanish, and what w had written
\* and was still on its way is lost.
BrokerForgets(w) ==
  /\ queue' = [t \in Tasks |->
       CASE queue[t] = w -> "ready"
         [] queue[t] = "inflight" /\ home[t] = w -> "gone"
         [] OTHER -> queue[t]]
  /\ redelivered' = [t \in Tasks |-> redelivered[t] \/ queue[t] = w]
  /\ frames' = {f \in frames : f.by # w}
  /\ reply' = [t \in Tasks |-> IF home[t] = w THEN "none" ELSE reply[t]]

FaultAllowed == faults.losses + faults.crashes < MaxFaults

\* Bug: the tasks that are still running are aborted with the connection.
LoseConnectionAborts(w) ==
  /\ channel[w] = "open"
  /\ faults.losses < MaxLosses
  /\ FaultAllowed
  /\ faults' = [faults EXCEPT !.losses = @ + 1]
  /\ channel' = [channel EXCEPT ![w] = "lost"]
  /\ BrokerForgets(w)
  /\ task' = [task EXCEPT ![w] = [t \in Tasks |-> "none"]]
  /\ again' = [again EXCEPT ![w] = [t \in Tasks |-> FALSE]]
  /\ UNCHANGED <<count, output, checks, rows, http>>

\* The connection to the broker breaks.  The broker gives it up, and the process
\* does not know yet: it goes on with what it has, and writes to nobody.
LoseConnection(w) ==
  /\ channel[w] = "open"
  /\ faults.losses < MaxLosses
  /\ FaultAllowed
  /\ faults' = [faults EXCEPT !.losses = @ + 1]
  /\ channel' = [channel EXCEPT ![w] = "lost"]
  /\ BrokerForgets(w)
  /\ UNCHANGED <<run, count, output, checks, rows, http>>

\* It finds out (at once, or by a missing heartbeat).  Nothing reopens the
\* channel: the handlers that wait for a reply answer 500, running checks go on.
NoticeLoss(w) ==
  /\ channel[w] = "lost"
  /\ channel' = [channel EXCEPT ![w] = "closed"]
  /\ client' = [t \in Tasks |->
       IF home[t] = w /\ client[t] \in Waiting THEN "error" ELSE client[t]]
  /\ UNCHANGED <<broker, run, count, output, checks, rows, job, home, reply, faults>>

\* The process is killed and started again: its tasks are gone, its requests
\* fail, its throttle starts from zero, its channel is new.
Crash(w) ==
  /\ faults.crashes < MaxCrashes
  /\ FaultAllowed
  /\ faults' = [faults EXCEPT !.crashes = @ + 1]
  /\ channel' = [channel EXCEPT ![w] = "open"]
  /\ BrokerForgets(w)
  /\ task' = [task EXCEPT ![w] = [t \in Tasks |-> "none"]]
  /\ again' = [again EXCEPT ![w] = [t \in Tasks |-> FALSE]]
  /\ count' = [count EXCEPT ![w] = 0]
  /\ client' = [t \in Tasks |->
       IF home[t] = w /\ client[t] \in Waiting THEN "error" ELSE client[t]]
  /\ job' = [j \in Jobs |->
       IF job[j] = "publishing" /\ \E t \in TasksOf(j) : home[t] = w
       THEN "failed" ELSE job[j]]
  /\ UNCHANGED <<output, checks, rows, home>>

-----------------------------------------------------------------------------

TaskSteps(w, t) ==
  \/ RequeueOnce(w, t) \/ Acknowledge(w, t) \/ Orphaned(w, t)
  \/ SendReply(w, t) \/ ReplyFails(w, t) \/ Store(w, t)

LoopSteps(w, t) ==
  RejectSingleShot(w, t) \/ ReplyThrottled(w, t) \/ RejectBulk(w, t)

BrokerSteps(t) ==
  \/ Arrive(t)
  \/ \E f \in frames : f.of = t /\ (HandleVerb(f) \/ HandleReply(f))

ServerSteps ==
  \/ \E t \in Tasks : Subscribe(t) \/ PublishTask(t) \/ PublishFails(t)
  \/ \E j \in Jobs : AcceptJob(j)

Requests(w) ==
  \/ \E t \in Tasks : RefuseRequest(t, w) \/ Request(t, w) \/ RequestFails(t, w)
  \/ \E j \in Jobs : CreateJob(j, w)

Next ==
  \/ ServerSteps
  \/ \E t \in Tasks : BrokerSteps(t) \/ ReceiveReply(t)
  \/ \E w \in Workers :
       \/ Requests(w)
       \/ WindowElapses(w) \/ LoopEnds(w)
       \/ LoseConnection(w) \/ NoticeLoss(w) \/ Crash(w)
       \/ \E t \in Tasks :
            \/ Deliver(w, t) \/ LoopSteps(w, t) \/ StartCheck(w, t)
            \/ CheckEnds(w, t) \/ WebhookEnds(w, t)
            \/ TaskSteps(w, t) \/ StoreFails(w, t)

Spec == Init /\ [][Next]_vars

\* Processes and broker keep working, and the clock moves.  Nothing says that a
\* check ends (smtp_timeout is optional, WebDriver and HTTP calls have none) or
\* that a webhook answers, so neither step is fair.  Strong fairness: the
\* broker puts a requeued message back in its old place, so it does not pass
\* the same message over for ever, neither when a slot frees up nor when the
\* throttle opens.
Fairness ==
  /\ WF_vars(ServerSteps)
  /\ \A t \in Tasks : WF_vars(BrokerSteps(t)) /\ SF_vars(ReceiveReply(t))
  /\ \A t \in Tasks : SF_vars(\E w \in Workers : Deliver(w, t))
  /\ \A t \in Tasks : SF_vars(\E w \in Workers : StartCheck(w, t))
  /\ \A w \in Workers : WF_vars(WindowElapses(w))
  /\ \A w \in Workers, t \in Tasks :
       WF_vars(LoopSteps(w, t)) /\ WF_vars(TaskSteps(w, t))

FairSpec == Spec /\ Fairness

-----------------------------------------------------------------------------
(* Properties.                                                             *)

\* Type invariant.
TypeOK ==
  /\ queue \in [Tasks -> Places]
  /\ redelivered \in [Tasks -> BOOLEAN]
  /\ frames \in SUBSET Frames
  /\ channel \in [Workers -> Channels]
  /\ task \in [Workers -> [Tasks -> Phases]]
  /\ again \in [Workers -> [Tasks -> BOOLEAN]]
  /\ count \in [Workers -> Nat]
  /\ output \in [Tasks -> Outputs \cup {"none"}]
  /\ checks \in [Tasks -> Nat]
  /\ rows \in [Tasks -> Nat]
  /\ job \in [Jobs -> JobStates]
  /\ home \in [Tasks -> Workers \cup {NoWorker}]
  /\ client \in [Tasks -> {"idle"} \cup Waiting \cup Answered]
  /\ reply \in [Tasks -> {"none"} \cup Answers]
  /\ \A t \in Tasks : client[t] \in Waiting => home[t] \in Workers
  /\ faults \in [losses : 0 .. MaxLosses, crashes : 0 .. MaxCrashes,
                 stores : 0 .. MaxStoreErrors]

InHand  == {"delivered", "checking", "webhook", "checked"}
Settled == {"acked", "replied"}

\* A frame of w about t is on its way.
Sent(w, t, verbs) == \E f \in frames : f.by = w /\ f.of = t /\ f.what \in verbs

\* A run of t has a final verdict and is not over.
Final(t) == \E w \in Workers : task[w][t] \in Settled

\* No prefetch slot and no message leaks: what the broker counts against an open
\* channel is a delivery that its process works on or one that a frame on its
\* way is about to settle, never both; a channel that is lost has neither slots
\* nor frames; and a delivery that its process is through with is off the
\* queue, or about to be.
Custody ==
  /\ \A w \in Workers, t \in Tasks : channel[w] = "open" =>
       (queue[t] = w <=> task[w][t] \in InHand \/ Sent(w, t, Verbs))
  /\ \A w \in Workers, t \in Tasks : task[w][t] \in InHand => ~ Sent(w, t, Verbs)
  /\ \A w \in Workers, t \in Tasks :
       queue[t] = w \/ Sent(w, t, Verbs \cup Answers) => channel[w] = "open"
  /\ \A w \in Workers, t \in Tasks :
       channel[w] = "open" /\ task[w][t] \in Settled \cup {"rejected"} =>
         queue[t] = "gone" \/ Sent(w, t, {"ack", "drop"})

Broken == faults.losses + faults.crashes

\* The runs of t that may still store a row.
Active(t) == {w \in Workers : task[w][t] \in InHand \cup Settled}

\* The message of t will be delivered once more.
Pending(t) ==
  \/ queue[t] \in {"unsent", "inflight", "ready"}
  \/ \E w \in Workers : Sent(w, t, {"requeue"})

\* How many rows of t may still be written.
Claims(t) == Cardinality(Active(t)) + (IF Pending(t) THEN 1 ELSE 0)

\* Every row of an email but the first is paid for: an acknowledgement that is
\* written and lost makes the broker deliver again what is stored already, and
\* costs a connection or a process; nothing else writes a second row.
RowsPaidFor == \A t \in Tasks : rows[t] <= 1 + Broken

\* A client that was told to slow down (429) has no stored result, and will not
\* get one, unless a connection broke or a process died: a run whose connection
\* is gone stores its result beside the refusal of the redelivered message.
ThrottledNotStored ==
  \A t \in Tasks : client[t] = "throttled" \/ reply[t] = "throttled" =>
    rows[t] + Cardinality({w \in Workers : task[w][t] \in Settled}) <= Broken

Processed(j) == {t \in TasksOf(j) : rows[t] > 0}

\* The rows of v1_task_result of a job; the i-th of task t is <<t, i>>.
RowsOf(j) == UNION {{t} \X (1 .. rows[t]) : t \in TasksOf(j)}

\* get_progress.rs reports Completed when COUNT(*) of them is as large as the
\* number of emails of the job.
JobRows(j) == Cardinality(RowsOf(j))

Completed(j) == JobRows(j) >= Cardinality(TasksOf(j))

\* Then each of its emails has one, whatever INSERTs fail, as long as no
\* connection breaks and no process dies; with one, two rows of an email may
\* hide that another has none.
CompletedHasAll ==
  \A j \in Jobs : Completed(j) /\ Broken = 0 => Processed(j) = TasksOf(j)

\* An email is verified again only for a reason: once because its result was
\* unknown or failed, and once more for every connection that broke and every
\* process that died, also when its check was over and not yet acknowledged.
BoundedChecks == \A t \in Tasks : checks[t] <= 2 + Broken

\* "Total number of concurrent messages that the worker can process"
\* (config.rs): the deliveries in hand of a process never exceed it, not even
\* when the broker takes messages back while their checks still run.
ConcurrencyBound ==
  \A w \in Workers :
    Cardinality({t \in Tasks : task[w][t] \in InHand}) <= Concurrency

\* A job whose id the client was given has published all its tasks; each of
\* them is in the broker's hands or done, unless its publisher's connection
\* broke or its process died.
AcceptedIsPublished ==
  \A j \in Jobs : job[j] = "accepted" =>
    \A t \in TasksOf(j) :
      /\ queue[t] # "unsent"
      /\ checks[t] = 0 /\ queue[t] = "gone" => Broken > 0

\* do_work.rs: "In any case, we store the result."  A task that was taken off
\* the queue without being throttled is stored or still on its way to be.
AckedIsStored ==
  \A t \in Tasks :
    output[t] # "none" /\ rows[t] = 0 => Final(t)

\* do_work.rs: "If is_reachable is unknown, then we requeue the message, but
\* only once."  A result that is unknown was obtained twice before it is kept.
UnknownIsRetried ==
  \A t \in Tasks : output[t] = "unsure" => checks[t] >= 2

\* A verdict was reached, and neither a row nor a message is left of it.
Lost(t) ==
  queue[t] = "gone" /\ output[t] # "none" /\ rows[t] = 0 /\ ~ Final(t)

\* The exact version of "In any case, we store the result" (do_work.rs): a
\* verdict is lost by a process that died, by an INSERT that failed, or, if it
\* belongs to a client, by a connection that broke before the client had it:
\* then the reply fails and its error ends the task.
LostForAReason ==
  \A t \in Tasks : Lost(t) =>
    \/ faults.crashes > 0 \/ faults.stores > 0
    \/ ~ Bulk(t) /\ faults.losses > 0 /\ client[t] # "result"

\* The pipeline implements TaskLedger, an at-least-once queue whose redeliveries
\* are accounted for: a run stores one row and then is over, and only a
\* connection that breaks or a process that dies makes a further run possible.
Ledger == INSTANCE TaskLedger WITH
  claims <- [t \in Tasks |-> Claims(t)], faults <- Broken

ImplementsLedger == Ledger!Spec

\* The progress of a v1 job implements JobLedger; nothing prunes it.
JobStatus(j) ==
  IF job[j] = "none" THEN "new"
  ELSE IF Completed(j) THEN "complete"
  ELSE "running"

Progress == INSTANCE JobLedger WITH status <- [j \in Jobs |-> JobStatus(j)]

\* A job exists before its first result, and what get_progress.rs has reported
\* as completed it never reports as running again, whatever is redelivered,
\* crashes or fails.
ImplementsJobLedger == Progress!Spec

\* The other side, a mail server, a browser or a webhook, has the next step.
Outside == {"checking", "webhook"}

\* The verification of t is under way, or as many are on each open channel as
\* it may have deliveries in hand.
Held(t) ==
  \/ \E w \in Workers : task[w][t] \in Outside
  \/ \A w \in Workers : channel[w] = "open" =>
       Cardinality({u \in Tasks : task[w][u] \in Outside}) >= Concurrency

\* A bulk task that is in the queue comes to an end although processes are
\* killed: it is stored, or a process died between acknowledging it and storing
\* its result.  It is neither forgotten in the queue nor dropped from it, unless
\* no process has a channel left (nothing reopens one), its own check never
\* ends, or checks that never end hold every slot.
QueuedSettles ==
  \A t \in Tasks :
    Bulk(t) /\ queue[t] = "ready" ~>
      \/ rows[t] > 0 \/ Lost(t)
      \/ \A w \in Workers : channel[w] # "open"
      \/ []Held(t)

Faultless == faults = [losses |-> 0, crashes |-> 0, stores |-> 0]

\* Without faults every accepted job is completed, unless a check never ends
\* that one of its emails needs ...
JobsComplete ==
  \A j \in Jobs : job[j] = "accepted" ~>
    Completed(j) \/ ~ Faultless \/ \E t \in TasksOf(j) : []Held(t)

\* ... and every client is answered, although replies and tasks compete for
\* the same prefetch limit.
ClientsAnswered ==
  \A t \in Tasks : client[t] \in Waiting ~>
    client[t] \in Answered \/ ~ Faultless \/ []Held(t)
=============================================================================
