# Verification of the email verifier in TLA+

This directory models the parts of the repository that decide something: the
verification of an email and the report on it (`core`), the pipeline that
carries thousands of them through RabbitMQ and Postgres and hands out their
results (`backend`), the request throttle, the choice of verification method and
proxy, and the streaming service in front of the command line (`app.py`). TLC checks the modules on small instances,
TLAPS proves for every instance all of the invariants, action properties and
refinements that the runs check on small ones.

    tlc -workers 2 -config MCWorkerFaults.cfg MCWorker.tla
    tlapm WorkerProofs.tla

`PROJECT.json` lists the runs, the definition-to-source map, the mutants that
show each property can fail, the findings and the hazards.

## 1. The system

| Component | Where | State | Operations | Module |
|---|---|---|---|---|
| Request throttle | `backend/src/throttle.rs` | four counters and the start of their windows, behind one tokio mutex | `check_throttle`, `increment_counters` | Throttle |
| v1 check_email endpoint | `http/v1/check_email/post.rs` | a reply queue per request | publish and wait, or verify in place | Worker, Throttle |
| v1 bulk submission and progress | `http/v1/bulk/post.rs`, `get_progress.rs` | `v1_bulk_job` | submit, count rows | Worker |
| v1 bulk results | `http/v1/bulk/get_results/*` | none | total, count, page; JSON or CSV | BulkResults, Report |
| Worker | `worker/consume.rs`, `do_work.rs`, `single_shot.rs` | unacked deliveries, spawned tasks | consume, throttle, check, requeue, ack, reply, store | Worker |
| v1 storage | `storage/postgres.rs` | `v1_task_result` | `store` | Worker |
| v0 bulk endpoints and task | `http/v0/bulk/*` | `bulk_jobs`, `email_results` | submit, poll, run, status, results | BulkV0, BulkResults, Report |
| Postgres message queue | `backend/migrations/*` | `mq_msgs` | `mq_insert`, `mq_poll`, `mq_keep_alive`, `mq_delete` | BulkV0 |
| prune_db | `bin/prune_db.rs` | none of its own | select finished jobs, delete their results, delete them | BulkV0 |
| check_email | `core/src/lib.rs`, `syntax`, `mx`, `misc` | none that outlives the call | syntax, MX, misc, SMTP, suggestion, verdict | Report, CheckEmail |
| SMTP conversation | `core/src/smtp/connect.rs`, `parser.rs` | one connection, the retries left | connect, catch-all check, RCPT TO, reconnect, QUIT, timeout, retry | CheckEmail |
| Verification methods and proxies | `core/src/smtp/verif_method.rs`, `backend/src/config.rs`, `http/v0/check_email/*` | the configuration | validate, build per request, look up | VerifMethod |
| Headless and API verification | `core/src/smtp/{yahoo,outlook}/*` | a browser session | open, fill a form, read a page, close, retry; two API requests | CheckEmail |
| Error reporting | `core/src/util/sentry.rs` | none | which reports are sent | Report |
| Streaming API | `app.py` | tasks, child processes, a semaphore per stream | verify, rotate ports, stream | StreamApi |
| Command line | `cli/src/main.rs` | none | verify one email | the child process of StreamApi |
| SQS lambda, HTTP plumbing, licence trial | | none to speak of | | not modelled |

How they interact. A POST to `/v1/check_email` or `/v1/bulk` asks the throttle,
then publishes to the RabbitMQ queue `check_email`; the consumer loop of some
backend process takes a message, asks its own throttle, spawns a task, and
counts. The task calls check_email and the job's webhook, acknowledges, answers
the waiting handler through its reply queue, and inserts a row; progress and
results are read from the rows. HTTP server and consumer loop of a process share one channel, its
prefetch limit and one throttle. `/v0/bulk` does the same with tables instead of
RabbitMQ: polling moves a message's `attempt_at` into the future, and the runner
has to keep moving it. prune_db works on the same tables from another process.
check_email runs inside either task; VerifMethod decides how. A client pages
through the results while tasks still write rows. `app.py` stands apart: it runs
the command line once per email and port, as child processes of one event loop.

### What is hard, and what correctness means

* **Throttle.** The check and the increment are two critical sections, and one
  check reads the clock twice. Right: no window counts more than its maximum, or
  by how much more; the delay that is reported is the time left.
* **Pipeline.** Check, webhook, acknowledgement, reply and INSERT are five steps in
  this order, and the process may die between any two of them. basic.ack,
  basic.reject and basic.publish have no answer: the await ends when the frame is
  written, so that a connection may break with the frame, and the broker may have
  given it up before the process finds out. Redelivery then starts a second run
  while the first goes on and stores. The broker's `redelivered` flag doubles as
  "was already retried"; replies and tasks share a prefetch limit. Right: every
  row of an email but the first and every verification but two is paid for by a
  connection that broke or a process that died; until then a job is not reported
  complete without all its emails; jobs and clients are served as long as checks
  end and nothing fails; and nothing is lost but by a named failure.
* **v0 queue.** Two processes poll the same snapshot; a late runner works on a
  message somebody else claimed; the result is inserted outside the queue's
  transaction; attempts run out; a check may never end, since task.rs sets no
  `smtp_timeout`. Right: one attempt is claimed once, a message leaves the queue
  only when its result is stored (or its own request named no port), it is given
  up only when it failed as often as it may, and pruning spares running jobs.
* **check_email.** A server that refuses, closes or falls silent at any point,
  with a reconnect inside an attempt and retries around it. Right: the verdict
  fits the mailbox, the number of connections is bounded, "unknown" is said only
  for a reason, and every conversation ends.
* **Browser.** Each command of the WebDriver may fail and leaves the session
  open; the page shows one of several elements first; Yahoo is tried three times.
  Right: an attempt leaves at most one session, only a page that says so makes an
  account invalid, and "unknown" comes after the last attempt.
* **Report.** Four early returns fill a report up with defaults; a section is
  fields or an error; two CSV converters read either. Right: the verdict is what
  the sections say, and a row holds the reason of the verdict in it.
* **Results.** Total, count and page are three queries without a transaction,
  each page is a request, ids are drawn before rows are visible, and an email may
  have two rows. Right: the pages are the first rows of the job, a listing read to
  its end has every email once unless one of them has two rows, and once there
  are enough rows a client reads to the end.
* **Stream.** Children answer, fail, hang, or are terminated with their answer
  dropped; clients leave; results come in any order. Right: a slot is held until
  its child is gone, each email is answered once, ports are not tried twice, and
  streams end although children hang.
* **Proxies.** A method comes from the configuration, an override, a request or
  a deprecated field, and names a proxy that another of them defines; a name that
  is not found means a direct connection. Right: a named proxy is used.

## 2. Modules

Each module maps one action to one handler or one step between two awaits (or
two commits) of it; `PROJECT.json` gives the lines.

**Throttle** - `now` is `Instant::now()`, `count` and `lastReset` the eight
fields, `lock` the mutex where it spans two clock readings. `ResetIfNeeded` is
the first half of `should_throttle`; `Refuse`, `RefusePanics` and `Admit` the
second, after the clock may have moved; `Increment` is `increment_counters`. A
second reading past the end of the window makes the subtraction of durations
panic (`RefusePanics`); the mutex is a tokio one and is not poisoned.

**Worker** - `queue` says where each message is: with its publisher, on its way,
ready, unacked at a process, or gone. `frames` are the acks, rejects and replies
that are written and not yet at the broker; `HandleVerb` and `HandleReply` are
the broker's side of them. `channel[w]` is open, lost (the broker has given the
connection up, the process does not know and writes to nobody) or closed (the
process knows, and writing fails): `LoseConnection` and `NoticeLoss` are the two
instants. A process keeps what it has taken, also deliveries that its loop has
not come to. `task[w][t]` is how far process w is with task t. `Request`,
`Subscribe`, `ReceiveReply` are the awaits of `handle_with_worker`; `CreateJob`,
`PublishTask`, `PublishFails`, `AcceptJob` those of the bulk handler; `Deliver`,
`RejectSingleShot`, `ReplyThrottled`, `RejectBulk`, `StartCheck`, `LoopEnds` the
consumer loop. The spawned task is one action per await: `CheckEnds`
(check_email), `WebhookEnds`, `RequeueOnce` or `Acknowledge`, `SendReply` or
`ReplyFails`, `Store` or `StoreFails`; `Orphaned` is a task whose channel is
closed when it comes to its ack or reject. `count` is the throttle reduced to one
window. RabbitMQ (`Arrive`, `Unacked`, `HandleVerb`, `HandleReply`,
`BrokerForgets`) is external. A process that lost its channel does not
reconnect; a crash includes the restart.

**TaskLedger** - the abstract specification of the pipeline: an at-least-once
queue whose redeliveries are accounted for. An email has `claims` to a row, one
when it is submitted. A row uses up a claim, throttling or a loss gives one up,
and only a fault grants another. `Worker` implements it with `Claims(t)`, the
runs of t that may still store and the message if it will be delivered again.

**JobLedger** - the abstract specification of a bulk job as its owner sees it:
it runs until it is complete, stays complete until its results are deleted, and
only then may be deleted itself, with any number of others at once. `BulkV0`
implements it under `JobStatus` (the row of `bulk_jobs`, the rows counted by
`get.rs`, and what prune_db deleted), `Worker` under a `JobStatus` of its own
(`get_progress.rs`; v1 has no pruning).

**BulkV0** - `message` is all that is kept of `attempt_at`: absent, due, waiting
(in the future), exhausted (NULL) or deleted. `PollSelect` and `PollUpdate` are
the snapshot and the UPDATE of one `mq_poll`; the UPDATE tests again that the
message is due. `work` holds the running executions, several per message when one lapsed.
`StoreResult` and `Complete` are the INSERT and the deletion of the message, in
two transactions. `PruneSelect`, `DeleteResults`, `DeleteJobs` are the statements of prune_db.

**CheckEmail** - a server's reply is the set of classes the parser recognises
in it, so that texts which match several patterns are replies with several
elements; `Read` applies the parser's order. `Heard` adds what a refusing or
vanished server says. `ConnectTo`, `CatchAll`, `Rcpt`, `Reconnect`, `Quit`,
`QuitFails` are the steps of one attempt, `Timeout` its timer, `Retry` and
`GiveUp` the loop around it. `OpenBrowser`, `FillForm`, `ReadPage`, `CloseBrowser`
are the awaits of an attempt with a browser, `BrowseAgain` and `BrowseGivesUp`
Yahoo's loop, `SessionEnds` the WebDriver server ending a session whose client
was dropped; `ApiPage` and `ApiForm` are the two requests of Yahoo's API.
`target` is the truth about the address, which the code never sees and the
properties compare with.

**Report** - one action per section of `check_email`, each with its early
returns; a section is a record of its fields or `[error |-> ...]`, and reading a
field that is not there is a case of its own, as it is in the CSV helpers.
`CalculateReachable`, `FromMxHost`, `SimilarProvider`, `LogUnknownErrors`, `Row0`
and `Row1` are pure functions of the code. Of the conversation only the outcome
counts here; CheckEmail is about how it comes about.

**BulkResults** - one job, its rows, and one client. `Insert` draws an id,
`Commit` makes the row visible; `ReadTotal`, `ReadCount` and `ReadPage` are the
three queries of a request, `Ask` the client's next request; `AsI64` is the
conversion of limit and offset. One module serves v0 and v1: the handlers differ
in their tables, and in which rows can exist. In both an email may have two rows
(`MaxDuplicates`: a v0 task that is run twice, a v1 message whose ack was lost).

**StreamApi** - `app.py` is one event loop, so that an action is what happens
between two awaits: `at[j]` is where the task of email j is, `child[j]` its
process, `pending` and `done` what the generator waits for and has yet to send,
`sends` how often a result was sent.

**VerifMethod** - `GetVerifMethod` is `BackendConfig::get_verif_method`,
`ToCheckEmailInput` the request's conversion, `ValidateProxies` and `GetProxy`
their namesakes. Its state is small; its initial states are all configurations
within the bound and its steps all requests.

Every component with runs of several instances has an `MC` module that only
holds model values and their functions. CheckEmail needs none. The proof modules
(`*Proofs`) extend the module they are about. An operator with the comment "Bug:" is a plausible mistake in the
definition next to it; `PROJECT.json` names the property that finds it.

## 3. Runs

| Run | What it asks | Bounds, and why they suffice |
|---|---|---|
| MCThrottleDirect | how far two counting handlers overshoot, what that means for any interval of time, exact delays | two windows (of lengths 1 and 3, limits 1 and 2), two handlers, 5 ticks: the short window restarts several times inside the long one, and the long one restarts |
| MCThrottlePanic | finding | worker mode: the consumer loop and a handler that only checks |
| MCWorkerFaults | refinement of TaskLedger and of JobLedger, custody, further rows and checks are paid for, complete jobs, accepted jobs are published | two processes, a job of two emails with a webhook, prefetch 1, throttle 1; one lost connection or crash, and one failed INSERT: an ack is lost on its way and its message is redelivered to the other process, while the first stores, with another message beside it. Each bound of the properties is reached: two rows of an email, three checks |
| MCWorkerLive | verdicts that are lost, prefetch limit; jobs complete, clients are answered, a queued task settles after a crash, unless a check never ends | one process, a bulk task with a webhook beside a single-shot request, prefetch and throttle limit at one, so that task, task and reply compete for a single slot; one lost connection or one crash and restart, at any point |
| MCBulkV0 | refinement of JobLedger; claims, rows, deletions, pruning, jobs complete unless a check never ends | two runners, a job of two emails, three attempts, three faults: enough to exhaust a message, and for a lapse, a crash and an error of the same email |
| MCBulkV0Prune | finding | |
| CheckEmail | a measure that every step lowers; connections, sessions, verdict, "unknown", termination | every target with every method, three attempts: the first, a middle and the last |
| MCVerifMethod | proxies | a named and the default proxy, all configurations with up to two overrides (two methods with different proxies), all requests |
| MCReport | the verdict is what the sections say, and the row has its reason | all addresses and outcomes; three providers and five domains (equal, at distance one and two from two of them, far), two MX records with equal or different preferences, four kinds of hosts |
| MCReportCsv | finding | |
| MCResults | pages and their order, complete listings, downloads end once enough rows are there | three emails and limits of one, two (the default) and one too large for an i64, so that pages follow pages; one duplicate |
| MCStreamApi | slots, answers, ports, ends | a stream of two emails with one slot beside a single request for a port outside the pool, two ports, two tries: a task waits for the slot of one that is being terminated, and a port is rotated |

The type invariants (`TypeOK`, one per module) are theorems, for every value of
the constants, and take no place in the runs.

Some properties have conditions. `JobsComplete` and `ClientsAnswered` in Worker
ask for no fault at all (`Faultless`), `JobsComplete` in BulkV0 for fewer faults
than attempts; `QueuedSettles`, `JobsComplete` and `ClientsAnswered` except an
email whose own check never ends or which checks that never end keep from a slot
(`Held`, see Fairness). `CompletedHasAll` asks for no lost connection and no crash,
`ListingComplete` for no second row, `DeletedIsStored` for a job with ports, and
`Downloaded` for a request that can be served (`Unservable`: a limit beyond an
i64, a job with a failed task, a CSV of v1). The code enforces none of them; what
happens without them is in section 5. The runs include behaviours on both sides.

Counters that are unbounded in the code are bounded by named constants:
`Horizon` (the clock), `MaxLosses`, `MaxCrashes`, `MaxFaults` (in Worker
losses and crashes together), `MaxStoreErrors`, `MaxOverrides`, `MaxRecords`, `MaxDuplicates`. `CHECK_DEADLOCK FALSE` is set everywhere because
every model may come to rest: all emails are done, the clock is at its bound, a
verification has its verdict.
Symmetry is used only where no liveness is checked, over processes and over
emails of the same job.

### Fairness

* `Worker!Fairness`: weak for each step of the handlers, the loop and the spawned
  task after its check (tokio runs what is ready, writing a frame and an INSERT
  return or fail), for the broker's steps (it passes on what it was given) and for
  `WindowElapses` (time passes). Strong for `Deliver`, `StartCheck` and
  `ReceiveReply`: the broker puts a requeued message back in its old place, so a
  message that is deliverable again and again is not passed over for ever.
  `CheckEnds` and `WebhookEnds` are not fair: `smtp_timeout` is an Option, and
  the webhook's, the browser's and the API's clients have no timer. Instead the
  liveness properties name the outcome: `Held(t)` says that the email's own check
  or webhook is under way, or that such calls fill the prefetch limit of every open
  channel, and the properties allow `[]Held(t)`, which a check that ends refutes.
  No request, fault, notice of a fault or crash is fair.
* `BulkV0!Fairness`: weak for handlers, polling, `TimeOut`, and for `Complete`, which
  follows the INSERT. The end of a check is not fair: task.rs passes no
  `smtp_timeout` and the runner keeps the message alive meanwhile; `Held` is the
  same as above, with the runner's number of slots. Lapses, crashes, errors and
  pruning are never fair.
* `CheckEmail!FairSpec`: weak for check_email's own steps and its timer. The
  server owes nothing, not even an answer. `Terminates` is about conversations
  over SMTP: browser commands and API requests have no timer.
* `BulkResults!FairSpec`: weak for `Serve`, the client's requests and their
  queries. That an email gets its row is not assumed (Worker and BulkV0 show how it
  may not): `Downloaded` begins when the rows are there.
* `StreamApi!FairSpec`: tasks that can go on do, timers fire, a child that was
  told to terminate exits. A child that was not may hang for ever, and a client
  need not leave.

## 4. Proofs

| Theorem | Statement | Argument |
|---|---|---|
| ThrottleProofs!TypeCorrect | types, and the lock belongs to the caller between two clock readings | inductive as it stands |
| ThrottleProofs!PendingBounded, OvershootBounded | count <= limit + counting callers - 1 | the bound on the counter alone is not inductive: an admitted caller that has not counted yet must be paid for, so `PendingBound` adds the admitted callers to the counter. `Admit` needs count < limit and at most all *other* callers pending; `Increment` moves one from the one summand to the other |
| ThrottleProofs!SingleCounterLimit | with one counting caller no window exceeds its limit | the case Cardinality(Counting) = 1 |
| ThrottleProofs!SlidingBounded | what an interval as long as a window may count, wherever it begins | `PeriodsPaid`: what was counted after the last restart is in the counter; what was counted since an instant less than a window before it is at most one period's bound more, because the period before began earlier than that |
| ThrottleProofs!DelayAlwaysExact | a delay ends with the window that refused | `DelayFits`: refusal plus delay is the end of the window, until the window is restarted |
| WorkerProofs!TypeCorrect | types | |
| WorkerProofs!CustodyHolds | who has a message | `Owned` with `Early`: `Custody`, and that one frame at most settles a delivery, and that the flag a delivery carries is the message's |
| WorkerProofs!LedgerImplemented | Spec => Ledger!Spec | each step leaves the claims of every email alone, turns one into a row, gives some up, or is a fault. `ForgetStep` and `FaultClaims`: a broken connection returns what was in hand and what a lost frame had settled, one claim an email at most; `Owned` says which |
| WorkerProofs!RowsPaid | at most one row per email, plus the faults | `PaidFor`: rows and claims together are; it is an invariant of TaskLedger (`LedgerSum`), so that one step of the refinement carries it |
| WorkerProofs!CompletedJobHasAll | an undisturbed job reported as completed has a row of each email | by `RowsPaidFor` each email has one row at most while nothing broke, so that as many rows as emails are rows of all |
| WorkerProofs!ThrottledNeverStored | a refused client has no more results than there were faults (`ThrottledNotStored`) | `RefusalsPaid`: a refusal gives a claim up, so that what is left of rows and claims is the faults' |
| WorkerProofs!AcceptedArePublished | an accepted job was published | `AllPublished`, and `GoneIsVerified`: a bulk message leaves the queue unverified only by a fault; `Seen`: a run past its check was counted |
| WorkerProofs!ConcurrencyBounded | the prefetch limit | `FewInHand`: the set of tasks in hand is finite and small; a delivery adds one under the limit, everything else takes some away |
| WorkerProofs!ChecksBounded | at most two verifications of an email, plus the faults | `WithinBudget`: checks that are over, runs that have not finished theirs, and runs that the message may still start. A message that was never redelivered may start two; a fault that returns it adds one |
| WorkerProofs!JobLedgerImplemented | Spec => Progress!Spec (JobLedger) | `RowsCounted`: rows are only added, and belong to jobs that exist |
| WorkerProofs!LossesHaveReasons | a verdict is lost only by a crash, a failed INSERT, or, for a client, a broken connection before it was answered | `LossesExplained`: on its way from the acknowledgement to the row a task ends only by one of them, and a client that was told has a run that stores |
| CheckEmailProofs!TypeCorrect, SessionsBounded | types; no more sessions than attempts | `Sessions`: an answer closes its own session, and how many attempts there were at each place |
| CheckEmailProofs!ConnectionsBounded | at most two connections per attempt | `Budget` counts the connections of past attempts and what the current one may have opened at its place |
| CheckEmailProofs!UnknownEarned | "unknown" only after the last attempt or for a blocked sender | `Earned` with `Budget` and `Sessions` |
| CheckEmailProofs!VerdictTrue | the verdict fits the mailbox if no reply reads two ways (`~ Ambiguous`) | `Truthful`: what an attempt has learned is true whenever it may still become the verdict; `Routes` ties the places to the methods |
| CheckEmailProofs!AlwaysShorter | each step lowers `LeftToDo`, which is never negative: no verification goes through infinitely many steps | an attempt weighs more than the longest way through one, and a place more than the connection that may open on leaving it; `Sessions` bounds the attempts with a browser and the sessions they leave |
| VerifMethodProofs!RequestProxyAlwaysUsed, ProxyAlwaysHonoured, TypeCorrect | see the properties | `Source`: a method is the configuration's or one made from the request; the lemmas `ConfigKnown` and `RequestKnown` are about all of either |
| BulkV0Proofs!TypeCorrect, ClaimedOnlyOnce | types; claims | `IInv`: both together with `NotBefore`, that nobody works on a message that was not submitted |
| BulkV0Proofs!NothingIsLost | a deleted message has its result, was pruned, or its own job named no port | `StoredHasRow`: so has a task that is about to delete its message |
| BulkV0Proofs!RowsBounded | a row more only for a fault | `RowsPaid`: a row, an execution that may store one, and a message that may be claimed are one in all, plus the faults |
| BulkV0Proofs!NeverGivenUpEarly | an email is given up without a result only after as many faults as attempts (`GivenUpForAReason`), the safety half of `JobsComplete` | `AttemptsPaid`: an attempt that is over cost a fault or left a row; `GoneIsEmptied`: a row is refused only for a job that prune_db deleted, and it deletes results first |
| BulkV0Proofs!ServedUnlessFaults | `ServedWhenDone`, which MCBulkV0Served refutes, holds until the first fault | `RowsBound` with no fault: one row each, so that as many rows as emails are rows of all |
| BulkV0Proofs!RunningJobsSpared | prune_db deletes no results of a job reported as running | `SelectedAreDone`: what was selected as complete stays so, because tasks only add rows |
| BulkV0Proofs!JobLedgerImplemented | Spec => Ledger!Spec (JobLedger) | `SelectedAreDone` and `EmptiedFirst`: a job is deleted after its results |
| StreamApiProofs!SlotsBounded | no more children than slots | `Slots`: a child belongs to a task that holds a slot |
| StreamApiProofs!EveryAnswerOnce | a finished stream sent each result once | `Ledger`: pending and done divide what was not sent, and what is in neither was sent once |
| StreamApiProofs!RotatesFirst, TypeCorrect | no port is tried twice, and an email is "blacklisted" only when its ports or tries are used up; types | `Rotation`: the ports an email was tried on are the first ones of `Ports(j)`, in order, as many as `tried` says; the lemma `PortsDiffer` says that they differ |
| ReportProofs!VerdictFits | verdict and sections | `Stage`: sections that check_email has not come to are the defaults |
| ReportProofs!RowFits | row and verdict | `Shape`: the fields each section may have, and that errors are not null |
| ReportProofs!SuggestsOnFailure | a suggestion comes with a failure of the MX or SMTP check, always then and only then | `Unsuggested`: until check_email returns there is none; `SimilarIsNear`: a provider is found just when one is near |
| ReportProofs!TypeCorrect | types; the host is one of the MX records | `Stage` and `Shape`; `BestIsRecord`: some record has the lowest preference and is the first with it |
| BulkResultsProofs!TypeCorrect, PagesArePrefix, ReadToTheEnd | types; the pages a client has are the first rows of the job; a listing read to its end has every email once | `CountedFirst`: a page is served only after all emails were counted, and with `OneRowEach` no row comes in after that; `RankInjective`, `RankOnto`: the positions of the rows are 1 to their number, so that pages neither overlap nor leave a gap |

They assume what the modules' ASSUMEs state: limits are natural numbers or
absent; sets of callers, tasks and emails are finite; model values differ, as do
the ports of a pool; no domain is called `Null`. They hold for any number of
processes, tasks, jobs, windows, retries, emails, slots, pages and faults. One
has a condition of its own, which the code does not enforce and which it states
as a hypothesis: `VerdictTrue` (`~ Ambiguous`: no reply of a server reads two
ways); the run sets the constant accordingly.

How a bound on something that is counted is proved is the same everywhere: an
invariant in which every unit is paid for by something that happened at most so
often (`PendingBound`, `PeriodsPaid`, `WithinBudget`, `PaidFor`, `RowsPaid`,
`AttemptsPaid`, `Budget`). The bound itself is never inductive, because it forgets who may still
add to it.

Only model-checked: the liveness properties `JobsComplete` (Worker and BulkV0),
`ClientsAnswered`, `QueuedSettles`, `Terminates`, `Downloaded`, `StreamEnds` and
`ChildrenReaped`, since the prover has no rules for fairness with ENABLED. What
they rest on is proved where it is a matter of safety: `AlwaysShorter` for
`Terminates`, `NeverGivenUpEarly` for `JobsComplete` of v0, `LossesHaveReasons` for
`QueuedSettles`. Every other property of a passing run is a theorem.

## 5. Findings

Recorded in `PROJECT.json`, each with the line it contradicts:

* A throttled call may panic where it should return a delay (`MCThrottlePanic`);
  in worker mode the consumer loop ends with it.
* prune_db's DELETEs are not in its transaction (`MCBulkV0Prune`).
* v1's CSV reads a key that reports do not have, so that a job with results
  cannot be downloaded as CSV (`MCReportCsv`).

Further configurations are kept beside them. Each of the following checks one
sentence of the documentation that the code does not keep, and TLC prints the
behaviour:

| Configuration | Property | Sentence, and what happens |
|---|---|---|
| MCThrottleDirectLimit | WindowLimit | `backend_config.toml:159`, "Throttle the maximum number of requests": without a worker concurrent requests exceed it (by at most what `OvershootBound` allows). MCThrottleWorker checks the same property in worker mode, where it holds |
| MCWorkerUnknown | UnknownIsRetried | a bulk task that the throttle put back counts as already retried, so its first "unknown" is final |
| CheckEmailConnections | TotalConnections | `retries` is documented as the total number of connections; a reconnect opens another |
| MCVerifMethodResolves | AcceptedResolves | unknown proxies for Mimecast and Proofpoint are accepted and mean a direct connection |
| MCWorkerLost | AckedIsStored | `do_work.rs:149`, "In any case, we store the result": not when the reply to the client fails (`do_work.rs:153` returns first) |
| MCBulkV0Served | ServedWhenDone | `results/mod.rs:63`, "Throw an error if the job is still running": an email stored twice makes up for one with no result |
| MCBulkV0NoPorts | AlwaysAResult | `task.rs:210`, "can never occur": it does for a request with an empty list of ports, and the job never finishes |
| CheckEmailAnswer | UnknownMeansNoAnswer | `input_output.rs:181`: an answer is dropped when QUIT fails |
| CheckEmailCatchAll | CatchAllIsRisky | `input_output.rs:171`: a catch-all check that fails makes an address of a catch-all domain "safe" |
| CheckEmailRisky | RiskyExists | `input_output.rs:170`: a missing mailbox of a role account is "risky" |
| CheckEmailBlocked | BlockedIsUnknown | `is-reachable.md:14`: a refusal of the sender may read as an invalid address |
| MCVerifMethodForced | ForcedForAll | `v0/check_email/post.rs:60`: a request's proxy is not used for Yahoo and Hotmail B2C |
| MCVerifMethodTop | TopProxyForAll | `backend_config.toml:55`: `yahoo_verif_method = Smtp` without a proxy bypasses the configured one |
| MCReportAccepts | AcceptsMailExported | v0's column "mx.accepts_mail" reads a key that reports do not have and is always false |
| MCReportDisposable | DisposableIsRisky | `input_output.rs:170`: a disposable address has no valid syntax and is "invalid" |
| MCReportSuggestion | SuggestionIsBest | `syntax/mod.rs`: the suggestion is the first provider that is close, not the closest |
| MCResultsRedelivered | ShowsAllEmails | a v0 task that is run twice makes a listing end without another's result |
| MCStreamApiGlobal | MaxConcurrentIsGlobal | `README.md`: MAX_CONCURRENT bounds each stream, not the service |

Two more, without a configuration: after a lost acknowledgement the two rows of
one email make v1 report a job as completed that has no row of another
(`get_progress.rs:107`; `CompletedHasAll` is conditional for this reason). And
`README.md:151` documents `REQUEST_TIMEOUT_BULK` as "Bulk request timeout
(seconds)", which `app.py:36` reads and nothing uses: a stream has only the timers
of its emails, which is all that `StreamEnds` relies on.

Where a sentence is not kept, what the code keeps instead is proved:
`PendingBounded` and `SlidingBounded` for the maximum number of requests,
`ConnectionsBounded` for the total number of connections, `LossesHaveReasons` for
"in any case", `NothingIsLost` for "can never occur", `ChecksBounded` for "but only once", `ServedUnlessFaults` and `JobLedgerImplemented` for a job that is
still running, `ProxyAlwaysHonoured` and `RequestProxyAlwaysUsed` for proxies,
`RunningJobsSpared` for the batch of prune_db, `ReadToTheEnd` for a listing without
duplicates, `SlotsBounded` for one stream.

These hold, and are kept for a change of the code they are about:

| Configuration | What it checks |
|---|---|
| MCThrottleWorker | `WindowLimit` and `PendingBound` in worker mode: the documented maximum is kept |
| MCReportMore | `SuggestedOnFailure`: a suggestion comes with a failure of the MX or SMTP check and only then; the types of Report |
| MCWorkerTwice | a single-shot request on two processes with two faults: `ThrottledNotStored`, `RowsPaidFor`, `BoundedChecks`, `LostForAReason`, `Custody` and the refinement of TaskLedger, when a process that does not know of its lost connection stores beside another that refuses |

## 6. Not modelled

Formatting, logging, how Sentry events are redacted, routing, header checks and
the flags of the command line hold no state. The licence trial is one HTTP call
nobody reads the result of. The SQS lambda is a second front end around the
worker's helpers; what makes its batches come again is outside the repository.
`gmail.rs` and `microsoft365.rs` are called by nobody. `mq_commit`, ordered
messages, `mq_checkpoint` and `mq_clear` are in the migrations but no call of
the backend reaches them. The normalisation of usernames (`normalize.rs`) and
the search for JSON in a child's output (`app.py`) are functions on strings whose
outcome is a choice here; `health` reads two file attributes. The RabbitMQ broker,
Postgres, sqlxmq, SMTP servers, WebDriver and web pages are modelled only as the
code uses them. A client of the backend that disconnects while its request is
served (the handler is dropped at its next await) is left out of Throttle and Worker. So is a broker
that restarts.

## 7. Plan

Done, most important behaviour first: Throttle, Worker with TaskLedger, BulkV0,
CheckEmail with browser and API, VerifMethod, Report, BulkResults, StreamApi, and
JobLedger over Worker and BulkV0, proofs about all of them.

Left:

1. A composition of Throttle's panic with the consumer loop: that a process then
   serves requests and consumes nothing.
2. Handlers that are dropped when their client leaves, in Throttle and Worker.
3. A counterpart of `AlwaysShorter` for StreamApi: what is left to do for an email
   of a stream, as the safety half of `StreamEnds`. Worker has none: what its
   throttle puts back is delivered again, as often as the throttle says so.
4. The exact version of `UnknownIsRetried`: which tasks have their first "unknown"
   taken as final.
