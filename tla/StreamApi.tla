------------------------------- MODULE StreamApi -------------------------------
(***************************************************************************)
(* app.py: the HTTP service that runs the command line program, once for   *)
(* each email and Tor port.  /verify/bulk/stream makes one task of every   *)
(* email of a request, lets MaxConcurrent of them run at a time, and       *)
(* streams the results as they come; /verify/single has one and no limit.  *)
(*                                                                         *)
(* All of it is one event loop: an action is what happens between two      *)
(* awaits.  The children are processes of their own, and may exit at any   *)
(* time, also just before they are found to be late.                       *)
(***************************************************************************)
EXTENDS Integers, Sequences, FiniteSets, SequencesExt

CONSTANTS
  Streams,        \* requests to /verify/bulk/stream
  Singles,        \* requests to /verify/single
  Size,           \* the number of emails of a request
  Asked,          \* the proxy_port of a single request
  Pool,           \* TOR_PROXY_PORTS
  MaxTries,       \* 3
  MaxConcurrent   \* MAX_CONCURRENT

Requests == Streams \cup Singles

ASSUME StreamAssumption ==
  /\ Streams \cap Singles = {}
  /\ Size \in [Requests -> Nat]
  /\ \A r \in Singles : Size[r] = 1
  /\ Asked \in [Singles -> Nat]
  /\ Pool \in Seq(Nat) \ {<<>>}
  /\ \A i, j \in DOMAIN Pool : Pool[i] = Pool[j] => i = j
  /\ MaxTries \in Nat \ {0}
  /\ MaxConcurrent \in Nat \ {0}

\* Email i of request r.
Jobs == UNION {{r} \X (1 .. Size[r]) : r \in Requests}
JobsOf(r) == {j \in Jobs : j[1] = r}

VARIABLES
  at,       \* where the task of a job is
  tried,    \* the ports the job was tried on
  child,    \* its process: "none", "running", or what it has exited with
  result,   \* what verify_email_async returned
  stream,   \* how far the request is
  pending,  \* jobs of the request that asyncio.wait is to wait for
  done,     \* jobs it returned and that were not sent yet
  sends     \* how often the result of a job was sent

jobVars     == <<at, tried, child, result>>
requestVars == <<stream, pending, done, sends>>
vars == <<at, tried, child, result, stream, pending, done, sends>>

Answers == {"report", "blacklisted", "error"}

Init ==
  /\ at = [j \in Jobs |-> "none"]
  /\ tried = [j \in Jobs |-> <<>>]
  /\ child = [j \in Jobs |-> "none"]
  /\ result = [j \in Jobs |-> "none"]
  /\ stream = [r \in Requests |-> "new"]
  /\ pending = [r \in Requests |-> {}]
  /\ done = [r \in Requests |-> {}]
  /\ sends = [j \in Jobs |-> 0]

-----------------------------------------------------------------------------
(* verify_email_async and _verify_email_once.                              *)

\* The emails of a stream take turns at the ports of the pool.
FirstPort(j) ==
  IF j[1] \in Singles THEN Asked[j[1]] ELSE Pool[((j[2] - 1) % Len(Pool)) + 1]

\* Bug: the port that was asked for is not left out of the others.
PortsAgain(j) == SubSeq(<<FirstPort(j)>> \o Pool, 1, MaxTries)

\* The port that was asked for, then the others of the pool, MaxTries at most.
Ports(j) ==
  LET all == <<FirstPort(j)>> \o RemoveFirst(Pool, FirstPort(j))
  IN  SubSeq(all, 1, IF Len(all) < MaxTries THEN Len(all) ELSE MaxTries)

\* The task of j returns; whoever waits for its slot may go on.
Return(j, outcome) ==
  /\ at' = [at EXCEPT ![j] = "finished"]
  /\ result' = [result EXCEPT ![j] = outcome]

\* The process is started on the next port, or cannot be.
Spawn(j) ==
  /\ at[j] = "spawning"
  /\ tried' = [tried EXCEPT ![j] = Append(@, Ports(j)[Len(@) + 1])]
  /\ \/ /\ at' = [at EXCEPT ![j] = "trying"]
        /\ child' = [child EXCEPT ![j] = "running"]
        /\ UNCHANGED result
     \/ /\ Return(j, "error")
        /\ UNCHANGED child
  /\ UNCHANGED requestVars

\* The process exits: with a report, one that says "IpBlacklisted", or in a way
\* that makes no report (a status that is not zero, output that has no JSON).
Exit(j) ==
  /\ child[j] = "running"
  /\ \E answer \in IF at[j] = "trying" THEN Answers ELSE {"error"} :
       child' = [child EXCEPT ![j] = answer]
  /\ UNCHANGED <<at, tried, result, requestVars>>

\* communicate() returns what the process wrote.  A blacklisted address is
\* tried again while there are ports left.
TakeAnswer(j) ==
  /\ at[j] = "trying"
  /\ child[j] \in Answers
  /\ child' = [child EXCEPT ![j] = "none"]
  /\ IF child[j] = "blacklisted" /\ Len(tried[j]) < Len(Ports(j))
     THEN at' = [at EXCEPT ![j] = "spawning"] /\ UNCHANGED result
     ELSE Return(j, child[j])
  /\ UNCHANGED <<tried, requestVars>>

\* Bug: nobody waits for the process that was terminated.
LateNoWait(j) ==
  /\ at[j] = "trying"
  /\ Return(j, "error")
  /\ UNCHANGED <<tried, child, requestVars>>

\* Bug: there is no timeout.
LateNever(j) == FALSE /\ UNCHANGED vars

\* TIMEOUT_PER_EMAIL is over: the process is terminated and waited for, and an
\* answer that it has just given is lost.
Late(j) ==
  /\ at[j] = "trying"
  /\ at' = [at EXCEPT ![j] = "terminating"]
  /\ UNCHANGED <<tried, child, result, requestVars>>

\* process.wait() returns, or terminate() fails as the process has exited.
Reaped(j) ==
  /\ at[j] = "terminating"
  /\ child[j] # "running"
  /\ child' = [child EXCEPT ![j] = "none"]
  /\ Return(j, "error")
  /\ UNCHANGED <<tried, requestVars>>

-----------------------------------------------------------------------------
(* verify_single.                                                          *)

AskSingle(r) ==
  /\ r \in Singles
  /\ stream[r] = "new"
  /\ stream' = [stream EXCEPT ![r] = "waiting"]
  /\ at' = [at EXCEPT ![<<r, 1>>] = "spawning"]
  /\ UNCHANGED <<tried, child, result, pending, done, sends>>

Reply(r) ==
  /\ r \in Singles
  /\ stream[r] = "waiting"
  /\ at[<<r, 1>>] = "finished"
  /\ stream' = [stream EXCEPT ![r] = "finished"]
  /\ sends' = [sends EXCEPT ![<<r, 1>>] = @ + 1]
  /\ UNCHANGED <<jobVars, pending, done>>

-----------------------------------------------------------------------------
(* verify_bulk_stream.                                                     *)

\* A request without emails is refused; otherwise event_generator makes a task
\* of each of them.
AskStream(r) ==
  /\ r \in Streams
  /\ stream[r] = "new"
  /\ stream' = [stream EXCEPT ![r] = IF JobsOf(r) = {} THEN "refused" ELSE "waiting"]
  /\ pending' = [pending EXCEPT ![r] = JobsOf(r)]
  /\ at' = [j \in Jobs |-> IF j[1] = r THEN "waiting" ELSE at[j]]
  /\ UNCHANGED <<tried, child, result, done, sends>>

Working(r) == {j \in JobsOf(r) : at[j] \in {"spawning", "trying", "terminating"}}

\* bounded_check gets the semaphore of its request; whoever came first does.
Start(j) ==
  /\ at[j] = "waiting"
  /\ \A k \in JobsOf(j[1]) : at[k] = "waiting" => j[2] <= k[2]
  /\ Cardinality(Working(j[1])) < MaxConcurrent
  /\ at' = [at EXCEPT ![j] = "spawning"]
  /\ UNCHANGED <<tried, child, result, requestVars>>

Finished(r) == {j \in pending[r] : at[j] = "finished"}

\* Bug: all that is done is taken out, and one of it is sent.
CollectOne(r) ==
  /\ stream[r] = "waiting"
  /\ \E j \in Finished(r) : done' = [done EXCEPT ![r] = {j}]
  /\ pending' = [pending EXCEPT ![r] = @ \ Finished(r)]
  /\ stream' = [stream EXCEPT ![r] = "sending"]
  /\ UNCHANGED <<jobVars, sends>>

\* asyncio.wait returns with all tasks that are done when the generator runs.
Collect(r) ==
  /\ stream[r] = "waiting"
  /\ Finished(r) # {}
  /\ done' = [done EXCEPT ![r] = Finished(r)]
  /\ pending' = [pending EXCEPT ![r] = @ \ Finished(r)]
  /\ stream' = [stream EXCEPT ![r] = "sending"]
  /\ UNCHANGED <<jobVars, sends>>

\* A result is sent, in the order of a set; other tasks go on meanwhile.  After
\* the last one the generator waits again, or sends [DONE].
Send(r) ==
  /\ stream[r] = "sending"
  /\ \E j \in done[r] :
       /\ sends' = [sends EXCEPT ![j] = @ + 1]
       /\ done' = [done EXCEPT ![r] = @ \ {j}]
       /\ stream' = [stream EXCEPT ![r] =
            IF done[r] # {j} THEN "sending"
            ELSE IF pending[r] # {} THEN "waiting"
            ELSE "finished"]
  /\ UNCHANGED <<jobVars, pending>>

\* The client is gone and the generator cancelled.  Its tasks are not.
Disconnect(r) ==
  /\ r \in Streams
  /\ stream[r] \in {"waiting", "sending"}
  /\ stream' = [stream EXCEPT ![r] = "gone"]
  /\ UNCHANGED <<jobVars, pending, done, sends>>

-----------------------------------------------------------------------------
Task(j)    == Start(j) \/ Spawn(j) \/ TakeAnswer(j) \/ Reaped(j)
Request(r) == Reply(r) \/ Collect(r) \/ Send(r)
Client(r)  == AskSingle(r) \/ AskStream(r) \/ Disconnect(r)

Next ==
  \/ \E j \in Jobs : Task(j) \/ Late(j) \/ Exit(j)
  \/ \E r \in Requests : Request(r) \/ Client(r)

Spec == Init /\ [][Next]_vars

\* The event loop runs each task that can go on, timers fire, and a process that
\* was told to terminate exits; one that was not may run for ever.
FairSpec ==
  /\ Spec
  /\ \A j \in Jobs :
       /\ WF_vars(Task(j))
       /\ WF_vars(Late(j))
       /\ WF_vars(at[j] = "terminating" /\ Exit(j))
  /\ \A r \in Requests : WF_vars(Request(r))

-----------------------------------------------------------------------------
(* Properties.                                                             *)

Places == {"none", "waiting", "spawning", "trying", "terminating", "finished"}

\* Type invariant; a job is waited for or about to be sent, not both.
TypeOK ==
  /\ at \in [Jobs -> Places]
  /\ tried \in [Jobs -> Seq(Nat)]
  /\ child \in [Jobs -> {"none", "running"} \cup Answers]
  /\ result \in [Jobs -> {"none"} \cup Answers]
  /\ stream \in [Requests -> {"new", "refused", "waiting", "sending", "finished", "gone"}]
  /\ pending \in [Requests -> SUBSET Jobs]
  /\ done \in [Requests -> SUBSET Jobs]
  /\ sends \in [Jobs -> Nat]
  /\ \A r \in Requests : pending[r] \cap done[r] = {}

\* The processes of a job that was given up on count too.
Children(r) == {j \in JobsOf(r) : child[j] = "running"}

\* A stream never has more processes than MaxConcurrent: not while a late one
\* is terminated, nor when the client is gone and its tasks run on.
SlotsBound == \A r \in Streams : Cardinality(Children(r)) <= MaxConcurrent

\* A stream that ends with [DONE] has sent the result of each email once, in
\* whatever order and batches the tasks were done.
AnswersComplete ==
  \A r \in Requests :
    stream[r] = "finished" => \A j \in JobsOf(r) : at[j] = "finished" /\ sends[j] = 1

\* An email is not tried twice on one port, nor more than MaxTries times, and
\* "blacklisted" is the answer only when there is no port left to try.
RotatesBeforeGivingUp ==
  \A j \in Jobs :
    /\ \A a, b \in DOMAIN tried[j] : tried[j][a] = tried[j][b] => a = b
    /\ Len(tried[j]) <= MaxTries
    /\ result[j] = "blacklisted" =>
         Len(tried[j]) = MaxTries \/ \A i \in DOMAIN Pool : \E a \in DOMAIN tried[j] : tried[j][a] = Pool[i]

\* A stream ends, although processes may hang.
StreamEnds == \A r \in Requests : stream[r] = "waiting" ~> stream[r] \in {"finished", "gone"}

\* Nothing is left of a request in the end, also when the client has gone.
ChildrenReaped ==
  \A j \in Jobs : child[j] = "running" ~> (at[j] = "finished" /\ child[j] = "none")

\* README.md: "`MAX_CONCURRENT` | `4` | Maximum concurrent verifications".
MaxConcurrentIsGlobal == Cardinality({j \in Jobs : child[j] = "running"}) <= MaxConcurrent
=============================================================================
