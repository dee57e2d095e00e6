-------------------------- MODULE StreamApiProofs --------------------------
(***************************************************************************)
(* Proofs about app.py, for any requests, ports and limits: a stream never *)
(* has more processes than it has slots, and has sent every result once    *)
(* when it ends.                                                           *)
(***************************************************************************)
EXTENDS StreamApi, FiniteSetTheorems, SequenceTheorems, TLAPS

(* What the two arguments need of the types.                               *)
Shape ==
  /\ at \in [Jobs -> Places]
  /\ child \in [Jobs -> {"none", "running"} \cup Answers]
  /\ stream \in [Requests -> {"new", "refused", "waiting", "sending", "finished", "gone"}]
  /\ pending \in [Requests -> SUBSET Jobs]
  /\ done \in [Requests -> SUBSET Jobs]
  /\ sends \in [Jobs -> Nat]

(* A single request has one email.                                         *)
LEMMA SingleJob ==
  ASSUME NEW r \in Singles
  PROVE  /\ r \in Requests /\ r \notin Streams
         /\ <<r, 1>> \in Jobs
         /\ JobsOf(r) = {<<r, 1>>}
<1>1. r \in Requests /\ r \notin Streams /\ Size[r] = 1
  BY StreamAssumption DEF Requests
<1>2. <<r, 1>> \in {r} \X (1 .. Size[r])
  BY <1>1
<1>3. <<r, 1>> \in Jobs
  BY <1>1, <1>2 DEF Jobs
<1>4. ASSUME NEW j \in JobsOf(r) PROVE j = <<r, 1>>
  <2>1. PICK q \in Requests : j \in {q} \X (1 .. Size[q])
    BY <1>4 DEF JobsOf, Jobs
  <2>2. q = r
    BY <1>4, <2>1 DEF JobsOf
  <2>3. QED
    BY <1>1, <2>1, <2>2
<1>5. QED
  BY <1>1, <1>3, <1>4 DEF JobsOf

LEMMA ShapeStep == Shape /\ [Next]_vars => Shape'
<1> SUFFICES ASSUME Shape, [Next]_vars PROVE Shape'
  OBVIOUS
<1>1. ASSUME NEW j \in Jobs, Start(j) PROVE Shape'
  BY <1>1 DEF Shape, Start, Places, requestVars
<1>2. ASSUME NEW j \in Jobs, Spawn(j) PROVE Shape'
  BY <1>2 DEF Shape, Spawn, Return, Places, requestVars
<1>3. ASSUME NEW j \in Jobs, TakeAnswer(j) PROVE Shape'
  BY <1>3 DEF Shape, TakeAnswer, Return, Places, requestVars
<1>4. ASSUME NEW j \in Jobs, Reaped(j) PROVE Shape'
  BY <1>4 DEF Shape, Reaped, Return, Places, requestVars
<1>5. ASSUME NEW j \in Jobs, Late(j) PROVE Shape'
  BY <1>5 DEF Shape, Late, Places, requestVars
<1>6. ASSUME NEW j \in Jobs, Exit(j) PROVE Shape'
  BY <1>6 DEF Shape, Exit, Answers, requestVars
<1>7. ASSUME NEW r \in Requests, Reply(r) PROVE Shape'
  <2>1. <<r, 1>> \in Jobs
    BY <1>7, SingleJob DEF Reply
  <2>2. QED
    BY <1>7, <2>1 DEF Shape, Reply, jobVars
<1>8. ASSUME NEW r \in Requests, Collect(r) PROVE Shape'
  BY <1>8 DEF Shape, Collect, Finished, jobVars
<1>9. ASSUME NEW r \in Requests, Send(r) PROVE Shape'
  <2>1. PICK j \in done[r] :
          /\ sends' = [sends EXCEPT ![j] = @ + 1]
          /\ done' = [done EXCEPT ![r] = @ \ {j}]
          /\ stream' = [stream EXCEPT ![r] =
               IF done[r] # {j} THEN "sending"
               ELSE IF pending[r] # {} THEN "waiting"
               ELSE "finished"]
    BY <1>9 DEF Send
  <2>2. j \in Jobs
    BY DEF Shape
  <2>3. sends' \in [Jobs -> Nat]
    BY <2>1, <2>2 DEF Shape
  <2>4. done' \in [Requests -> SUBSET Jobs]
    BY <2>1 DEF Shape
  <2>5. stream' \in [Requests -> {"new", "refused", "waiting", "sending", "finished", "gone"}]
    BY <2>1 DEF Shape
  <2>6. QED
    BY <1>9, <2>3, <2>4, <2>5 DEF Shape, Send, jobVars
<1>10. ASSUME NEW r \in Requests, AskSingle(r) PROVE Shape'
  BY <1>10 DEF Shape, AskSingle, Places
<1>11. ASSUME NEW r \in Requests, AskStream(r) PROVE Shape'
  BY <1>11 DEF Shape, AskStream, Places, JobsOf
<1>12. ASSUME NEW r \in Requests, Disconnect(r) PROVE Shape'
  BY <1>12 DEF Shape, Disconnect, jobVars
<1>13. CASE UNCHANGED vars
  BY <1>13 DEF Shape, vars
<1>14. QED
  BY <1>1, <1>2, <1>3, <1>4, <1>5, <1>6, <1>7, <1>8, <1>9, <1>10, <1>11, <1>12, <1>13
     DEF Next, Task, Request, Client

-----------------------------------------------------------------------------
(* The semaphore.                                                          *)

LEMMA JobsOfFinite == ASSUME NEW r \in Requests PROVE IsFiniteSet(JobsOf(r))
<1>1. IsFiniteSet({r} \X (1 .. Size[r]))
  <2>1. IsFiniteSet({r})
    BY FS_Singleton
  <2>2. Size[r] \in Nat
    BY StreamAssumption
  <2>3. IsFiniteSet(1 .. Size[r])
    BY <2>2, FS_Interval
  <2>4. QED
    BY <2>1, <2>3, FS_Product
<1>2. JobsOf(r) \subseteq {r} \X (1 .. Size[r])
  <2>1. ASSUME NEW j \in JobsOf(r) PROVE j \in {r} \X (1 .. Size[r])
    <3>1. PICK q \in Requests : j \in {q} \X (1 .. Size[q])
      BY <2>1 DEF JobsOf, Jobs
    <3>2. q = r
      BY <2>1, <3>1 DEF JobsOf
    <3>3. QED
      BY <3>1, <3>2
  <2>2. QED
    BY <2>1
<1>3. QED
  BY <1>1, <1>2, FS_Subset

(* A process belongs to a task that holds a slot, and a stream never has   *)
(* more of those than it has slots.                                        *)
Slots ==
  /\ \A j \in Jobs : child[j] # "none" => at[j] \in {"trying", "terminating"}
  /\ \A r \in Streams : Cardinality(Working(r)) <= MaxConcurrent
  /\ \A r \in Requests : stream[r] = "new" => \A j \in JobsOf(r) : at[j] = "none"

(* Fewer tasks at work are never too many.                                 *)
LEMMA FewerWorking ==
  ASSUME Slots, NEW r \in Streams, Working(r)' \subseteq Working(r)
  PROVE  Cardinality(Working(r))' <= MaxConcurrent
<1>1. IsFiniteSet(Working(r))
  <2>1. Working(r) \subseteq JobsOf(r)
    BY DEF Working
  <2>2. QED
    BY <2>1, JobsOfFinite, FS_Subset DEF Requests
<1>2. /\ Cardinality(Working(r)') \in Nat
      /\ Cardinality(Working(r)) \in Nat
      /\ Cardinality(Working(r)') <= Cardinality(Working(r))
  BY <1>1, FS_Subset, FS_CardinalityType
<1>3. Cardinality(Working(r)) <= MaxConcurrent
  BY DEF Slots
<1>4. QED
  BY <1>2, <1>3, StreamAssumption

LEMMA SlotsStep == Shape /\ Slots /\ [Next]_vars => Slots'
<1> SUFFICES ASSUME Shape, Slots, [Next]_vars PROVE Slots'
  OBVIOUS
<1> DEFINE Owned == \A j \in Jobs : child[j] # "none" => at[j] \in {"trying", "terminating"}
<1> DEFINE Fresh == \A r \in Requests : stream[r] = "new" => \A j \in JobsOf(r) : at[j] = "none"
<1> DEFINE Fewer == \A r \in Streams : Working(r)' \subseteq Working(r)
<1>0. Owned' /\ Fresh' /\ Fewer => Slots'
  BY FewerWorking DEF Slots
<1>1. ASSUME NEW j \in Jobs, Start(j) PROVE Slots'
  <2>1. Owned' /\ Fresh'
    BY <1>1 DEF Start, Slots, Shape, JobsOf, requestVars
  <2>2. ASSUME NEW r \in Streams PROVE Cardinality(Working(r))' <= MaxConcurrent
    <3>1. CASE j \in JobsOf(r)
      <4>1. j[1] = r
        BY <3>1 DEF JobsOf
      <4>2. Working(r)' = Working(r) \cup {j}
        BY <1>1, <3>1 DEF Start, Working, Shape, JobsOf
      <4>3. IsFiniteSet(Working(r))
        <5>1. Working(r) \subseteq JobsOf(r)
          BY DEF Working
        <5>2. QED
          BY <5>1, JobsOfFinite, FS_Subset DEF Requests
      <4>4. Cardinality(Working(r)) \in Nat
        BY <4>3, FS_CardinalityType
      <4>5. j \notin Working(r)
        BY <1>1 DEF Start, Working
      <4>6. Cardinality(Working(r)') = Cardinality(Working(r)) + 1
        BY <4>2, <4>3, <4>5, FS_AddElement
      <4>7. Cardinality(Working(r)) < MaxConcurrent
        BY <1>1, <4>1 DEF Start
      <4>8. QED
        BY <4>4, <4>6, <4>7, StreamAssumption
    <3>2. CASE j \notin JobsOf(r)
      <4>1. Working(r)' \subseteq Working(r)
        BY <1>1, <3>2 DEF Start, Working, Shape, JobsOf
      <4>2. QED
        BY <4>1, FewerWorking
    <3>3. QED
      BY <3>1, <3>2
  <2>3. QED
    BY <2>1, <2>2 DEF Slots
<1>2. ASSUME NEW j \in Jobs, Spawn(j) PROVE Slots'
  <2>1. Owned'
    BY <1>2 DEF Spawn, Return, Slots, Shape
  <2>2. Fresh' /\ Fewer
    BY <1>2 DEF Spawn, Return, Slots, Shape, Working, JobsOf, requestVars
  <2>3. QED
    BY <1>0, <2>1, <2>2
<1>3. ASSUME NEW j \in Jobs, TakeAnswer(j) \/ Reaped(j) PROVE Slots'
  <2>1. Owned'
    BY <1>3 DEF TakeAnswer, Reaped, Return, Slots, Shape
  <2>2. Fresh' /\ Fewer
    BY <1>3 DEF TakeAnswer, Reaped, Return, Slots, Shape, Working, JobsOf, requestVars
  <2>3. QED
    BY <1>0, <2>1, <2>2
<1>4. ASSUME NEW j \in Jobs, Late(j) PROVE Slots'
  <2>1. Owned' /\ Fresh' /\ Fewer
    BY <1>4 DEF Late, Slots, Shape, Working, JobsOf, requestVars
  <2>2. QED
    BY <1>0, <2>1
<1>5. ASSUME NEW j \in Jobs, Exit(j) PROVE Slots'
  <2>1. Owned' /\ Fresh' /\ Fewer
    BY <1>5 DEF Exit, Slots, Shape, Working, JobsOf, requestVars
  <2>2. QED
    BY <1>0, <2>1
<1>6. ASSUME NEW r \in Requests, Reply(r) \/ Collect(r) \/ Send(r) \/ Disconnect(r) PROVE Slots'
  <2>1. Owned' /\ Fewer
    BY <1>6 DEF Reply, Collect, Send, Disconnect, jobVars, Slots, Working, JobsOf
  <2>2. UNCHANGED at /\ \A q \in Requests : stream'[q] = "new" => stream[q] = "new"
    BY <1>6 DEF Reply, Collect, Send, Disconnect, jobVars, Shape
  <2>3. Fresh'
    BY <2>2 DEF Slots, JobsOf
  <2>4. QED
    BY <1>0, <2>1, <2>3
<1>7. ASSUME NEW r \in Requests, AskSingle(r) PROVE Slots'
  <2>1. \A q \in Requests \ {r} : <<r, 1>> \notin JobsOf(q)
    BY DEF JobsOf
  <2>2. <<r, 1>> \in Jobs => <<r, 1>> \in JobsOf(r)
    BY DEF JobsOf
  <2>3. r \notin Streams
    BY <1>7, StreamAssumption DEF AskSingle
  <2>4. Owned'
    BY <1>7, <2>2 DEF AskSingle, Slots, Shape
  <2>5. Fresh'
    BY <1>7, <2>1 DEF AskSingle, Slots, Shape, JobsOf
  <2>6. Fewer
    BY <1>7, <2>1, <2>3 DEF AskSingle, Shape, Working, JobsOf, Requests
  <2>7. QED
    BY <1>0, <2>4, <2>5, <2>6
<1>8. ASSUME NEW r \in Requests, AskStream(r) PROVE Slots'
  <2>1. \A j \in Jobs : at'[j] = IF j \in JobsOf(r) THEN "waiting" ELSE at[j]
    BY <1>8 DEF AskStream, JobsOf
  <2>2. Owned'
    BY <1>8, <2>1 DEF AskStream, Slots, Shape
  <2>3. Fresh'
    BY <1>8, <2>1 DEF AskStream, Slots, Shape, JobsOf
  <2>4. Fewer
    BY <1>8, <2>1 DEF Working, JobsOf
  <2>5. QED
    BY <1>0, <2>2, <2>3, <2>4
<1>9. CASE UNCHANGED vars
  <2>1. Owned' /\ Fresh' /\ Fewer
    BY <1>9 DEF vars, Slots, Working, JobsOf
  <2>2. QED
    BY <1>0, <2>1
<1>10. QED
  BY <1>1, <1>2, <1>3, <1>4, <1>5, <1>6, <1>7, <1>8, <1>9 DEF Next, Task, Request, Client

LEMMA InitShape == Init => Shape /\ Slots
<1> SUFFICES ASSUME Init PROVE Shape /\ Slots
  OBVIOUS
<1>1. Shape
  BY DEF Init, Shape, Places
<1>2. \A r \in Streams : Working(r) = {}
  BY DEF Init, Working, JobsOf
<1>3. \A r \in Streams : Cardinality(Working(r)) <= MaxConcurrent
  <2>1. Cardinality({}) = 0 /\ 0 <= MaxConcurrent
    BY FS_EmptySet, StreamAssumption
  <2>2. QED
    BY <1>2, <2>1
<1>4. QED
  BY <1>1, <1>3 DEF Init, Slots, JobsOf

(* What a stream has running is at most what its semaphore let through:    *)
(* also while a late process is terminated, and after the client has gone. *)
THEOREM SlotsBounded == Spec => []SlotsBound
<1>1. Init => Shape /\ Slots
  BY InitShape
<1>2. Shape /\ Slots /\ [Next]_vars => Shape' /\ Slots'
  BY ShapeStep, SlotsStep
<1>3. Shape /\ Slots => SlotsBound
  <2> SUFFICES ASSUME Shape, Slots, NEW r \in Streams
               PROVE  Cardinality(Children(r)) <= MaxConcurrent
    BY DEF SlotsBound
  <2>1. Children(r) \subseteq Working(r)
    BY DEF Children, Working, JobsOf, Slots
  <2>2. Working(r) \subseteq JobsOf(r)
    BY DEF Working
  <2>3. IsFiniteSet(Working(r))
    BY <2>2, JobsOfFinite, FS_Subset DEF Requests
  <2>4. /\ Cardinality(Children(r)) \in Nat
        /\ Cardinality(Working(r)) \in Nat
        /\ Cardinality(Children(r)) <= Cardinality(Working(r))
    BY <2>1, <2>3, FS_Subset, FS_CardinalityType
  <2>5. Cardinality(Working(r)) <= MaxConcurrent
    BY DEF Slots
  <2>6. QED
    BY <2>4, <2>5, StreamAssumption
<1>4. QED
  BY <1>1, <1>2, <1>3, PTL DEF Spec
-----------------------------------------------------------------------------
(* The results.                                                            *)

(* The result of a job is still to be sent.                                *)
Unsent(r, j) ==
  IF r \in Singles THEN stream[r] # "finished"
  ELSE stream[r] = "new" \/ j \in pending[r] \cup done[r]

(* pending and done divide what a stream has not sent; the generator waits *)
(* only after it has sent all of done, and ends when both are empty.       *)
Accounts(r) ==
  /\ r \in Singles => pending[r] = {} /\ done[r] = {}
  /\ stream[r] = "new" => pending[r] = {}
  /\ stream[r] # "sending" /\ stream[r] # "gone" => done[r] = {}
  /\ stream[r] = "finished" => pending[r] = {}
  /\ pending[r] \cap done[r] = {}
  /\ \A j \in JobsOf(r) :
       /\ sends[j] = IF Unsent(r, j) THEN 0 ELSE 1
       /\ ~ Unsent(r, j) \/ j \in done[r] => at[j] = "finished"

Own == \A r \in Requests : pending[r] \subseteq JobsOf(r) /\ done[r] \subseteq JobsOf(r)

Ledger == Own /\ \A r \in Requests : Accounts(r)

(* What a task does says nothing of what was sent, and it never returns    *)
(* twice.                                                                  *)
LEMMA TasksKeepLedger ==
  ASSUME Ledger, UNCHANGED requestVars,
         \A j \in Jobs : at[j] = "finished" => at'[j] = "finished"
  PROVE  Ledger'
<1>1. UNCHANGED <<stream, pending, done, sends>>
  BY DEF requestVars
<1>2. Own'
  BY <1>1 DEF Ledger, Own, JobsOf
<1>3. ASSUME NEW r \in Requests PROVE Accounts(r)'
  <2>1. Accounts(r)
    BY DEF Ledger
  <2>2. \A j \in JobsOf(r) : j \in Jobs /\ (Unsent(r, j)' <=> Unsent(r, j))
    BY <1>1 DEF JobsOf, Unsent
  <2>3. QED
    BY <1>1, <2>1, <2>2 DEF Accounts, JobsOf
<1>4. QED
  BY <1>2, <1>3 DEF Ledger

(* The books of one request do not depend on another's.                    *)
LEMMA OthersKeepLedger ==
  ASSUME Ledger, NEW r \in Requests, Accounts(r)', Own',
         \A q \in Requests \ {r} :
           /\ stream'[q] = stream[q] /\ pending'[q] = pending[q] /\ done'[q] = done[q]
           /\ \A j \in JobsOf(q) : at'[j] = at[j] /\ sends'[j] = sends[j]
  PROVE  Ledger'
<1>1. ASSUME NEW q \in Requests \ {r} PROVE Accounts(q)'
  <2>1. Accounts(q)
    BY DEF Ledger
  <2>2. \A j \in JobsOf(q) : Unsent(q, j)' <=> Unsent(q, j)
    BY DEF Unsent
  <2>3. QED
    BY <2>1, <2>2 DEF Accounts, JobsOf
<1>2. QED
  BY <1>1 DEF Ledger

(* A job belongs to one request.                                           *)
LEMMA OneOwner ==
  ASSUME NEW r \in Requests, NEW q \in Requests \ {r}, NEW j \in JobsOf(q)
  PROVE  j \notin JobsOf(r) /\ j # <<r, 1>>
BY DEF JobsOf

LEMMA LedgerStep == Shape /\ Slots /\ Ledger /\ [Next]_vars => Ledger'
<1> SUFFICES ASSUME Shape, Slots, Ledger, [Next]_vars PROVE Ledger'
  OBVIOUS
<1>1. ASSUME NEW j \in Jobs, Task(j) \/ Late(j) \/ Exit(j) PROVE Ledger'
  <2>1. \A k \in Jobs : at[k] = "finished" => at'[k] = "finished"
    BY <1>1 DEF Shape, Task, Start, Spawn, TakeAnswer, Reaped, Late, Exit, Return
  <2>2. UNCHANGED requestVars
    BY <1>1 DEF Task, Start, Spawn, TakeAnswer, Reaped, Late, Exit
  <2>3. QED
    BY <2>1, <2>2, TasksKeepLedger
<1>2. ASSUME NEW r \in Requests, Reply(r) PROVE Ledger'
  <2>1. r \in Singles /\ JobsOf(r) = {<<r, 1>>} /\ <<r, 1>> \in Jobs
    BY <1>2, SingleJob DEF Reply
  <2>2. Accounts(r)'
    BY <1>2, <2>1 DEF Ledger, Accounts, Unsent, Reply, Shape, jobVars, JobsOf
  <2>3. \A q \in Requests \ {r} : \A j \in JobsOf(q) : sends'[j] = sends[j]
    BY <1>2, OneOwner DEF Reply, Shape, JobsOf
  <2>4. Own'
    BY <1>2 DEF Reply, Ledger, Own, JobsOf
  <2>5. QED
    BY <1>2, <2>2, <2>3, <2>4, OthersKeepLedger DEF Reply, Shape, jobVars
<1>3. ASSUME NEW r \in Requests, Collect(r) PROVE Ledger'
  <2>1. r \notin Singles
    BY <1>3 DEF Collect, Finished, Ledger, Accounts
  <2>2. done[r] = {}
    BY <1>3 DEF Collect, Ledger, Accounts
  <2>3. /\ stream'[r] = "sending"
        /\ done'[r] = Finished(r)
        /\ pending'[r] = pending[r] \ Finished(r)
        /\ UNCHANGED <<at, sends>>
    BY <1>3 DEF Collect, Shape, jobVars
  <2>4. Finished(r) \subseteq pending[r] /\ \A j \in Finished(r) : at[j] = "finished"
    BY DEF Finished
  <2>5. \A j \in JobsOf(r) : Unsent(r, j)' <=> Unsent(r, j)
    BY <1>3, <2>1, <2>2, <2>3, <2>4 DEF Unsent, Collect
  <2>6. Accounts(r)'
    BY <2>1, <2>3, <2>4, <2>5 DEF Ledger, Accounts, JobsOf
  <2>7. Own'
    BY <1>3, <2>4 DEF Collect, Ledger, Own, JobsOf, Shape
  <2>8. QED
    BY <1>3, <2>6, <2>7, OthersKeepLedger DEF Collect, Shape, jobVars
<1>4. ASSUME NEW r \in Requests, Send(r) PROVE Ledger'
  <2>1. PICK j \in done[r] :
          /\ sends' = [sends EXCEPT ![j] = @ + 1]
          /\ done' = [done EXCEPT ![r] = @ \ {j}]
          /\ stream' = [stream EXCEPT ![r] =
               IF done[r] # {j} THEN "sending"
               ELSE IF pending[r] # {} THEN "waiting"
               ELSE "finished"]
    BY <1>4 DEF Send
  <2>2. r \notin Singles /\ j \in JobsOf(r) /\ j \in Jobs /\ stream[r] = "sending"
    BY <1>4 DEF Ledger, Accounts, Own, JobsOf, Send
  <2>3. UNCHANGED <<at, pending>>
    BY <1>4 DEF Send, jobVars
  <2>4. done'[r] = done[r] \ {j} /\ sends' \in [Jobs -> Nat]
    BY <2>1, <2>2 DEF Shape
  <2>5. \A k \in JobsOf(r) : Unsent(r, k)' <=> Unsent(r, k) /\ k # j
    <3>1. stream'[r] # "new" /\ j \notin pending[r]
      BY <2>1 DEF Shape, Ledger, Accounts
    <3>2. QED
      BY <2>2, <2>3, <2>4, <3>1 DEF Unsent
  <2>6. \A k \in JobsOf(r) : sends'[k] = IF k = j THEN 1 ELSE sends[k]
    <3>1. sends[j] = 0
      BY <2>2 DEF Ledger, Accounts, Unsent
    <3>2. QED
      BY <2>1, <2>2, <3>1 DEF Shape, JobsOf
  <2>7. \A k \in JobsOf(r) :
          /\ sends'[k] = IF Unsent(r, k)' THEN 0 ELSE 1
          /\ ~ Unsent(r, k)' \/ k \in done'[r] => at'[k] = "finished"
    BY <2>2, <2>3, <2>4, <2>5, <2>6 DEF Ledger, Accounts
  <2>8. /\ stream'[r] # "new"
        /\ stream'[r] # "sending" => done'[r] = {}
        /\ stream'[r] = "finished" => pending[r] = {}
    BY <2>1, <2>4 DEF Shape
  <2>9. Accounts(r)'
    BY <2>2, <2>3, <2>4, <2>7, <2>8 DEF Ledger, Accounts, JobsOf
  <2>10. \A q \in Requests \ {r} : \A k \in JobsOf(q) : sends'[k] = sends[k]
    BY <2>1, <2>2, OneOwner DEF Shape, JobsOf
  <2>11. Own'
    BY <2>1, <2>3 DEF Ledger, Own, JobsOf, Shape
  <2>12. \A q \in Requests \ {r} : stream'[q] = stream[q] /\ done'[q] = done[q]
    BY <2>1 DEF Shape
  <2>13. QED
    BY <2>3, <2>9, <2>10, <2>11, <2>12, OthersKeepLedger
<1>5. ASSUME NEW r \in Requests, AskSingle(r) PROVE Ledger'
  <2>1. r \in Singles
    BY <1>5 DEF AskSingle
  <2>2. stream[r] = "new" /\ stream'[r] = "waiting" /\ UNCHANGED <<pending, done, sends>>
    BY <1>5 DEF AskSingle, Shape
  <2>3. \A j \in JobsOf(r) : Unsent(r, j) /\ Unsent(r, j)'
    BY <2>1, <2>2 DEF Unsent
  <2>4. Accounts(r)'
    BY <2>1, <2>2, <2>3 DEF Ledger, Accounts, JobsOf
  <2>5. \A q \in Requests \ {r} : \A j \in JobsOf(q) : at'[j] = at[j]
    BY <1>5, OneOwner DEF AskSingle, Shape, JobsOf
  <2>6. Own'
    BY <2>2 DEF Ledger, Own, JobsOf
  <2>7. \A q \in Requests \ {r} : stream'[q] = stream[q]
    BY <1>5 DEF AskSingle, Shape
  <2>8. QED
    BY <2>2, <2>4, <2>5, <2>6, <2>7, OthersKeepLedger
<1>6. ASSUME NEW r \in Requests, AskStream(r) PROVE Ledger'
  <2>1. r \notin Singles /\ stream[r] = "new" /\ UNCHANGED <<done, sends>>
    BY <1>6, SingleJob DEF AskStream
  <2>2. /\ stream'[r] = IF JobsOf(r) = {} THEN "refused" ELSE "waiting"
        /\ pending'[r] = JobsOf(r)
        /\ done[r] = {}
    BY <1>6, <2>1 DEF AskStream, Shape, Ledger, Accounts
  <2>3. \A j \in JobsOf(r) : Unsent(r, j) /\ Unsent(r, j)'
    BY <2>1, <2>2 DEF Unsent
  <2>4. Accounts(r)'
    BY <2>1, <2>2, <2>3 DEF Ledger, Accounts, JobsOf
  <2>5. \A q \in Requests \ {r} : \A j \in JobsOf(q) : at'[j] = at[j]
    BY <1>6 DEF AskStream, JobsOf
  <2>6. Own'
    BY <1>6, <2>1 DEF AskStream, Ledger, Own, JobsOf, Shape
  <2>7. \A q \in Requests \ {r} : stream'[q] = stream[q] /\ pending'[q] = pending[q]
    BY <1>6 DEF AskStream, Shape
  <2>8. QED
    BY <2>1, <2>4, <2>5, <2>6, <2>7, OthersKeepLedger
<1>7. ASSUME NEW r \in Requests, Disconnect(r) PROVE Ledger'
  <2>1. r \notin Singles
    BY <1>7, SingleJob DEF Disconnect
  <2>2. /\ stream[r] \in {"waiting", "sending"} /\ stream'[r] = "gone"
        /\ UNCHANGED <<at, pending, done, sends>>
    BY <1>7 DEF Disconnect, Shape, jobVars
  <2>3. \A j \in JobsOf(r) : Unsent(r, j)' <=> Unsent(r, j)
    BY <2>1, <2>2 DEF Unsent
  <2>4. Accounts(r)'
    BY <2>1, <2>2, <2>3 DEF Ledger, Accounts, JobsOf
  <2>5. Own'
    BY <2>2 DEF Ledger, Own, JobsOf
  <2>6. \A q \in Requests \ {r} : stream'[q] = stream[q]
    BY <1>7 DEF Disconnect, Shape
  <2>7. QED
    BY <2>2, <2>4, <2>5, <2>6, OthersKeepLedger
<1>8. CASE UNCHANGED vars
  <2>1. UNCHANGED requestVars /\ UNCHANGED at
    BY <1>8 DEF vars, requestVars
  <2>2. QED
    BY <2>1, TasksKeepLedger
<1>9. QED
  BY <1>1, <1>2, <1>3, <1>4, <1>5, <1>6, <1>7, <1>8 DEF Next, Request, Client

(* The books are always in order.                                          *)
LEMMA LedgerInv == Spec => [](Shape /\ Slots /\ Ledger)
<1>1. Init => Shape /\ Slots /\ Ledger
  <2> SUFFICES ASSUME Init PROVE Ledger
    BY InitShape
  <2>1. Own
    BY DEF Init, Own
  <2>2. ASSUME NEW r \in Requests PROVE Accounts(r)
    <3>1. stream[r] = "new" /\ pending[r] = {} /\ done[r] = {}
      BY DEF Init
    <3>2. \A j \in JobsOf(r) : sends[j] = 0 /\ Unsent(r, j)
      BY <3>1 DEF Init, JobsOf, Unsent
    <3>3. QED
      BY <3>1, <3>2 DEF Accounts
  <2>3. QED
    BY <2>1, <2>2 DEF Ledger
<1>2. Shape /\ Slots /\ Ledger /\ [Next]_vars => Shape' /\ Slots' /\ Ledger'
  BY ShapeStep, SlotsStep, LedgerStep
<1>3. QED
  BY <1>1, <1>2, PTL DEF Spec

(* When a stream says [DONE], each of its emails has been answered, and    *)
(* answered once, in whatever batches the tasks were done.                 *)
THEOREM EveryAnswerOnce == Spec => []AnswersComplete
<1>1. Ledger => AnswersComplete
  <2> SUFFICES ASSUME Ledger, NEW r \in Requests, stream[r] = "finished", NEW j \in JobsOf(r)
               PROVE  at[j] = "finished" /\ sends[j] = 1
    BY DEF AnswersComplete
  <2>1. ~ Unsent(r, j)
    BY DEF Ledger, Accounts, Unsent
  <2>2. QED
    BY <2>1 DEF Ledger, Accounts
<1>2. QED
  BY <1>1, LedgerInv, PTL
-----------------------------------------------------------------------------
(* The ports.                                                              *)

(* The port of a job is one of the pool, or the one that was asked for.    *)
LEMMA FirstPortType == ASSUME NEW j \in Jobs PROVE FirstPort(j) \in Nat
<1>1. PICK r \in Requests : j \in {r} \X (1 .. Size[r])
  BY DEF Jobs
<1>2. j[1] = r /\ j[2] \in 1 .. Size[r] /\ Size[r] \in Nat
  BY <1>1, StreamAssumption
<1>3. Pool \in Seq(Nat) /\ Len(Pool) \in Nat \ {0}
  BY StreamAssumption, EmptySeq
<1>4. ((j[2] - 1) % Len(Pool)) + 1 \in 1 .. Len(Pool)
  BY <1>2, <1>3
<1>5. Pool[((j[2] - 1) % Len(Pool)) + 1] \in Nat
  BY <1>3, <1>4, ElementOfSeq
<1>6. QED
  BY <1>2, <1>5, StreamAssumption DEF FirstPort, Requests

(* What is left of a sequence without repetitions when one of its elements *)
(* is taken out.                                                           *)
LEMMA RemovedFirst ==
  ASSUME NEW s \in Seq(Nat), \A a, b \in DOMAIN s : s[a] = s[b] => a = b, NEW e
  PROVE  /\ RemoveFirst(s, e) \in Seq(Nat)
         /\ LET t == RemoveFirst(s, e) IN
            /\ \A a, b \in 1 .. Len(t) : t[a] = t[b] => a = b
            /\ \A a \in 1 .. Len(t) : t[a] # e
            /\ \A i \in 1 .. Len(s) : s[i] = e \/ \E a \in 1 .. Len(t) : t[a] = s[i]
<1>0. Len(s) \in Nat /\ DOMAIN s = 1 .. Len(s) /\ \A i \in 1 .. Len(s) : s[i] \in Nat
  BY ElementOfSeq, LenProperties
<1>1. CASE \E i \in 1 .. Len(s) : s[i] = e
  <2>1. PICK k \in 1 .. Len(s) : s[k] = e
    BY <1>1
  <2>2. {i \in 1 .. Len(s) : s[i] = e} = {k}
    BY <1>0, <2>1
  <2>3. SelectInSeq(s, LAMBDA v : v = e) = k
    BY <1>0, <2>1, <2>2 DEF SelectInSeq, Min
  <2>4. RemoveFirst(s, e) = SubSeq(s, 1, k - 1) \o SubSeq(s, k + 1, Len(s))
    BY <1>1, <2>3 DEF RemoveFirst, RemoveAt
  <2> DEFINE u == SubSeq(s, 1, k - 1)
             v == SubSeq(s, k + 1, Len(s))
  <2>5. /\ u \in Seq(Nat) /\ Len(u) = k - 1
        /\ \A i \in 1 .. k - 1 : u[i] = s[i]
    BY <1>0, <2>1, SubSeqProperties
  <2>6. /\ v \in Seq(Nat) /\ Len(v) = Len(s) - k
        /\ \A i \in 1 .. Len(s) - k : v[i] = s[k + i]
    <3>1. /\ k + 1 \in Int /\ Len(s) \in Int
          /\ \A i \in k + 1 .. Len(s) : s[i] \in Nat
      BY <1>0, <2>1
    <3>2. /\ SubSeq(s, k + 1, Len(s)) \in Seq(Nat)
          /\ Len(SubSeq(s, k + 1, Len(s))) = IF k + 1 <= Len(s) THEN Len(s) - (k + 1) + 1 ELSE 0
          /\ \A i \in 1 .. Len(s) - (k + 1) + 1 :
               SubSeq(s, k + 1, Len(s))[i] = s[(k + 1) + i - 1]
      BY <3>1, SubSeqProperties
    <3>3. Len(v) = Len(s) - k /\ Len(s) - (k + 1) + 1 = Len(s) - k
      <4>1. Len(v) = IF k + 1 <= Len(s) THEN Len(s) - (k + 1) + 1 ELSE 0
        BY <3>2
      <4> HIDE DEF v
      <4>2. k \in Nat /\ Len(s) \in Nat /\ k <= Len(s)
        BY <1>0, <2>1
      <4>3. CASE k + 1 <= Len(s)
        BY <4>1, <4>2, <4>3
      <4>4. CASE ~ (k + 1 <= Len(s))
        <5>1. k = Len(s)
          BY <4>2, <4>4
        <5>2. QED
          BY <4>1, <4>2, <4>4, <5>1
      <4>5. QED
        BY <4>3, <4>4
    <3>4. ASSUME NEW i \in 1 .. Len(s) - k PROVE v[i] = s[k + i]
      <4>1. (k + 1) + i - 1 = k + i
        BY <1>0, <2>1
      <4>2. v[i] = s[(k + 1) + i - 1]
        BY <3>2, <3>3
      <4>3. QED
        BY <4>1, <4>2
    <3>5. QED
      BY <3>2, <3>3, <3>4
  <2> HIDE DEF u, v
  <2> DEFINE t == u \o v
  <2>7. /\ t \in Seq(Nat) /\ Len(t) = Len(s) - 1
        /\ \A i \in 1 .. k - 1 : t[i] = s[i]
        /\ \A i \in k .. Len(s) - 1 : t[i] = s[i + 1]
    <3>1. /\ u \o v \in Seq(Nat)
          /\ Len(u \o v) = Len(u) + Len(v)
          /\ \A i \in 1 .. Len(u) + Len(v) :
               (u \o v)[i] = IF i <= Len(u) THEN u[i] ELSE v[i - Len(u)]
      BY <2>5, <2>6, ConcatProperties
    <3>2. Len(u) + Len(v) = Len(s) - 1
      BY <1>0, <2>1, <2>5, <2>6
    <3>3. ASSUME NEW i \in 1 .. k - 1 PROVE t[i] = s[i]
      <4>1. i \in 1 .. Len(u) + Len(v) /\ i <= Len(u)
        BY <1>0, <2>1, <2>5, <3>2
      <4>2. QED
        BY <2>5, <3>1, <4>1
    <3>4. ASSUME NEW i \in k .. Len(s) - 1 PROVE t[i] = s[i + 1]
      <4>1. /\ i \in 1 .. Len(u) + Len(v) /\ ~ (i <= Len(u))
            /\ i - Len(u) \in 1 .. Len(s) - k /\ k + (i - Len(u)) = i + 1
        BY <1>0, <2>1, <2>5, <3>2
      <4>2. t[i] = v[i - Len(u)]
        BY <3>1, <4>1
      <4>3. QED
        BY <2>6, <4>1, <4>2
    <3>5. QED
      BY <3>1, <3>2, <3>3, <3>4
  <2>8. RemoveFirst(s, e) = t
    BY <2>4 DEF u, v
  <2> HIDE DEF t
  <2>9. \A a \in 1 .. Len(t) : \E i \in 1 .. Len(s) \ {k} :
          /\ t[a] = s[i]
          /\ i = IF a < k THEN a ELSE a + 1
    <3> TAKE a \in 1 .. Len(t)
    <3>1. CASE a < k
      <4>1. a \in 1 .. Len(s) \ {k} /\ a \in 1 .. k - 1
        BY <1>0, <2>1, <2>7, <3>1
      <4>2. QED
        BY <2>7, <3>1, <4>1
    <3>2. CASE ~ (a < k)
      <4>1. a + 1 \in 1 .. Len(s) \ {k} /\ a \in k .. Len(s) - 1
        BY <1>0, <2>1, <2>7, <3>2
      <4>2. QED
        BY <2>7, <3>2, <4>1
    <3>3. QED
      BY <3>1, <3>2
  <2>10. \A a \in 1 .. Len(t) : t[a] # e
    BY <1>0, <2>1, <2>9
  <2>11. ASSUME NEW a \in 1 .. Len(t), NEW b \in 1 .. Len(t), t[a] = t[b] PROVE a = b
    <3>1. PICK i \in 1 .. Len(s) \ {k} : t[a] = s[i] /\ i = IF a < k THEN a ELSE a + 1
      BY <2>9
    <3>2. PICK l \in 1 .. Len(s) \ {k} : t[b] = s[l] /\ l = IF b < k THEN b ELSE b + 1
      BY <2>9
    <3>3. i = l
      BY <1>0, <2>11, <3>1, <3>2
    <3>4. a \in Nat /\ b \in Nat
      BY <1>0, <2>7
    <3>5. QED
      BY <2>1, <3>1, <3>2, <3>3, <3>4
  <2>12. ASSUME NEW i \in 1 .. Len(s), s[i] # e PROVE \E a \in 1 .. Len(t) : t[a] = s[i]
    <3>1. CASE i < k
      <4>1. i \in 1 .. k - 1 /\ i \in 1 .. Len(t)
        BY <1>0, <2>1, <2>7, <3>1
      <4>2. QED
        BY <2>7, <4>1
    <3>2. CASE i > k
      <4>1. i - 1 \in k .. Len(s) - 1 /\ i - 1 \in 1 .. Len(t) /\ (i - 1) + 1 = i
        BY <1>0, <2>1, <2>7, <3>2
      <4>2. t[i - 1] = s[i]
        BY <2>7, <4>1
      <4>3. QED
        BY <4>1, <4>2
    <3>3. QED
      BY <1>0, <2>1, <2>12, <3>1, <3>2
  <2>13. QED
    BY <2>7, <2>8, <2>10, <2>11, <2>12
<1>2. CASE ~ \E i \in 1 .. Len(s) : s[i] = e
  <2>1. RemoveFirst(s, e) = s
    BY <1>2 DEF RemoveFirst
  <2>2. QED
    BY <1>0, <1>2, <2>1
<1>3. QED
  BY <1>1, <1>2

(* The ports of a job are different, no more than MaxTries, and all of the *)
(* pool unless they are as many as that.                                   *)
LEMMA PortsDiffer ==
  ASSUME NEW j \in Jobs
  PROVE  /\ Ports(j) \in Seq(Nat)
         /\ Len(Ports(j)) \in 1 .. MaxTries
         /\ \A a, b \in 1 .. Len(Ports(j)) : Ports(j)[a] = Ports(j)[b] => a = b
         /\ Len(Ports(j)) = MaxTries \/ \A i \in DOMAIN Pool :
              \E a \in 1 .. Len(Ports(j)) : Ports(j)[a] = Pool[i]
<1> DEFINE f == FirstPort(j)
           t == RemoveFirst(Pool, f)
           all == <<f>> \o t
           m == IF Len(all) < MaxTries THEN Len(all) ELSE MaxTries
<1>1. f \in Nat
  BY FirstPortType
<1>2. /\ t \in Seq(Nat)
      /\ \A a, b \in 1 .. Len(t) : t[a] = t[b] => a = b
      /\ \A a \in 1 .. Len(t) : t[a] # f
      /\ \A i \in 1 .. Len(Pool) : Pool[i] = f \/ \E a \in 1 .. Len(t) : t[a] = Pool[i]
  BY StreamAssumption, RemovedFirst
<1>3. Ports(j) = SubSeq(all, 1, m)
  BY DEF Ports
<1> HIDE DEF f, t
<1>4. Len(t) \in Nat
  BY <1>2, LenProperties
<1>5. /\ all \in Seq(Nat) /\ Len(all) = Len(t) + 1
      /\ all[1] = f
      /\ \A a \in 1 .. Len(t) : all[a + 1] = t[a]
  <2>1. <<f>> \in Seq(Nat) /\ Len(<<f>>) = 1 /\ <<f>>[1] = f
    BY <1>1
  <2>2. /\ all \in Seq(Nat)
        /\ Len(all) = Len(<<f>>) + Len(t)
        /\ \A i \in 1 .. Len(<<f>>) + Len(t) :
             all[i] = IF i <= Len(<<f>>) THEN <<f>>[i] ELSE t[i - Len(<<f>>)]
    BY <1>2, <2>1, ConcatProperties
  <2> HIDE DEF all
  <2>3. Len(all) = Len(t) + 1
    BY <1>4, <2>1, <2>2
  <2>4. all[1] = f
    BY <1>4, <2>1, <2>2
  <2>5. ASSUME NEW a \in 1 .. Len(t) PROVE all[a + 1] = t[a]
    <3>1. /\ a + 1 \in 1 .. Len(<<f>>) + Len(t) /\ ~ (a + 1 <= Len(<<f>>))
          /\ (a + 1) - Len(<<f>>) = a
      BY <1>4, <2>1
    <3>2. QED
      BY <2>2, <3>1
  <2>6. QED
    BY <2>2, <2>3, <2>4, <2>5
<1> HIDE DEF all
<1>6. ASSUME NEW a \in 1 .. Len(all)
      PROVE  (a = 1 /\ all[a] = f) \/ \E c \in 1 .. Len(t) : a = c + 1 /\ all[a] = t[c]
  <2>1. CASE a = 1
    BY <1>5, <2>1
  <2>2. CASE a # 1
    <3>1. a - 1 \in 1 .. Len(t) /\ a = (a - 1) + 1
      BY <1>4, <1>5, <2>2
    <3>2. all[a] = t[a - 1]
      BY <1>5, <3>1
    <3>3. QED
      BY <3>1, <3>2
  <2>3. QED
    BY <2>1, <2>2
<1>7. \A a, b \in 1 .. Len(all) : all[a] = all[b] => a = b
  <2> SUFFICES ASSUME NEW a \in 1 .. Len(all), NEW b \in 1 .. Len(all), all[a] = all[b]
               PROVE  a = b
    OBVIOUS
  <2>1. (a = 1 /\ all[a] = f) \/ \E c \in 1 .. Len(t) : a = c + 1 /\ all[a] = t[c]
    BY <1>6
  <2>2. (b = 1 /\ all[b] = f) \/ \E d \in 1 .. Len(t) : b = d + 1 /\ all[b] = t[d]
    BY <1>6
  <2>3. QED
    BY <1>2, <2>1, <2>2
<1>8. \A i \in 1 .. Len(Pool) : \E a \in 1 .. Len(all) : all[a] = Pool[i]
  <2> TAKE i \in 1 .. Len(Pool)
  <2>1. CASE Pool[i] = f
    <3>1. 1 \in 1 .. Len(all)
      BY <1>4, <1>5
    <3>2. QED
      BY <1>5, <2>1, <3>1
  <2>2. CASE Pool[i] # f
    <3>1. PICK a \in 1 .. Len(t) : t[a] = Pool[i]
      BY <1>2, <2>2
    <3>2. a + 1 \in 1 .. Len(all)
      BY <1>4, <1>5
    <3>3. QED
      BY <1>5, <3>1, <3>2
  <2>3. QED
    BY <2>1, <2>2
<1>9. m \in 1 .. MaxTries /\ m <= Len(all) /\ (m = Len(all) \/ m = MaxTries)
  BY <1>4, <1>5, StreamAssumption
<1> HIDE DEF m
<1>10. /\ Ports(j) \in Seq(Nat) /\ Len(Ports(j)) = m
       /\ \A a \in 1 .. m : Ports(j)[a] = all[a]
  <2>1. m \in Nat /\ MaxTries \in Nat
    BY <1>9, StreamAssumption
  <2>2. \A a \in 1 .. m : all[a] \in Nat
    <3>1. \A a \in 1 .. Len(all) : all[a] \in Nat
      BY <1>5, ElementOfSeq
    <3>2. QED
      BY <1>4, <1>5, <1>9, <3>1
  <2>3. /\ SubSeq(all, 1, m) \in Seq(Nat)
        /\ Len(SubSeq(all, 1, m)) = IF 1 <= m THEN m - 1 + 1 ELSE 0
        /\ \A i \in 1 .. m - 1 + 1 : SubSeq(all, 1, m)[i] = all[1 + i - 1]
    BY <2>1, <2>2, SubSeqProperties
  <2>4. Len(Ports(j)) = m
    <3>1. 1 <= m /\ m - 1 + 1 = m
      BY <1>9, <2>1
    <3>2. QED
      BY <1>3, <2>3, <3>1
  <2>5. ASSUME NEW a \in 1 .. m PROVE Ports(j)[a] = all[a]
    <3>1. a \in 1 .. m - 1 + 1 /\ 1 + a - 1 = a
      BY <2>1
    <3>2. QED
      BY <1>3, <2>3, <3>1
  <2>6. QED
    BY <1>3, <2>3, <2>4, <2>5
<1>11. \A a, b \in 1 .. m : Ports(j)[a] = Ports(j)[b] => a = b
  BY <1>4, <1>5, <1>7, <1>9, <1>10
<1>12. DOMAIN Pool = 1 .. Len(Pool)
  BY StreamAssumption, LenProperties
<1>13. QED
  BY <1>8, <1>9, <1>10, <1>11, <1>12

(* A job is tried on its ports in their order; it is started again only    *)
(* while there is one left, and says "blacklisted" only when there is none.*)
InOrder(j) ==
  /\ tried[j] \in Seq(Nat)
  /\ Len(tried[j]) <= Len(Ports(j))
  /\ \A a \in 1 .. Len(tried[j]) : tried[j][a] = Ports(j)[a]
  /\ at[j] \in {"none", "waiting"} => Len(tried[j]) = 0
  /\ at[j] = "spawning" => Len(tried[j]) < Len(Ports(j))
  /\ result[j] \in {"none"} \cup Answers
  /\ result[j] # "none" => at[j] = "finished"
  /\ result[j] = "blacklisted" => Len(tried[j]) = Len(Ports(j))

Rotation ==
  /\ tried \in [Jobs -> Seq(Nat)]
  /\ result \in [Jobs -> {"none"} \cup Answers]
  /\ \A j \in Jobs : InOrder(j)

(* Steps that leave the tries alone and start nobody again keep the order. *)
LEMMA OrderFrame ==
  ASSUME Rotation, UNCHANGED <<tried, result>>,
         \A j \in Jobs :
           \/ at'[j] = at[j]
           \/ at[j] = "none" /\ at'[j] \in {"waiting", "spawning"}
           \/ at[j] = "waiting" /\ at'[j] = "spawning"
           \/ at[j] = "trying" /\ at'[j] = "terminating"
  PROVE  Rotation'
<1>1. ASSUME NEW j \in Jobs PROVE InOrder(j)'
  <2>1. InOrder(j) /\ tried'[j] = tried[j] /\ result'[j] = result[j]
    BY DEF Rotation
  <2>2. Ports(j)' = Ports(j) /\ Len(Ports(j)) \in 1 .. MaxTries
    BY PortsDiffer DEF Ports, FirstPort
  <2>3. at[j] \in {"none", "waiting"} => Len(tried[j]) < Len(Ports(j))
    BY <2>1, <2>2, StreamAssumption DEF InOrder
  <2>4. result[j] # "none" => at'[j] = "finished"
    BY <2>1 DEF InOrder
  <2>5. at'[j] \in {"none", "waiting"} => Len(tried[j]) = 0
    BY <2>1 DEF InOrder
  <2>6. at'[j] = "spawning" => Len(tried[j]) < Len(Ports(j))
    BY <2>1, <2>3 DEF InOrder
  <2>7. QED
    BY <2>1, <2>2, <2>4, <2>5, <2>6 DEF InOrder
<1>2. QED
  BY <1>1 DEF Rotation

(* So do steps of one task that keep its own order.                        *)
LEMMA OrderOfOne ==
  ASSUME Rotation, NEW j \in Jobs, InOrder(j)',
         tried' \in [Jobs -> Seq(Nat)], result' \in [Jobs -> {"none"} \cup Answers],
         \A k \in Jobs \ {j} :
           at'[k] = at[k] /\ tried'[k] = tried[k] /\ result'[k] = result[k]
  PROVE  Rotation'
<1>1. ASSUME NEW k \in Jobs \ {j} PROVE InOrder(k)'
  <2>1. Ports(k)' = Ports(k)
    BY DEF Ports, FirstPort
  <2>2. InOrder(k)
    BY DEF Rotation
  <2>3. at'[k] = at[k] /\ tried'[k] = tried[k] /\ result'[k] = result[k]
    OBVIOUS
  <2>4. QED
    BY <2>1, <2>2, <2>3 DEF InOrder
<1>2. QED
  BY <1>1 DEF Rotation

LEMMA RotationStep == Shape /\ Slots /\ Rotation /\ [Next]_vars => Rotation'
<1> SUFFICES ASSUME Shape, Slots, Rotation, [Next]_vars PROVE Rotation'
  OBVIOUS
<1>1. ASSUME NEW j \in Jobs, Start(j) PROVE Rotation'
  BY <1>1, OrderFrame DEF Start, Shape
<1>2. ASSUME NEW j \in Jobs, Spawn(j) PROVE Rotation'
  <2> DEFINE n == Len(tried[j])
  <2>1. InOrder(j) /\ at[j] = "spawning"
    BY <1>2 DEF Spawn, Rotation
  <2>2. /\ Ports(j) \in Seq(Nat) /\ Len(Ports(j)) \in Nat /\ Ports(j)' = Ports(j)
        /\ n \in Nat /\ n + 1 \in 1 .. Len(Ports(j))
    <3>1. Ports(j)' = Ports(j)
      BY DEF Ports, FirstPort
    <3>2. Ports(j) \in Seq(Nat) /\ Len(Ports(j)) \in Nat
      BY PortsDiffer, LenProperties
    <3>3. n \in Nat /\ n < Len(Ports(j))
      BY <2>1, LenProperties DEF InOrder
    <3>4. QED
      BY <3>1, <3>2, <3>3
  <2>3. Ports(j)[n + 1] \in Nat
    BY <2>2, ElementOfSeq
  <2>4. tried'[j] = Append(tried[j], Ports(j)[n + 1])
    BY <1>2 DEF Spawn, Rotation
  <2>5. /\ tried'[j] \in Seq(Nat)
        /\ Len(tried'[j]) = n + 1
        /\ \A i \in 1 .. n : tried'[j][i] = tried[j][i]
        /\ tried'[j][n + 1] = Ports(j)[n + 1]
    BY <2>1, <2>3, <2>4, AppendProperties DEF InOrder
  <2>6. \A a \in 1 .. n + 1 : tried'[j][a] = Ports(j)[a]
    <3> TAKE a \in 1 .. n + 1
    <3>1. CASE a = n + 1
      BY <2>5, <3>1
    <3>2. CASE a # n + 1
      <4>1. a \in 1 .. n
        BY <2>2, <3>2
      <4>2. QED
        BY <2>1, <2>5, <4>1 DEF InOrder
    <3>3. QED
      BY <3>1, <3>2
  <2>7. result[j] = "none"
    BY <2>1 DEF InOrder
  <2>8. \/ at'[j] = "trying" /\ result'[j] = "none"
        \/ at'[j] = "finished" /\ result'[j] = "error"
    BY <1>2, <2>7 DEF Spawn, Return, Shape, Rotation
  <2>9. InOrder(j)'
    BY <2>2, <2>5, <2>6, <2>8 DEF InOrder, Answers
  <2>10. tried' \in [Jobs -> Seq(Nat)]
    BY <1>2, <2>4, <2>5 DEF Spawn, Rotation
  <2>11. result' \in [Jobs -> {"none"} \cup Answers]
    BY <1>2 DEF Spawn, Return, Rotation, Answers
  <2>12. \A k \in Jobs \ {j} :
           at'[k] = at[k] /\ tried'[k] = tried[k] /\ result'[k] = result[k]
    BY <1>2 DEF Spawn, Return, Shape, Rotation
  <2>13. QED
    BY <2>9, <2>10, <2>11, <2>12, OrderOfOne
<1>3. ASSUME NEW j \in Jobs, TakeAnswer(j) PROVE Rotation'
  <2>1. InOrder(j) /\ at[j] = "trying" /\ UNCHANGED tried
    BY <1>3 DEF TakeAnswer, Rotation
  <2>2. Ports(j)' = Ports(j) /\ Len(Ports(j)) \in Nat /\ Len(tried[j]) \in Nat
    <3>1. Ports(j)' = Ports(j)
      BY DEF Ports, FirstPort
    <3>2. Len(Ports(j)) \in Nat
      BY PortsDiffer, LenProperties
    <3>3. Len(tried[j]) \in Nat
      BY <2>1, LenProperties DEF InOrder
    <3>4. QED
      BY <3>1, <3>2, <3>3
  <2>3. child[j] \in Answers /\ result[j] = "none"
    BY <1>3, <2>1 DEF TakeAnswer, InOrder
  <2>4. \/ /\ Len(tried[j]) < Len(Ports(j))
           /\ at'[j] = "spawning" /\ result'[j] = "none"
        \/ /\ child[j] # "blacklisted" \/ ~ (Len(tried[j]) < Len(Ports(j)))
           /\ at'[j] = "finished" /\ result'[j] = child[j]
    BY <1>3, <2>3 DEF TakeAnswer, Return, Shape, Rotation
  <2>5. result'[j] = "blacklisted" => Len(tried[j]) = Len(Ports(j))
    BY <2>1, <2>2, <2>4 DEF InOrder
  <2>6. InOrder(j)'
    BY <2>1, <2>2, <2>3, <2>4, <2>5 DEF InOrder
  <2>7. result' \in [Jobs -> {"none"} \cup Answers]
    BY <1>3, <2>3 DEF TakeAnswer, Return, Rotation
  <2>8. \A k \in Jobs \ {j} :
          at'[k] = at[k] /\ tried'[k] = tried[k] /\ result'[k] = result[k]
    BY <1>3 DEF TakeAnswer, Return, Shape, Rotation
  <2>9. tried' \in [Jobs -> Seq(Nat)]
    BY <2>1 DEF Rotation
  <2>10. QED
    BY <2>6, <2>7, <2>8, <2>9, OrderOfOne
<1>4. ASSUME NEW j \in Jobs, Reaped(j) PROVE Rotation'
  <2>1. InOrder(j) /\ at[j] = "terminating" /\ UNCHANGED tried
    BY <1>4 DEF Reaped, Rotation
  <2>2. Ports(j)' = Ports(j)
    BY DEF Ports, FirstPort
  <2>3. at'[j] = "finished" /\ result'[j] = "error"
    BY <1>4 DEF Reaped, Return, Shape, Rotation
  <2>4. InOrder(j)'
    BY <2>1, <2>2, <2>3 DEF InOrder, Answers
  <2>5. result' \in [Jobs -> {"none"} \cup Answers]
    BY <1>4 DEF Reaped, Return, Rotation, Answers
  <2>6. \A k \in Jobs \ {j} :
          at'[k] = at[k] /\ tried'[k] = tried[k] /\ result'[k] = result[k]
    BY <1>4 DEF Reaped, Return, Shape, Rotation
  <2>7. tried' \in [Jobs -> Seq(Nat)]
    BY <2>1 DEF Rotation
  <2>8. QED
    BY <2>4, <2>5, <2>6, <2>7, OrderOfOne
<1>5. ASSUME NEW j \in Jobs, Late(j) PROVE Rotation'
  BY <1>5, OrderFrame DEF Late, Shape
<1>6. ASSUME NEW j \in Jobs, Exit(j) PROVE Rotation'
  BY <1>6, OrderFrame DEF Exit
<1>7. ASSUME NEW r \in Requests, Reply(r) \/ Collect(r) \/ Send(r) \/ Disconnect(r)
      PROVE  Rotation'
  BY <1>7, OrderFrame DEF Reply, Collect, Send, Disconnect, jobVars
<1>8. ASSUME NEW r \in Requests, AskSingle(r) PROVE Rotation'
  <2>1. <<r, 1>> \in JobsOf(r)
    BY <1>8, SingleJob DEF AskSingle
  <2>2. at[<<r, 1>>] = "none"
    BY <1>8, <2>1 DEF AskSingle, Slots
  <2>3. QED
    BY <1>8, <2>2, OrderFrame DEF AskSingle, Shape
<1>9. ASSUME NEW r \in Requests, AskStream(r) PROVE Rotation'
  <2>1. \A j \in Jobs : j[1] = r => at[j] = "none"
    BY <1>9 DEF AskStream, Slots, JobsOf
  <2>2. QED
    BY <1>9, <2>1, OrderFrame DEF AskStream
<1>10. CASE UNCHANGED vars
  BY <1>10, OrderFrame DEF vars
<1>11. QED
  BY <1>1, <1>2, <1>3, <1>4, <1>5, <1>6, <1>7, <1>8, <1>9, <1>10 DEF Next, Task, Request, Client

LEMMA RotationInv == Spec => [](Shape /\ Slots /\ Rotation)
<1>1. Init => Rotation
  <2> SUFFICES ASSUME Init, NEW j \in Jobs PROVE InOrder(j)
    BY EmptySeq DEF Init, Rotation, Answers
  <2>1. tried[j] = <<>> /\ <<>> \in Seq(Nat) /\ Len(<<>>) = 0
    BY EmptySeq DEF Init
  <2>2. QED
    BY <2>1, PortsDiffer, StreamAssumption DEF Init, InOrder
<1>2. Shape /\ Slots /\ Rotation /\ [Next]_vars => (Shape /\ Slots /\ Rotation)'
  BY ShapeStep, SlotsStep, RotationStep
<1>3. QED
  BY <1>1, <1>2, InitShape, PTL DEF Spec

(* No email is tried twice on a port or more than MaxTries times, and      *)
(* "blacklisted" is final only when there is no port left to try: for any  *)
(* pool, any limit and any port that a single request asks for.            *)
THEOREM RotatesFirst == Spec => []RotatesBeforeGivingUp
<1>1. Rotation => RotatesBeforeGivingUp
  <2> SUFFICES ASSUME Rotation, NEW j \in Jobs
               PROVE  /\ \A a, b \in DOMAIN tried[j] : tried[j][a] = tried[j][b] => a = b
                      /\ Len(tried[j]) <= MaxTries
                      /\ result[j] = "blacklisted" =>
                           Len(tried[j]) = MaxTries
                             \/ \A i \in DOMAIN Pool : \E a \in DOMAIN tried[j] : tried[j][a] = Pool[i]
    BY DEF RotatesBeforeGivingUp
  <2>1. InOrder(j) /\ DOMAIN tried[j] = 1 .. Len(tried[j]) /\ Len(tried[j]) \in Nat
    BY LenProperties DEF Rotation, InOrder
  <2>2. Len(Ports(j)) \in Nat /\ Len(Ports(j)) <= MaxTries /\ MaxTries \in Nat
    BY PortsDiffer, StreamAssumption
  <2>3. Len(tried[j]) <= Len(Ports(j)) /\ \A a \in 1 .. Len(tried[j]) : tried[j][a] = Ports(j)[a]
    BY <2>1 DEF InOrder
  <2>4. \A a, b \in 1 .. Len(tried[j]) : tried[j][a] = tried[j][b] => a = b
    <3>1. \A a \in 1 .. Len(tried[j]) : a \in 1 .. Len(Ports(j))
      BY <2>1, <2>2, <2>3
    <3>2. QED
      BY <2>3, <3>1, PortsDiffer
  <2>5. ASSUME result[j] = "blacklisted", Len(tried[j]) # MaxTries, NEW i \in DOMAIN Pool
        PROVE  \E a \in 1 .. Len(tried[j]) : tried[j][a] = Pool[i]
    <3>1. Len(tried[j]) = Len(Ports(j))
      BY <2>1, <2>5 DEF InOrder
    <3>2. QED
      BY <2>3, <2>5, <3>1, PortsDiffer
  <2>6. QED
    BY <2>1, <2>2, <2>3, <2>4, <2>5
<1>2. QED
  BY <1>1, RotationInv, PTL

(* Every variable keeps its type, and no job is waited for and about to be *)
(* sent at once.                                                           *)
THEOREM TypeCorrect == Spec => []TypeOK
<1>1. Shape /\ Rotation /\ Ledger => TypeOK
  BY DEF Shape, Rotation, Ledger, Accounts, TypeOK
<1>2. QED
  BY <1>1, RotationInv, LedgerInv, PTL
=============================================================================
