------------------------------ MODULE Throttle ------------------------------
(***************************************************************************)
(* The request throttle, backend/src/throttle.rs: four fixed windows       *)
(* (second, minute, hour, day) with one counter each, kept behind one      *)
(* tokio mutex and shared by every caller of a backend process.            *)
(*                                                                         *)
(* A caller is the consumer loop of the worker (worker/consume.rs) or one  *)
(* HTTP handler of POST /v1/check_email.  All of them call                 *)
(* check_throttle; the ones in Counting call increment_counters later, in  *)
(* a second critical section:                                              *)
(*   - the consumer loop, once it has spawned the task;                    *)
(*   - a handler that verifies without a worker, once check_email is done. *)
(* A handler that publishes to the worker only checks.                     *)
(***************************************************************************)
EXTENDS Integers, FiniteSets

CONSTANTS
  N,          \* number of windows; window k is the k-th that should_throttle tests
  Length,     \* Length[k]: the duration of window k, in clock units
  Limit,      \* Limit[k]: the configured maximum of window k, or NoLimit
  NoLimit,
  Callers,    \* the consumer loop and the HTTP handlers of one process
  Counting,   \* the callers that increment the counters once admitted
  NoCaller,
  Horizon     \* bound on the clock

Windows == 1 .. N

ASSUME ThrottleAssumption ==
  /\ N \in Nat
  /\ Length \in [Windows -> Nat \ {0}]
  /\ Limit \in [Windows -> Nat \cup {NoLimit}]
  /\ NoLimit \notin Nat
  /\ IsFiniteSet(Callers)
  /\ Counting \subseteq Callers
  /\ Counting # {}
  /\ NoCaller \notin Callers
  /\ Horizon \in Nat

VARIABLES
  now,        \* Instant::now()
  count,      \* requests_per_second, ..._minute, ..._hour, ..._day
  lastReset,  \* last_reset_second, ...
  lock,       \* holder of ThrottleManager.inner, while it spans two clock reads
  pc,         \* where each caller is
  verdict,    \* the last ThrottleResult each caller got
  started     \* how many verifications were counted at each instant (observation)

vars == <<now, count, lastReset, lock, pc, verdict, started>>

NoVerdict == [limit |-> 0, at |-> 0, delay |-> 0]
Verdicts  == [limit : 0 .. N, at : Nat, delay : Nat]
Places    == {"idle", "deciding", "admitted", "panicked"}

Init ==
  /\ now = 0
  /\ count = [k \in Windows |-> 0]
  /\ lastReset = [k \in Windows |-> 0]
  /\ lock = NoCaller
  /\ pc = [c \in Callers |-> "idle"]
  /\ verdict = [c \in Callers |-> NoVerdict]
  /\ started = [t \in 0 .. Horizon |-> 0]

-----------------------------------------------------------------------------

Expired(k) == now - lastReset[k] >= Length[k]

Exceeded(k) == Limit[k] # NoLimit /\ count[k] >= Limit[k]

\* Bug: an expired counter is cleared but its window is not moved.
ResetKeepsWindow(c) ==
  /\ pc[c] = "idle"
  /\ lock = NoCaller
  /\ lock' = c
  /\ pc' = [pc EXCEPT ![c] = "deciding"]
  /\ count' = [k \in Windows |-> IF Expired(k) THEN 0 ELSE count[k]]
  /\ verdict' = [verdict EXCEPT ![c] = NoVerdict]
  /\ UNCHANGED <<now, lastReset, started>>

\* check_throttle takes the lock and calls reset_if_needed, which reads the
\* clock once and restarts every window that has run out.
ResetIfNeeded(c) ==
  /\ pc[c] = "idle"
  /\ lock = NoCaller
  /\ lock' = c
  /\ pc' = [pc EXCEPT ![c] = "deciding"]
  /\ count' = [k \in Windows |-> IF Expired(k) THEN 0 ELSE count[k]]
  /\ lastReset' = [k \in Windows |-> IF Expired(k) THEN now ELSE lastReset[k]]
  /\ verdict' = [verdict EXCEPT ![c] = NoVerdict]
  /\ UNCHANGED <<now, started>>

\* should_throttle reads the clock a second time.  The first exceeded window
\* is the one reported ...
Refused(c, k) ==
  /\ pc[c] = "deciding"
  /\ Exceeded(k)
  /\ \A j \in Windows : j < k => ~ Exceeded(j)
  /\ lock' = NoCaller
  /\ UNCHANGED <<now, count, lastReset, started>>

\* Bug: the wait is the time already spent in the window.
RefuseElapsed(c, k) ==
  /\ Refused(c, k)
  /\ now - lastReset[k] <= Length[k]
  /\ verdict' = [verdict EXCEPT ![c] =
       [limit |-> k, at |-> now, delay |-> now - lastReset[k]]]
  /\ pc' = [pc EXCEPT ![c] = "idle"]

\* ... with the time left in it ...
Refuse(c, k) ==
  /\ Refused(c, k)
  /\ now - lastReset[k] <= Length[k]
  /\ verdict' = [verdict EXCEPT ![c] =
       [limit |-> k, at |-> now, delay |-> Length[k] - (now - lastReset[k])]]
  /\ pc' = [pc EXCEPT ![c] = "idle"]

\* ... but the subtraction of two Durations panics when the window has run out
\* since the first reading.  The panic ends the caller's task and frees the lock.
RefusePanics(c, k) ==
  /\ Refused(c, k)
  /\ now - lastReset[k] > Length[k]
  /\ pc' = [pc EXCEPT ![c] = "panicked"]
  /\ UNCHANGED verdict

\* Bug: only the window tested first is looked at.
AdmitOnFirst(c) ==
  /\ pc[c] = "deciding"
  /\ ~ Exceeded(1)
  /\ lock' = NoCaller
  /\ pc' = [pc EXCEPT ![c] = IF c \in Counting THEN "admitted" ELSE "idle"]
  /\ UNCHANGED <<now, count, lastReset, verdict, started>>

\* No window is exceeded: should_throttle returns None.
Admit(c) ==
  /\ pc[c] = "deciding"
  /\ \A k \in Windows : ~ Exceeded(k)
  /\ lock' = NoCaller
  /\ pc' = [pc EXCEPT ![c] = IF c \in Counting THEN "admitted" ELSE "idle"]
  /\ UNCHANGED <<now, count, lastReset, verdict, started>>

\* increment_counters takes the lock again and counts in every window.
Increment(c) ==
  /\ pc[c] = "admitted"
  /\ lock = NoCaller
  /\ count' = [k \in Windows |-> count[k] + 1]
  /\ started' = [started EXCEPT ![now] = @ + 1]
  /\ pc' = [pc EXCEPT ![c] = "idle"]
  /\ UNCHANGED <<now, lastReset, lock, verdict>>

\* Time passes, between the two clock readings too.
Tick ==
  /\ now < Horizon
  /\ now' = now + 1
  /\ UNCHANGED <<count, lastReset, lock, pc, verdict, started>>

Next ==
  \/ Tick
  \/ \E c \in Callers :
       \/ ResetIfNeeded(c)
       \/ Admit(c)
       \/ Increment(c)
       \/ \E k \in Windows : Refuse(c, k) \/ RefusePanics(c, k)

Spec == Init /\ [][Next]_vars

-----------------------------------------------------------------------------

\* Type invariant.  A counter and a window's start are natural numbers, the
\* lock is held exactly by the caller that is between its two clock reads.
TypeOK ==
  /\ now \in 0 .. Horizon
  /\ count \in [Windows -> Nat]
  /\ lastReset \in [Windows -> Nat]
  /\ lock \in Callers \cup {NoCaller}
  /\ pc \in [Callers -> Places]
  /\ verdict \in [Callers -> Verdicts]
  /\ started \in [0 .. Horizon -> Nat]
  /\ \A c \in Callers : pc[c] = "deciding" <=> lock = c
  /\ \A c \in Callers : pc[c] = "admitted" => c \in Counting
  /\ \A k \in Windows : lastReset[k] <= now

\* backend_config.toml: "Throttle the maximum number of requests per second".
\* No window counts more verifications than its configured maximum.
WindowLimit ==
  \A k \in Windows : Limit[k] # NoLimit => count[k] <= Limit[k]

\* The check and the increment are two critical sections, so callers that
\* were all admitted before any of them counted exceed the maximum, but never
\* by more than the other callers that count.
OvershootBound ==
  \A k \in Windows :
    Limit[k] # NoLimit => count[k] <= Limit[k] + Cardinality(Counting) - 1

Pending == {c \in Callers : pc[c] = "admitted"}

\* The strengthening behind OvershootBound: a caller that was admitted and has
\* not counted yet is already paid for.  Moving it from Pending to the counter
\* keeps the sum; a caller is only admitted below every maximum.
PendingBound ==
  \A k \in Windows : Limit[k] # NoLimit =>
    count[k] + Cardinality(Pending) <= Limit[k] + Cardinality(Counting) - 1

\* The verifications counted from instant a to instant b; the i-th of instant
\* t is <<t, i>>.
Started(a, b) == UNION {{t} \X (1 .. started[t]) : t \in a .. b}

\* The first instant of the interval that is as long as window k and ends at t.
Earliest(k, t) == IF t >= Length[k] THEN t - Length[k] + 1 ELSE 0

\* What the fixed windows promise of real time: an interval as long as window
\* k touches at most two of its periods, so it never holds more than twice
\* what one period may count.
SlidingBound ==
  \A k \in Windows : Limit[k] # NoLimit =>
    \A t \in 0 .. now :
      Cardinality(Started(Earliest(k, t), t))
        <= 2 * (Limit[k] + Cardinality(Counting) - 1)

\* The delay of a refusal is exact: as long as the window that refused the
\* caller has not been restarted, it has run out when and only when the caller
\* has waited the delay out.
DelayExact ==
  \A c \in Callers :
    LET v == verdict[c] IN
    v.limit # 0 /\ lastReset[v.limit] < v.at
      => (now >= v.at + v.delay <=> Expired(v.limit))

\* throttle.rs: a refusal says "How long to wait before making the next
\* request".  Computing it never ends the caller's task instead.
DelayDefined == \A c \in Callers : pc[c] # "panicked"

=============================================================================
