--------------------------- MODULE ThrottleProofs ---------------------------
(***************************************************************************)
(* Proofs about Throttle, for any number of windows, any limits and any    *)
(* finite set of callers.                                                  *)
(***************************************************************************)
EXTENDS Throttle, FiniteSetTheorems, TLAPS

(* The state of the throttle is always well typed, its lock belongs to the *)
(* caller between the two clock readings of check_throttle, and only a     *)
(* counting caller is ever on its way to increment_counters.               *)
THEOREM TypeCorrect == Spec => []TypeOK
<1> USE ThrottleAssumption DEF TypeOK
<1>1. Init => TypeOK
  <2> SUFFICES ASSUME Init
               PROVE  TypeOK
    OBVIOUS
  <2>1. verdict \in [Callers -> Verdicts]
    BY DEF Init, NoVerdict, Verdicts
  <2>2. pc \in [Callers -> Places]
    BY DEF Init, Places
  <2>3. QED
    BY <2>1, <2>2 DEF Init
<1>2. TypeOK /\ [Next]_vars => TypeOK'
  <2> SUFFICES ASSUME TypeOK, [Next]_vars
               PROVE  TypeOK'
    OBVIOUS
  <2>1. CASE Tick
    BY <2>1 DEF Tick
  <2>2. ASSUME NEW c \in Callers, ResetIfNeeded(c)
        PROVE  TypeOK'
    <3>1. NoVerdict \in Verdicts
      BY DEF NoVerdict, Verdicts
    <3>2. verdict' \in [Callers -> Verdicts]
      BY <2>2, <3>1 DEF ResetIfNeeded
    <3>3. pc' \in [Callers -> Places]
      BY <2>2 DEF ResetIfNeeded, Places
    <3>4. QED
      BY <2>2, <3>2, <3>3 DEF ResetIfNeeded
  <2>3. ASSUME NEW c \in Callers, Admit(c)
        PROVE  TypeOK'
    BY <2>3 DEF Admit, Places
  <2>4. ASSUME NEW c \in Callers, Increment(c)
        PROVE  TypeOK'
    BY <2>4 DEF Increment, Places
  <2>5. ASSUME NEW c \in Callers, NEW k \in Windows, Refuse(c, k)
        PROVE  TypeOK'
    <3>1. /\ now - lastReset[k] \in Nat
          /\ Length[k] - (now - lastReset[k]) \in Nat
      BY <2>5 DEF Refuse
    <3>2. verdict' \in [Callers -> Verdicts]
      BY <2>5, <3>1 DEF Refuse, Verdicts, Windows
    <3>3. QED
      BY <2>5, <3>2 DEF Refuse, Refused, Places
  <2>6. ASSUME NEW c \in Callers, NEW k \in Windows, RefusePanics(c, k)
        PROVE  TypeOK'
    BY <2>6 DEF RefusePanics, Refused, Places
  <2>7. CASE UNCHANGED vars
    BY <2>7 DEF vars
  <2>8. QED
    BY <2>1, <2>2, <2>3, <2>4, <2>5, <2>6, <2>7 DEF Next
<1>3. QED
  BY <1>1, <1>2, PTL DEF Spec

-----------------------------------------------------------------------------

(* The callers that were admitted and have not counted yet are among the   *)
(* counting ones, so there are finitely many of them, at most as many as   *)
(* count.                                                                  *)
LEMMA PendingFinite ==
  ASSUME TypeOK
  PROVE  /\ IsFiniteSet(Pending)
         /\ Cardinality(Pending) \in Nat
         /\ Cardinality(Pending) <= Cardinality(Counting)
         /\ IsFiniteSet(Counting)
         /\ Cardinality(Counting) \in Nat \ {0}
<1>1. IsFiniteSet(Counting)
  BY ThrottleAssumption, FS_Subset
<1>2. Pending \subseteq Counting
  BY DEF TypeOK, Pending
<1>3. Cardinality(Counting) # 0
  BY <1>1, ThrottleAssumption, FS_EmptySet
<1>4. QED
  BY <1>1, <1>2, <1>3, FS_Subset, FS_CardinalityType

(* A window that has a maximum has a natural number for it.                *)
LEMMA LimitType == \A k \in Windows : Limit[k] # NoLimit => Limit[k] \in Nat
BY ThrottleAssumption

(* Check and increment are two critical sections of throttle.rs, and still *)
(* the counter of a window and the callers on their way to it never exceed *)
(* its maximum together by more than the other counting callers.           *)
THEOREM PendingBounded == Spec => []PendingBound
<1> USE ThrottleAssumption, LimitType
<1>1. TypeOK /\ Init => PendingBound
  <2> SUFFICES ASSUME TypeOK, Init
               PROVE  PendingBound
    OBVIOUS
  <2>1. Pending = {}
    BY DEF Init, Pending
  <2>2. Cardinality(Pending) = 0
    BY <2>1, FS_EmptySet
  <2>3. QED
    BY <2>2, PendingFinite DEF Init, PendingBound
<1>2. TypeOK /\ TypeOK' /\ PendingBound /\ [Next]_vars => PendingBound'
  <2> SUFFICES ASSUME TypeOK, TypeOK', PendingBound, [Next]_vars
               PROVE  PendingBound'
    OBVIOUS
  <2>a. IsFiniteSet(Pending) /\ Cardinality(Pending) \in Nat
        /\ Cardinality(Counting) \in Nat \ {0}
    BY PendingFinite
  <2>1. CASE Tick
    BY <2>1 DEF Tick, Pending, PendingBound
  <2>2. ASSUME NEW c \in Callers, ResetIfNeeded(c)
        PROVE  PendingBound'
    <3>1. Pending' = Pending
      BY <2>2 DEF ResetIfNeeded, Pending, TypeOK
    <3>2. \A k \in Windows : count'[k] <= count[k] /\ count'[k] \in Nat
      BY <2>2 DEF ResetIfNeeded, TypeOK
    <3>3. Cardinality(Pending)' = Cardinality(Pending)
      BY <3>1
    <3>4. SUFFICES ASSUME NEW k \in Windows, Limit[k] # NoLimit
                   PROVE  count'[k] + Cardinality(Pending)'
                            <= Limit[k] + Cardinality(Counting) - 1
      BY DEF PendingBound
    <3>5. count[k] \in Nat
      BY DEF TypeOK
    <3>6. count[k] + Cardinality(Pending)
            <= Limit[k] + Cardinality(Counting) - 1
      BY <3>4 DEF PendingBound
    <3>7. QED
      BY <2>a, <3>2, <3>3, <3>4, <3>5, <3>6
  <2>3. ASSUME NEW c \in Callers, Admit(c)
        PROVE  PendingBound'
    <3>1. Cardinality(Pending)' \in Nat
          /\ Cardinality(Pending)' <= Cardinality(Counting)
      <4>1. IsFiniteSet(Counting)
        BY FS_Subset
      <4>2. Pending' \subseteq Counting
        BY DEF TypeOK, Pending
      <4>3. QED
        BY <4>1, <4>2, FS_Subset, FS_CardinalityType
    <3>2. ASSUME NEW k \in Windows, Limit[k] # NoLimit
          PROVE  count'[k] <= Limit[k] - 1 /\ count'[k] \in Nat
      BY <2>3, <3>2 DEF Admit, Exceeded, TypeOK
    <3>3. QED
      BY <2>a, <3>1, <3>2 DEF PendingBound
  <2>4. ASSUME NEW c \in Callers, Increment(c)
        PROVE  PendingBound'
    <3>1. c \in Pending /\ Pending' = Pending \ {c}
      BY <2>4 DEF Increment, Pending, TypeOK
    <3>2. Cardinality(Pending)' = Cardinality(Pending) - 1
      BY <2>a, <3>1, FS_RemoveElement
    <3>3. \A k \in Windows : count'[k] = count[k] + 1 /\ count[k] \in Nat
      BY <2>4 DEF Increment, TypeOK
    <3>4. QED
      BY <2>a, <3>2, <3>3 DEF PendingBound
  <2>5. ASSUME NEW c \in Callers, NEW k \in Windows,
               Refuse(c, k) \/ RefusePanics(c, k)
        PROVE  PendingBound'
    <3>1. Pending' = Pending
      BY <2>5 DEF Refuse, RefusePanics, Refused, Pending, TypeOK
    <3>2. QED
      BY <2>5, <3>1 DEF Refuse, RefusePanics, Refused, PendingBound
  <2>6. CASE UNCHANGED vars
    BY <2>6 DEF vars, Pending, PendingBound
  <2>7. QED
    BY <2>1, <2>2, <2>3, <2>4, <2>5, <2>6 DEF Next
<1>3. QED
  BY <1>1, <1>2, TypeCorrect, PTL DEF Spec

(* However many handlers check and verify at the same time, no window of   *)
(* the throttle counts more than its maximum plus the other callers.       *)
THEOREM OvershootBounded == Spec => []OvershootBound
<1>1. TypeOK /\ PendingBound => OvershootBound
  BY PendingFinite, LimitType DEF TypeOK, PendingBound, OvershootBound
<1>2. QED
  BY <1>1, TypeCorrect, PendingBounded, PTL

(* In worker mode, where only the consumer loop counts, no window ever     *)
(* exceeds its configured maximum, whatever the HTTP handlers check.       *)
THEOREM SingleCounterLimit ==
  ASSUME NEW loop, Counting = {loop}
  PROVE  Spec => []WindowLimit
<1>1. Cardinality(Counting) = 1
  BY FS_Singleton
<1>2. TypeOK /\ OvershootBound => WindowLimit
  <2> SUFFICES ASSUME TypeOK, OvershootBound,
                      NEW k \in Windows, Limit[k] # NoLimit
               PROVE  count[k] <= Limit[k]
    BY DEF WindowLimit
  <2>1. count[k] \in Nat /\ Limit[k] \in Nat
    BY LimitType DEF TypeOK
  <2>2. count[k] <= Limit[k] + 1 - 1
    BY <1>1 DEF OvershootBound
  <2>3. QED
    BY <2>1, <2>2
<1>3. QED
  BY <1>2, TypeCorrect, OvershootBounded, PTL

-----------------------------------------------------------------------------

(* What a refusal told its caller is about the window that refused it, and *)
(* fits that window's end as long as the window has not been restarted.    *)
DelayFits ==
  \A c \in Callers :
    LET v == verdict[c] IN
    v.limit # 0 =>
      /\ v.at <= now
      /\ \/ lastReset[v.limit] >= v.at
         \/ v.at + v.delay = lastReset[v.limit] + Length[v.limit]

LEMMA DelayFitsStep == TypeOK /\ DelayFits /\ [Next]_vars => DelayFits'
<1> SUFFICES ASSUME TypeOK, DelayFits, [Next]_vars PROVE DelayFits'
  OBVIOUS
<1>a. /\ now \in Nat
      /\ \A k \in Windows : lastReset[k] \in Nat /\ lastReset[k] <= now /\ Length[k] \in Nat
      /\ \A c \in Callers : verdict[c] \in Verdicts
  BY ThrottleAssumption DEF TypeOK
<1>b. \A c \in Callers :
        /\ verdict[c].at \in Nat /\ verdict[c].delay \in Nat
        /\ verdict[c].limit # 0 => verdict[c].limit \in Windows
  BY <1>a, ThrottleAssumption DEF Verdicts, Windows
<1>1. CASE Tick
  <2>1. now' = now + 1 /\ UNCHANGED <<lastReset, verdict>>
    BY <1>1 DEF Tick
  <2>2. QED
    BY <1>a, <1>b, <2>1 DEF DelayFits
<1>2. ASSUME NEW c \in Callers, ResetIfNeeded(c) PROVE DelayFits'
  <2>1. /\ now' = now
        /\ verdict' = [verdict EXCEPT ![c] = NoVerdict]
        /\ \A k \in Windows : lastReset'[k] = lastReset[k] \/ lastReset'[k] = now
    BY <1>2 DEF ResetIfNeeded
  <2>2. \A d \in Callers : verdict'[d] = IF d = c THEN NoVerdict ELSE verdict[d]
    BY <2>1 DEF TypeOK
  <2>3. NoVerdict.limit = 0
    BY DEF NoVerdict
  <2>4. ASSUME NEW d \in Callers, verdict'[d].limit # 0
        PROVE  /\ verdict'[d].at <= now'
               /\ \/ lastReset'[verdict'[d].limit] >= verdict'[d].at
                  \/ verdict'[d].at + verdict'[d].delay
                       = lastReset'[verdict'[d].limit] + Length[verdict'[d].limit]
    <3>1. verdict'[d] = verdict[d] /\ verdict[d].limit \in Windows
      BY <1>b, <2>2, <2>3, <2>4
    <3>2. /\ verdict[d].at <= now
          /\ \/ lastReset[verdict[d].limit] >= verdict[d].at
             \/ verdict[d].at + verdict[d].delay
                  = lastReset[verdict[d].limit] + Length[verdict[d].limit]
      BY <2>4, <3>1 DEF DelayFits
    <3>3. QED
      BY <1>a, <1>b, <2>1, <3>1, <3>2
  <2>5. QED
    BY <2>4 DEF DelayFits
<1>3. ASSUME NEW c \in Callers, NEW k \in Windows, Refuse(c, k) PROVE DelayFits'
  <2> DEFINE told == [limit |-> k, at |-> now, delay |-> Length[k] - (now - lastReset[k])]
  <2>1. UNCHANGED <<now, lastReset>> /\ verdict' = [verdict EXCEPT ![c] = told]
    BY <1>3 DEF Refuse, Refused
  <2>2. \A d \in Callers : verdict'[d] = IF d = c THEN told ELSE verdict[d]
    BY <2>1 DEF TypeOK
  <2>3. told.at <= now /\ told.at + told.delay = lastReset[told.limit] + Length[told.limit]
    BY <1>a
  <2> HIDE DEF told
  <2>4. QED
    BY <2>1, <2>2, <2>3 DEF DelayFits
<1>4. CASE UNCHANGED <<now, lastReset, verdict>>
  BY <1>4 DEF DelayFits
<1>5. QED
  BY <1>1, <1>2, <1>3, <1>4
     DEF Next, Admit, Increment, RefusePanics, Refused, vars

(* A caller that waits out the delay it was told finds the window that     *)
(* refused it at its end, and one that comes back earlier does not.        *)
THEOREM DelayAlwaysExact == Spec => []DelayExact
<1>1. Init => DelayFits
  BY DEF Init, DelayFits, NoVerdict
<1>2. TypeOK /\ DelayFits => DelayExact
  <2> SUFFICES ASSUME TypeOK, DelayFits, NEW c \in Callers,
                      verdict[c].limit # 0, lastReset[verdict[c].limit] < verdict[c].at
               PROVE  now >= verdict[c].at + verdict[c].delay <=> Expired(verdict[c].limit)
    BY DEF DelayExact
  <2>1. verdict[c] \in Verdicts
    BY DEF TypeOK
  <2>2. verdict[c].limit \in Windows /\ verdict[c].at \in Nat /\ verdict[c].delay \in Nat
    BY <2>1, ThrottleAssumption DEF Verdicts, Windows
  <2>3. /\ lastReset[verdict[c].limit] \in Nat /\ now \in Nat
        /\ Length[verdict[c].limit] \in Nat
    BY <2>2, ThrottleAssumption DEF TypeOK
  <2>4. verdict[c].at + verdict[c].delay
          = lastReset[verdict[c].limit] + Length[verdict[c].limit]
    BY <2>2, <2>3 DEF DelayFits
  <2>5. QED
    BY <2>2, <2>3, <2>4 DEF Expired
<1>3. QED
  BY <1>1, <1>2, DelayFitsStep, TypeCorrect, PTL DEF Spec

-----------------------------------------------------------------------------
(* Fixed windows and real time.                                            *)

\* What one period of window k may count.
Bound(k) == Limit[k] + Cardinality(Counting) - 1

NothingAhead == \A t \in 0 .. Horizon : t > now => started[t] = 0

(* What was counted since an instant after the last restart of a window is *)
(* in its counter.  What was counted since an instant less than a window   *)
(* before the restart, which the restart before it did not reach, belongs  *)
(* to that period or the one before.                                       *)
PeriodsPaid ==
  \A k \in Windows : Limit[k] # NoLimit =>
    \A a \in 0 .. Horizon :
      /\ a > lastReset[k] => Cardinality(Started(a, now)) <= count[k]
      /\ a + Length[k] > lastReset[k]
           => Cardinality(Started(a, now)) <= Bound(k) + count[k]

\* Of the intervals that end now.
BoundedNow ==
  \A k \in Windows : Limit[k] # NoLimit =>
    Cardinality(Started(Earliest(k, now), now)) <= 2 * Bound(k)

(* Finitely many verifications were counted in any interval.               *)
LEMMA FinitelyMany ==
  ASSUME NEW f \in [0 .. Horizon -> Nat], NEW a \in 0 .. Horizon, NEW b \in 0 .. Horizon
  PROVE  IsFiniteSet(UNION {{t} \X (1 .. f[t]) : t \in a .. b})
<1> DEFINE Of == {{t} \X (1 .. f[t]) : t \in a .. b}
           g  == [t \in a .. b |-> {t} \X (1 .. f[t])]
<1>1. IsFiniteSet(a .. b)
  BY FS_Interval
<1>2. g \in Surjection(a .. b, Of)
  BY DEF Surjection
<1>3. IsFiniteSet(Of)
  BY <1>1, <1>2, FS_Surjection
<1>4. ASSUME NEW t \in a .. b PROVE IsFiniteSet({t} \X (1 .. f[t]))
  <2>1. t \in 0 .. Horizon
    BY ThrottleAssumption
  <2>2. f[t] \in Int
    BY <2>1
  <2>3. IsFiniteSet(1 .. f[t])
    BY ONLY <2>2, 1 \in Int, FS_Interval
  <2>4. IsFiniteSet({t})
    BY FS_Singleton
  <2>5. QED
    BY <2>3, <2>4, FS_Product
<1>5. QED
  BY <1>3, <1>4, FS_UNION

LEMMA StartedFinite ==
  ASSUME NEW a \in 0 .. Horizon, NEW b \in 0 .. Horizon
  PROVE  /\ TypeOK  => IsFiniteSet(Started(a, b)) /\ Cardinality(Started(a, b)) \in Nat
         /\ TypeOK' => IsFiniteSet(Started(a, b)') /\ Cardinality(Started(a, b)') \in Nat
<1>1. TypeOK => IsFiniteSet(Started(a, b))
  BY FinitelyMany DEF TypeOK, Started
<1>2. TypeOK' => IsFiniteSet(Started(a, b)')
  BY FinitelyMany DEF TypeOK, Started
<1>3. QED
  BY <1>1, <1>2, FS_CardinalityType

(* One more verification.                                                  *)
LEMMA AtMostOneMore ==
  ASSUME NEW S, NEW x, IsFiniteSet(S)
  PROVE  IsFiniteSet(S \cup {x}) /\ Cardinality(S \cup {x}) <= Cardinality(S) + 1
<1>1. Cardinality(S) \in Nat
  BY FS_CardinalityType
<1>2. /\ IsFiniteSet(S \cup {x})
      /\ Cardinality(S \cup {x}) = IF x \in S THEN Cardinality(S) ELSE Cardinality(S) + 1
  BY FS_AddElement
<1>3. QED
  BY <1>1, <1>2

LEMMA BoundType ==
  \A k \in Windows : Limit[k] # NoLimit => Bound(k) \in Nat
<1>1. IsFiniteSet(Counting) /\ Counting # {}
  BY ThrottleAssumption, FS_Subset
<1>2. Cardinality(Counting) \in Nat /\ Cardinality(Counting) # 0
  BY <1>1, FS_CardinalityType, FS_EmptySet
<1>3. QED
  BY <1>2, LimitType DEF Bound

(* A step counts at its own instant, and only one verification.            *)
LEMMA AheadStep ==
  ASSUME TypeOK, NothingAhead, [Next]_vars
  PROVE  NothingAhead'
<1> USE ThrottleAssumption DEF TypeOK, NothingAhead
<1>1. CASE Tick
  BY <1>1 DEF Tick
<1>2. ASSUME NEW c \in Callers, Increment(c) PROVE NothingAhead'
  BY <1>2 DEF Increment
<1>3. CASE UNCHANGED <<now, started>>
  BY <1>3
<1>4. QED
  BY <1>1, <1>2, <1>3 DEF Next, ResetIfNeeded, Admit, Refuse, RefusePanics, Refused, vars

LEMMA PeriodsStep ==
  ASSUME TypeOK, TypeOK', NothingAhead, OvershootBound, PeriodsPaid, [Next]_vars
  PROVE  PeriodsPaid'
<1> SUFFICES ASSUME NEW k \in Windows, Limit[k] # NoLimit, NEW a \in 0 .. Horizon
             PROVE  /\ a > lastReset'[k] => Cardinality(Started(a, now)') <= count'[k]
                    /\ a + Length[k] > lastReset'[k]
                         => Cardinality(Started(a, now)') <= Bound(k) + count'[k]
  BY DEF PeriodsPaid, Bound
<1>a. /\ now \in 0 .. Horizon /\ now' \in 0 .. Horizon
      /\ now \in Nat /\ a \in Nat /\ Horizon \in Nat
      /\ count[k] \in Nat /\ count'[k] \in Nat /\ Length[k] \in Nat \ {0}
      /\ lastReset[k] \in Nat /\ lastReset'[k] \in Nat
  BY ThrottleAssumption DEF TypeOK
<1>b. Bound(k) \in Nat
  BY BoundType
<1>c. /\ IsFiniteSet(Started(a, now)) /\ Cardinality(Started(a, now)) \in Nat
      /\ IsFiniteSet(Started(a, now)') /\ Cardinality(Started(a, now)') \in Nat
  <2>1. \A b \in 0 .. Horizon :
          /\ IsFiniteSet(Started(a, b)) /\ Cardinality(Started(a, b)) \in Nat
          /\ IsFiniteSet(Started(a, b)') /\ Cardinality(Started(a, b)') \in Nat
    BY StartedFinite
  <2>2. QED
    BY <1>a, <2>1 DEF Started
<1>d. /\ a > lastReset[k] => Cardinality(Started(a, now)) <= count[k]
      /\ a + Length[k] > lastReset[k]
           => Cardinality(Started(a, now)) <= Bound(k) + count[k]
  BY DEF PeriodsPaid
<1> HIDE DEF Bound
<1>1. CASE Tick
  <2>1. now' = now + 1 /\ UNCHANGED <<count, lastReset, started>>
    BY <1>1 DEF Tick
  <2>2. \A t \in 0 .. Horizon : t = now + 1 => 1 .. started[t] = {}
    BY <1>a, <2>1 DEF NothingAhead
  <2>3. Started(a, now)' \subseteq Started(a, now)
    <3> SUFFICES ASSUME NEW e \in Started(a, now)' PROVE e \in Started(a, now)
      OBVIOUS
    <3>1. PICK t \in a .. now + 1 : e \in {t} \X (1 .. started[t])
      BY <2>1 DEF Started
    <3>2. t \in 0 .. Horizon
      BY <1>a, <2>1, <3>1
    <3>3. t \in a .. now
      BY <1>a, <2>2, <3>1, <3>2
    <3>4. QED
      BY <3>1, <3>3 DEF Started
  <2>4. Cardinality(Started(a, now)') <= Cardinality(Started(a, now))
    BY <1>c, <2>3, FS_Subset
  <2>5. QED
    BY <1>a, <1>b, <1>c, <1>d, <2>1, <2>4
<1>2. ASSUME NEW c \in Callers, ResetIfNeeded(c)
      PROVE  /\ a > lastReset'[k] => Cardinality(Started(a, now)') <= count'[k]
             /\ a + Length[k] > lastReset'[k]
                  => Cardinality(Started(a, now)') <= Bound(k) + count'[k]
  <2>1. Started(a, now)' = Started(a, now)
    BY <1>2 DEF ResetIfNeeded, Started
  <2>2. CASE ~ Expired(k)
    <3>1. count'[k] = count[k] /\ lastReset'[k] = lastReset[k]
      BY <1>2, <2>2 DEF ResetIfNeeded
    <3>2. QED
      BY <1>d, <2>1, <3>1
  <2>3. CASE Expired(k)
    <3>1. count'[k] = 0 /\ lastReset'[k] = now
      BY <1>2, <2>3 DEF ResetIfNeeded
    <3>2. a > now => Cardinality(Started(a, now)) = 0
      <4>1. a > now => Started(a, now) = {}
        BY <1>a DEF Started
      <4>2. QED
        BY <4>1, FS_EmptySet
    <3>3. a + Length[k] > now => a > lastReset[k]
      BY <1>a, <2>3 DEF Expired
    <3>4. count[k] <= Bound(k)
      BY DEF OvershootBound, Bound
    <3>5. QED
      BY <1>a, <1>b, <1>c, <1>d, <2>1, <3>1, <3>2, <3>3, <3>4
  <2>4. QED
    BY <2>2, <2>3
<1>3. ASSUME NEW c \in Callers, Increment(c)
      PROVE  /\ a > lastReset'[k] => Cardinality(Started(a, now)') <= count'[k]
             /\ a + Length[k] > lastReset'[k]
                  => Cardinality(Started(a, now)') <= Bound(k) + count'[k]
  <2> DEFINE new == <<now, started[now] + 1>>
  <2>1. /\ started' = [started EXCEPT ![now] = @ + 1]
        /\ UNCHANGED <<now, lastReset>> /\ count'[k] = count[k] + 1
    BY <1>3 DEF Increment
  <2>2. Started(a, now)' \subseteq Started(a, now) \cup {new}
    <3> SUFFICES ASSUME NEW e \in Started(a, now)', e # new PROVE e \in Started(a, now)
      OBVIOUS
    <3>1. PICK t \in a .. now : e \in {t} \X (1 .. started'[t])
      BY <2>1 DEF Started
    <3>2. t \in 0 .. Horizon /\ started[t] \in Nat
      <4>1. t \in 0 .. Horizon
        BY <1>a
      <4>2. QED
        BY <4>1 DEF TypeOK
    <3>3. PICK i \in 1 .. started'[t] : e = <<t, i>>
      BY <3>1
    <3>4. started'[t] = IF t = now THEN started[t] + 1 ELSE started[t]
      BY <2>1, <3>2 DEF TypeOK
    <3>5. i \in 1 .. started[t]
      BY <3>2, <3>3, <3>4
    <3>6. QED
      BY <3>1, <3>3, <3>5 DEF Started
  <2> HIDE DEF new
  <2>3. /\ IsFiniteSet(Started(a, now) \cup {new})
        /\ Cardinality(Started(a, now) \cup {new}) <= Cardinality(Started(a, now)) + 1
    BY <1>c, AtMostOneMore
  <2>4. Cardinality(Started(a, now)') <= Cardinality(Started(a, now) \cup {new})
    BY <2>2, <2>3, FS_Subset
  <2>5. Cardinality(Started(a, now) \cup {new}) \in Nat
    BY <2>3, FS_CardinalityType
  <2>6. Cardinality(Started(a, now)') <= Cardinality(Started(a, now)) + 1
    BY <1>c, <2>3, <2>4, <2>5
  <2>7. QED
    BY <1>a, <1>b, <1>c, <1>d, <2>1, <2>6
<1>4. CASE UNCHANGED <<now, count, lastReset, started>>
  <2>1. Started(a, now)' = Started(a, now)
    BY <1>4 DEF Started
  <2>2. QED
    BY <1>4, <1>d, <2>1
<1>5. QED
  BY <1>1, <1>2, <1>3, <1>4 DEF Next, Admit, Refuse, RefusePanics, Refused, vars

(* So the interval that ends now holds what two periods may count: it is   *)
(* shorter than the time between two restarts.                             *)
LEMMA NowStep == TypeOK /\ OvershootBound /\ PeriodsPaid => BoundedNow
<1> SUFFICES ASSUME TypeOK, OvershootBound, PeriodsPaid, NEW k \in Windows, Limit[k] # NoLimit
             PROVE  Cardinality(Started(Earliest(k, now), now)) <= 2 * Bound(k)
  BY DEF BoundedNow
<1>1. /\ now \in 0 .. Horizon /\ Length[k] \in Nat \ {0} /\ count[k] \in Nat
      /\ lastReset[k] \in Nat /\ lastReset[k] <= now
  BY ThrottleAssumption DEF TypeOK
<1>2. /\ Earliest(k, now) \in 0 .. Horizon
      /\ Earliest(k, now) + Length[k] > lastReset[k]
  BY <1>1, ThrottleAssumption DEF Earliest
<1>3. Cardinality(Started(Earliest(k, now), now)) <= Bound(k) + count[k]
  BY <1>2 DEF PeriodsPaid
<1>4. Cardinality(Started(Earliest(k, now), now)) \in Nat
  BY <1>1, <1>2, StartedFinite
<1>5. count[k] <= Bound(k) /\ Bound(k) \in Nat
  BY BoundType DEF OvershootBound, Bound
<1> HIDE DEF Bound
<1>6. QED
  BY <1>1, <1>3, <1>4, <1>5

(* A past interval stays as it was: a step counts now or not at all.       *)
LEMMA PastStep ==
  ASSUME TypeOK, [Next]_vars, NEW a \in 0 .. Horizon, NEW b \in 0 .. now', b # now'
  PROVE  b \in 0 .. now /\ Started(a, b)' = Started(a, b)
<1>1. /\ now \in Nat /\ started \in [0 .. Horizon -> Nat]
      /\ now \in 0 .. Horizon
  BY ThrottleAssumption DEF TypeOK
<1>2. CASE Tick
  BY <1>1, <1>2 DEF Tick, Started
<1>3. ASSUME NEW c \in Callers, Increment(c)
      PROVE  b \in 0 .. now /\ Started(a, b)' = Started(a, b)
  <2>1. /\ now' = now /\ started' = [started EXCEPT ![now] = @ + 1]
    BY <1>3 DEF Increment
  <2>2. b \in 0 .. now /\ \A t \in a .. b : started'[t] = started[t]
    BY <1>1, <2>1
  <2>3. QED
    BY <2>2 DEF Started
<1>4. CASE UNCHANGED <<now, started>>
  BY <1>4 DEF Started
<1>5. QED
  BY <1>2, <1>3, <1>4
     DEF Next, ResetIfNeeded, Admit, Refuse, RefusePanics, Refused, vars

(* Whatever the phase of the fixed windows, no interval as long as one of  *)
(* them holds more than two periods' worth of verifications.               *)
THEOREM SlidingBounded == Spec => []SlidingBound
<1>1. Init => NothingAhead /\ PeriodsPaid /\ SlidingBound
  <2> SUFFICES ASSUME Init PROVE NothingAhead /\ PeriodsPaid /\ SlidingBound
    OBVIOUS
  <2>1. \A a, b \in 0 .. Horizon : Started(a, b) = {}
    BY ThrottleAssumption DEF Init, Started
  <2>2. Cardinality({}) = 0
    BY FS_EmptySet
  <2>3. NothingAhead
    BY DEF Init, NothingAhead
  <2>4. now = 0 /\ 0 \in 0 .. Horizon
    BY ThrottleAssumption DEF Init
  <2>5. PeriodsPaid
    <3> SUFFICES ASSUME NEW k \in Windows, Limit[k] # NoLimit, NEW a \in 0 .. Horizon
                 PROVE  /\ Cardinality(Started(a, now)) <= count[k]
                        /\ Cardinality(Started(a, now)) <= Bound(k) + count[k]
      BY DEF PeriodsPaid
    <3>1. Cardinality(Started(a, now)) = 0 /\ count[k] = 0
      BY <2>1, <2>2, <2>4 DEF Init
    <3>2. Bound(k) \in Nat
      BY BoundType
    <3>3. QED
      BY <3>1, <3>2
  <2>6. \A k \in Windows : Earliest(k, 0) = 0
    BY ThrottleAssumption DEF Earliest
  <2>7. SlidingBound
    BY <2>1, <2>2, <2>4, <2>6, BoundType DEF SlidingBound, Bound
  <2>8. QED
    BY <2>3, <2>5, <2>7
<1>2. /\ TypeOK /\ TypeOK' /\ OvershootBound /\ OvershootBound'
      /\ NothingAhead /\ PeriodsPaid /\ SlidingBound /\ [Next]_vars
      => NothingAhead' /\ PeriodsPaid' /\ SlidingBound'
  <2> SUFFICES ASSUME TypeOK, TypeOK', OvershootBound, OvershootBound',
                      NothingAhead, PeriodsPaid, SlidingBound, [Next]_vars
               PROVE  NothingAhead' /\ PeriodsPaid' /\ SlidingBound'
    OBVIOUS
  <2>1. NothingAhead' /\ PeriodsPaid'
    BY AheadStep, PeriodsStep
  <2>2. SUFFICES ASSUME NEW k \in Windows, Limit[k] # NoLimit, NEW t \in 0 .. now'
                 PROVE  Cardinality(Started(Earliest(k, t), t)') <= 2 * Bound(k)
    BY <2>1 DEF SlidingBound, Bound, Earliest
  <2>3. CASE t = now'
    <3>1. (TypeOK /\ OvershootBound /\ PeriodsPaid => BoundedNow)'
      BY NowStep, PTL
    <3>2. BoundedNow'
      BY <2>1, <3>1
    <3>3. Cardinality(Started(Earliest(k, now), now)') <= 2 * Bound(k)
      BY <2>2, <3>2 DEF BoundedNow, Bound
    <3>4. Started(Earliest(k, t), t)' = Started(Earliest(k, now), now)'
      BY <2>3 DEF Started, Earliest
    <3>5. QED
      BY <3>3, <3>4
  <2>4. CASE t # now'
    <3>1. t \in 0 .. Horizon /\ Length[k] \in Nat \ {0}
      BY ThrottleAssumption DEF TypeOK
    <3>2. Earliest(k, t) \in 0 .. Horizon
      BY <3>1, ThrottleAssumption DEF Earliest
    <3>3. t \in 0 .. now /\ Started(Earliest(k, t), t)' = Started(Earliest(k, t), t)
      BY <2>4, <3>2, PastStep DEF Started, Earliest
    <3>4. Cardinality(Started(Earliest(k, t), t)) <= 2 * Bound(k)
      BY <2>2, <3>3 DEF SlidingBound, Bound
    <3>5. QED
      BY <3>3, <3>4
  <2>5. QED
    BY <2>3, <2>4
<1>3. QED
  BY <1>1, <1>2, TypeCorrect, OvershootBounded, PTL DEF Spec
=============================================================================
