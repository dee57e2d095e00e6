----------------------------- MODULE TaskLedger -----------------------------
(***************************************************************************)
(* What the v1 pipeline promises about each email it was asked to verify,  *)
(* without queue, workers or connections: at least once, and accounted     *)
(* for.  Submitting an email gives one claim to a row.  A claim is used    *)
(* up by a row or given up (the client is told to slow down, the verdict   *)
(* is lost), a row is never taken back, and no claim is granted a second   *)
(* time without a fault.                                                   *)
(***************************************************************************)
EXTENDS Naturals

CONSTANT Tasks

VARIABLES claims, rows, faults

Init ==
  /\ claims = [t \in Tasks |-> 1]
  /\ rows = [t \in Tasks |-> 0]
  /\ faults = 0

\* A row is written for a claim.
Store(t) ==
  /\ claims[t] > 0
  /\ claims' = [claims EXCEPT ![t] = @ - 1]
  /\ rows' = [rows EXCEPT ![t] = @ + 1]
  /\ UNCHANGED faults

\* Some emails give up a claim.
GiveUp(given) ==
  /\ \A t \in given : claims[t] > 0
  /\ claims' = [t \in Tasks |-> IF t \in given THEN claims[t] - 1 ELSE claims[t]]
  /\ UNCHANGED <<rows, faults>>

\* A fault grants a claim to some emails and makes others give one up.
Fault(granted, given) ==
  /\ \A t \in given : claims[t] > 0
  /\ claims' = [t \in Tasks |->
       claims[t] + (IF t \in granted THEN 1 ELSE 0) - (IF t \in given THEN 1 ELSE 0)]
  /\ faults' = faults + 1
  /\ UNCHANGED rows

Next ==
  \/ \E t \in Tasks : Store(t)
  \/ \E given \in SUBSET Tasks : GiveUp(given)
  \/ \E granted, given \in SUBSET Tasks : Fault(granted, given)

Spec == Init /\ [][Next]_<<claims, rows, faults>>
=============================================================================
