------------------------------ MODULE MCBulkV0 ------------------------------
(* Instances of BulkV0: one job of two emails.                             *)
EXTENDS BulkV0, TLC

CONSTANTS t1, t2, j1, r1, r2

OneJobOf == t1 :> j1 @@ t2 :> j1

Symmetry == Permutations({t1, t2}) \cup Permutations(Runners)
=============================================================================
