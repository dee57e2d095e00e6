------------------------------ MODULE MCWorker ------------------------------
(* Instances of Worker: a job of two emails and one single-shot email.     *)
EXTENDS Worker, TLC

CONSTANTS b1, b2, s1, j1, w1, w2

\* A bulk job of two emails; an email of each kind; one single-shot email.
TwoBulk   == {b1, b2}
TwoBulkOf == b1 :> j1 @@ b2 :> j1
Mixed     == {b1, s1}
MixedOf   == b1 :> j1 @@ s1 :> SingleShot
OneShot   == {s1}
OneShotOf == s1 :> SingleShot

Symmetry == Permutations(Workers)
BulkSymmetry == Permutations(Workers) \cup Permutations({b1, b2})
=============================================================================
