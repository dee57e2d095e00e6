----------------------------- MODULE MCStreamApi -----------------------------
(* A list of two emails, and a single request for a port that is not in    *)
(* the pool of two.                                                         *)
EXTENDS StreamApi

MCSize == [r \in Requests |-> IF r \in Streams THEN 2 ELSE 1]
MCAsked == [r \in Singles |-> 9]
MCPool == <<1, 2>>
=============================================================================
