----------------------------- MODULE MCThrottle -----------------------------
(* Instances of Throttle: two windows, the first tested the shorter.       *)
EXTENDS Throttle

CONSTANTS loop, h1, h2

MCLength == <<1, 3>>
MCLimit  == <<1, 2>>

\* Worker mode: only the consumer loop counts, a handler only checks.
WorkerCallers  == {loop, h1}
WorkerCounting == {loop}

\* Without a worker every handler checks, verifies and counts.
DirectCallers  == {h1, h2}
=============================================================================
