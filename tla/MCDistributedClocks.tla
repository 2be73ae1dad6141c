------------------------- MODULE MCDistributedClocks -------------------------
(* Instances of DistributedClocks for TLC.                                   *)
EXTENDS DistributedClocks

\* Delays whose sums tell which links were passed.
MCDelays == {[s \in 1 .. N |-> 2 ^ (s - 1)]}
\* One local time is negative, and one may pass the end of its range.
MCClocks == {[s \in 1 .. N |-> IF s = 2 THEN Half - 9 ELSE - 3], [s \in 1 .. N |-> 10 * s]}
==============================================================================
