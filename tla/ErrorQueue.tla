----------------------------- MODULE ErrorQueue -----------------------------
(***************************************************************************)
(* What the error list of SOEM promises: the errors reported and not yet   *)
(* taken, in their order, the last Capacity of them.                       *)
(***************************************************************************)
EXTENDS Naturals, Sequences

CONSTANTS Errors, Capacity

VARIABLE queue

Init == queue = <<>>

\* A full queue gives up its oldest error.
Report(e) ==
  queue' = Append(IF Len(queue) = Capacity THEN Tail(queue) ELSE queue, e)

Take ==
  /\ queue # <<>>
  /\ queue' = Tail(queue)

Next == (\E e \in Errors : Report(e)) \/ Take

Spec == Init /\ [][Next]_queue
=============================================================================
