----------------------------- MODULE MCNicPort -----------------------------
(* Instance of NicPort for TLC: the cyclic thread and the monitor as two     *)
(* interchangeable threads over a few buffers.                              *)
EXTENDS NicPort, TLC

ThreadSymmetry == Permutations(Threads)
=============================================================================
