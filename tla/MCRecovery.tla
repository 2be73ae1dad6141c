---------------------------- MODULE MCRecovery ----------------------------
(* Instances of Recovery for TLC: two slaves and a few breaks of the line.   *)
EXTENDS Recovery
============================================================================
