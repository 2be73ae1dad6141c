---------------------------- MODULE MCErrorList ----------------------------
(* An instance of ErrorList for TLC: a ring of four slots (65 in SOEM).     *)
EXTENDS ErrorList
============================================================================
