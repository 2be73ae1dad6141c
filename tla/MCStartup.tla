------------------------------ MODULE MCStartup ------------------------------
(* Startup for TLC: all its constants are numbers.                           *)
EXTENDS Startup
==============================================================================
