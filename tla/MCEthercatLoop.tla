-------------------------- MODULE MCEthercatLoop --------------------------
(* Instances of EthercatLoop for TLC.  Process data is sent in one of three *)
(* iterations (one of 200 in the code) and OPERATIONAL is checked for three *)
(* times (41 in the code).                                                  *)
EXTENDS EthercatLoop
============================================================================
