---------------------------- MODULE MCSdoTransfer ----------------------------
(* Instances of SdoTransfer for TLC: two objects of one index, one of them   *)
(* long.                                                                    *)
EXTENDS SdoTransfer

MCObjects == {<<1, 1>>, <<1, 2>>}
MCLong == {<<1, 2>>}
==============================================================================
