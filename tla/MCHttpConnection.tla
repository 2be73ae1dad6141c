--------------------------- MODULE MCHttpConnection ---------------------------
(***************************************************************************)
(* Two connections with up to two requests each: counted bodies of 0 to 2   *)
(* units, chunks of two units and one, "Expect: 100-continue" and "Connection: close", *)
(* and a GET before a POST.                                                  *)
(***************************************************************************)
EXTENDS HttpConnection

Counted(n) == [method |-> "POST", body |-> n, chunks |-> <<>>, expect |-> FALSE, close |-> FALSE]
InChunks(sizes) == [method |-> "POST", body |-> 0, chunks |-> sizes, expect |-> FALSE, close |-> FALSE]
Expecting(n) == [method |-> "POST", body |-> n, chunks |-> <<>>, expect |-> TRUE, close |-> TRUE]
Get == [method |-> "GET", body |-> 0, chunks |-> <<>>, expect |-> FALSE, close |-> FALSE]

MCPlans == {<<Counted(2), Counted(1)>>, <<InChunks(<<2, 1>>), Get>>, <<Expecting(1)>>, <<Counted(0)>>, <<Get, Counted(1)>>}
=============================================================================
