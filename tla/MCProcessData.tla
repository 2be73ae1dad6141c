---------------------------- MODULE MCProcessData ----------------------------
(* Instances of ProcessData for TLC: slaves with less than a byte, with one  *)
(* byte, and with bytes in one or two sync managers.                        *)
EXTENDS ProcessData

Kind(obits, oruns, ibits, iruns) ==
  [obits |-> obits, oruns |-> oruns, ibits |-> ibits, iruns |-> iruns]

MCKinds == {Kind(4, <<1>>, 0, <<>>), Kind(7, <<1>>, 4, <<1>>), Kind(8, <<1>>, 16, <<2>>),
            Kind(16, <<1, 1>>, 0, <<>>), Kind(0, <<>>, 5, <<1>>)}
==============================================================================
