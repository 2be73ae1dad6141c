------------------------- MODULE MCSlaveInformation -------------------------
(* Instances of SlaveInformation for TLC: a drive with a mailbox, other     *)
(* revisions of it, and a simple slave without one.                          *)
EXTENDS SlaveInformation

Drive ==
  [fields |-> <<<<7, 0>>, <<3, 0>>, <<1, 0>>, <<9, 2>>, <<5, 2>>, <<4, 0>>>>,
   general |-> <<0, 0, Word(3, 33), 5, 0, 32, 6>>, name |-> <<4, 5>>, sm |-> <<<<8, 2, 38, 1>>>>,
   fmmu |-> <<Word(1, 2), Word(3, 255)>>,
   txpdo |-> <<>>, rxpdo |-> <<>>,
   objects |-> [ca |-> TRUE, types |-> <<1, 2, 3, 4, 0>>, roles |-> <<1, 2, 3, 4>>,
                pdos |-> <<<<>>, <<>>, <<<<16, 8>>>>, <<<<16>>, <<>>, <<32>>>>>>]]
\* Without complete access, and with the types 0 1 2 3.
NewDrive ==
  [Drive EXCEPT !.fields[3] = <<2, 0>>, !.sm = <<<<8, 4, 38, 1>>>>, !.general[3] = Word(3, 1),
                !.objects.ca = FALSE, !.objects.types = <<0, 1, 2, 3>>]
\* Says nothing of the types of its process data managers.
OldDrive ==
  [Drive EXCEPT !.fields[3] = <<3, 0>>, !.sm = <<<<8, 6, 38, 1>>>>, !.objects.types = <<1, 2, 0, 0>>]
Simple ==
  [fields |-> <<<<7, 0>>, <<4, 0>>, <<1, 0>>, <<0, 0>>, <<0, 0>>, <<0, 0>>>>,
   general |-> <<0, 0, 1, 0, 0, 0, 2>>, name |-> <<>>, sm |-> <<<<1, 0, 68, 1>>>>,
   fmmu |-> <<Word(1, 2)>>,
   txpdo |-> <<[sm |-> 1, bits |-> <<2, 3>>], [sm |-> 15, bits |-> <<>>]>>,
   rxpdo |-> <<[sm |-> 0, bits |-> <<4>>]>>,
   objects |-> NoObjects]
MCImages == {Drive, NewDrive, OldDrive, Simple}
MCWide == {Drive, OldDrive, Simple}
MCNetworks == {<<Drive, NewDrive>>, <<OldDrive, OldDrive>>, <<Simple, Simple>>}
=============================================================================
