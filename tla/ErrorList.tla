------------------------------ MODULE ErrorList ------------------------------
(***************************************************************************)
(* The error list of SOEM (ethercatmain.c): a ring of EC_MAXELIST + 1      *)
(* slots and the flag EcatError, and its users in src/ethercat.c, which    *)
(* drain it while the flag is set, or, in SDO2string(), decide by the flag *)
(* whether the object they have just read can be shown.                    *)
(* Its names are those of no other module, so that a module can speak of   *)
(* it and of an SDO transfer at once.                                      *)
(***************************************************************************)
EXTENDS Naturals, Sequences

CONSTANTS
  Errors,      \* ec_errort
  Blank,       \* what is in a slot never used
  EC_MAXELIST  \* 64

ASSUME ListAssumption ==
  /\ EC_MAXELIST \in Nat \ {0}
  /\ Errors # {}

VARIABLES
  elist,      \* head, tail and Error
  EcatError,  \* the flag
  at          \* where the user is: idle, in a drain loop, after a read

listVars == <<elist, EcatError, at>>

Slots == 0 .. EC_MAXELIST

ListTypeOK ==
  /\ elist \in [head : Slots, tail : Slots, Error : [Slots -> Errors \cup {Blank}]]
  /\ EcatError \in BOOLEAN
  /\ at \in {"idle", "draining", "read"}

ListInit ==
  /\ elist = [head |-> 0, tail |-> 0, Error |-> [i \in Slots |-> Blank]]
  /\ EcatError = FALSE
  /\ at = "idle"

----------------------------------------------------------------------------
Wrap(i) == IF i > EC_MAXELIST THEN 0 ELSE i

HasErrors == elist.head # elist.tail

\* Variant of ecx_pusherror: the oldest error is not given up.
PushOver(e) ==
  /\ elist' = [head  |-> Wrap(elist.head + 1),
               tail  |-> elist.tail,
               Error |-> [elist.Error EXCEPT ![elist.head] = e]]
  /\ EcatError' = TRUE

ecx_pusherror(e) ==
  LET head == Wrap(elist.head + 1)
  IN  /\ elist' = [head  |-> head,
                   tail  |-> IF head = elist.tail THEN Wrap(elist.tail + 1) ELSE elist.tail,
                   Error |-> [elist.Error EXCEPT ![elist.head] = e]]
      /\ EcatError' = TRUE

\* Variant of ecx_poperror: the flag falls with the error that is popped.
PopAndClear ==
  /\ elist' = IF HasErrors THEN [elist EXCEPT !.tail = Wrap(@ + 1)] ELSE elist
  /\ EcatError' = FALSE

\* The flag falls only when there was nothing to pop.
ecx_poperror ==
  IF HasErrors
    THEN elist' = [elist EXCEPT !.tail = Wrap(@ + 1)] /\ UNCHANGED EcatError
    ELSE EcatError' = FALSE /\ UNCHANGED elist

----------------------------------------------------------------------------
\* A call into SOEM reports an error.
Report ==
  /\ at = "idle"
  /\ \E e \in Errors : ecx_pusherror(e)
  /\ UNCHANGED at

\* while (EcatError) printf(.., ec_elist2string())
DrainStart ==
  /\ at = "idle"
  /\ at' = "draining"
  /\ UNCHANGED <<elist, EcatError>>

Drain ==
  /\ at = "draining"
  /\ EcatError
  /\ ecx_poperror
  /\ UNCHANGED at

DrainEnd ==
  /\ at = "draining"
  /\ ~ EcatError
  /\ at' = "idle"
  /\ UNCHANGED <<elist, EcatError>>

\* SDO2string: ec_SDOread gives a value or nothing, or it reports an error.
ReadValue ==
  /\ at = "idle"
  /\ at' = "read"
  /\ UNCHANGED <<elist, EcatError>>

ReadError ==
  /\ at = "idle"
  /\ at' = "read"
  /\ \E e \in Errors : ecx_pusherror(e)

ShowError ==
  /\ at = "read"
  /\ EcatError
  /\ ecx_poperror
  /\ at' = "idle"

ShowValue ==
  /\ at = "read"
  /\ ~ EcatError
  /\ at' = "idle"
  /\ UNCHANGED <<elist, EcatError>>

ListNext == Report \/ DrainStart \/ Drain \/ DrainEnd \/ ReadValue \/ ReadError
          \/ ShowError \/ ShowValue

ListSpec == ListInit /\ [][ListNext]_listVars

\* The thread runs.
FairListSpec == ListSpec /\ WF_listVars(Drain \/ DrainEnd \/ ShowError \/ ShowValue)

----------------------------------------------------------------------------
\* The errors between tail and head, oldest first.
Waiting == IF elist.head >= elist.tail THEN elist.head - elist.tail
         ELSE elist.head + EC_MAXELIST + 1 - elist.tail
Slot(i) == IF elist.tail + i <= EC_MAXELIST THEN elist.tail + i
           ELSE elist.tail + i - EC_MAXELIST - 1
Contents == [i \in 1 .. Waiting |-> elist.Error[Slot(i - 1)]]

\* No error waits while the flag is down, where no user would look for it.
NoneHidden == HasErrors => EcatError

\* A drain loop ends, with nothing left in the list.
DrainsAll == at = "draining" ~> (at = "idle" /\ ~ HasErrors)

\* The ring is a queue of the last EC_MAXELIST errors.
Queue == INSTANCE ErrorQueue WITH queue <- Contents, Capacity <- EC_MAXELIST
IsQueue == Queue!Spec
=============================================================================
