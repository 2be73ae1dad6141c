----------------------------- MODULE PdoMapping -----------------------------
(***************************************************************************)
(* How the master learns the sizes of a slave's process data from its       *)
(* object dictionary: ecx_readPDOmap() and, with complete access (CA),      *)
(* ecx_readPDOmapCA().  Both go through the types of the sync managers, the *)
(* PDOs assigned to each and the entries of each PDO; the second reads a    *)
(* whole object where the first reads its subindexes one by one, and        *)
(* corrects fewer mistakes of the slave.                                    *)
(*                                                                         *)
(* An SDO read is a step with its value, or with nothing when it fails: the *)
(* variable it is read into was cleared before.                             *)
(***************************************************************************)
EXTENDS Integers, Sequences

CONSTANT MaxSM  \* EC_MAXSM

Managers == 0 .. MaxSM - 1
NoBits == [m \in Managers |-> 0]
Outputs == 3
Inputs == 4

\* External: the objects of a slave.  types has what it says of its managers,
\* pdos the PDOs assigned to each, as the lengths of their entries, and roles
\* what its managers are.
NoObjects == [ca |-> FALSE, types |-> <<>>, pdos |-> <<>>, roles |-> <<>>]

\* sm, pdo and entry are the loops' counters, nSM, nPDO and nEntry their
\* limits, bits is Tsize; txpdo and rxpdo are the sizes found for each manager.
NoMap == [ca |-> FALSE, op |-> "end", sm |-> 0, nSM |-> 0, add |-> 0, type |-> 0,
          pdo |-> 0, nPDO |-> 0, entry |-> 0, nEntry |-> 0, bits |-> 0,
          txpdo |-> NoBits, rxpdo |-> NoBits, good |-> TRUE]
StartMap(ca) == [NoMap EXCEPT !.ca = ca, !.op = "count"]

\* What is asked of the slave.  With CA the types come with their number, the
\* PDOs and the entries too.
IsRead(m) == m.op # "end" /\ (m.ca => m.op \in {"count", "assign", "mapped"})

Value(obj, m) ==
  CASE m.op = "count" -> Len(obj.types)
    [] m.op = "type" -> obj.types[m.sm + 1]
    [] m.op = "assign" -> Len(obj.pdos[m.sm + 1])
    [] m.op = "index" -> 1
    [] m.op = "mapped" -> Len(obj.pdos[m.sm + 1][m.pdo])
    [] m.op = "entry" -> obj.pdos[m.sm + 1][m.pdo][m.entry]

----------------------------------------------------------------------------
(* The loops, from the inside out. *)

NextManager(m) == [m EXCEPT !.sm = @ + 1, !.op = IF m.sm + 1 < m.nSM THEN "type" ELSE "end"]

\* "if a mapping is found"
Sized(m) ==
  NextManager(IF m.type = Outputs THEN [m EXCEPT !.rxpdo[m.sm] = m.bits] ELSE [m EXCEPT !.txpdo[m.sm] = m.bits])

NextPdo(m) == IF m.pdo < m.nPDO THEN [m EXCEPT !.pdo = @ + 1, !.op = "index"] ELSE Sized(m)

Entries(m, n) == IF n > 0 THEN [m EXCEPT !.entry = 1, !.nEntry = n, !.op = "entry"] ELSE NextPdo(m)

AddEntry(m, length) ==
  LET more == [m EXCEPT !.bits = @ + length] IN
  IF m.entry < m.nEntry THEN [more EXCEPT !.entry = @ + 1] ELSE NextPdo(more)

Assigned(m, n) == IF n > 0 THEN [m EXCEPT !.pdo = 1, !.nPDO = n, !.op = "index"] ELSE Sized(m)

\* Slave bug prevention: types 0 1 2 3 that should be 1 2 3 4, and, one by
\* one only, types of the process data managers that are 0.
Add(m, t) == IF m.sm = 2 /\ t = 2 THEN 1 ELSE m.add
Corrected(m, t) ==
  IF t > 0 THEN t + Add(m, t)
  ELSE IF ~ m.ca /\ m.sm \in {2, 3} THEN m.sm + 1 ELSE 0

Typed(m, t) ==
  LET new == [m EXCEPT !.add = Add(m, t), !.type = Corrected(m, t), !.bits = 0] IN
  IF new.type \in {Outputs, Inputs} THEN [new EXCEPT !.op = "assign"] ELSE NextManager(new)

Counted(m, n) ==
  IF n > 2 THEN [m EXCEPT !.sm = 2, !.nSM = IF n > MaxSM THEN MaxSM ELSE n, !.op = "type"]
  ELSE [m EXCEPT !.op = "end"]

\* The map after the value v was read.
After(m, v) ==
  CASE m.op = "count" -> Counted(m, v)
    [] m.op = "type" -> Typed(m, v)
    [] m.op = "assign" -> Assigned(m, v)
    [] m.op = "index" -> IF v > 0 THEN [m EXCEPT !.op = "mapped"] ELSE NextPdo(m)
    [] m.op = "mapped" -> Entries(m, v)
    [] m.op = "entry" -> AddEntry(m, v)

\* The map after a read that failed: a manager without a type is passed over,
\* everything else is as if the slave had answered zero.
AfterFailure(m) ==
  [(IF m.op = "type" THEN NextManager(m) ELSE After(m, 0)) EXCEPT !.good = FALSE]

Found(m) == m.txpdo # NoBits \/ m.rxpdo # NoBits

----------------------------------------------------------------------------
(* What should be found: the sizes of what is assigned, by role. *)
Sum(s) == LET f[i \in 0 .. Len(s)] == IF i = 0 THEN 0 ELSE f[i - 1] + s[i] IN f[Len(s)]
TrueBits(obj, role) ==
  [m \in Managers |->
     IF m + 1 \in DOMAIN obj.roles /\ obj.roles[m + 1] = role
     THEN Sum([k \in DOMAIN obj.pdos[m + 1] |-> Sum(obj.pdos[m + 1][k])]) ELSE 0]
=============================================================================
