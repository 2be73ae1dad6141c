------------------------------- MODULE Startup -------------------------------
(***************************************************************************)
(* From main() (src/main.c) to the loop: initialize_ethercat(), the        *)
(* pointers to the drive's data, the second configuration in slaveinfo(),  *)
(* and the request for OPERATIONAL in ethercat_loop() (src/ethercat.c).    *)
(* The results of the first and of the second are ignored by main().       *)
(*                                                                         *)
(* A state is what the AL status register holds.  ec_statecheck(0, ..)     *)
(* reads the bitwise OR of the states of all slaves that answer; with none *)
(* there it reads 0.                                                       *)
(*                                                                         *)
(* The slaves are external: a line that may break, the slaves behind the   *)
(* break losing their power, and slaves that answer a request later.       *)
(***************************************************************************)
EXTENDS Integers, FiniteSets

CONSTANTS
  N,         \* slaves on the bus
  Checks,    \* 40: checks for OPERATIONAL before giving up
  MaxFaults  \* bound: breaks of the line

ASSUME StartAssumption == N \in Nat \ {0} /\ Checks \in Nat /\ MaxFaults \in Nat

VARIABLES
  at, round, ls,       \* main: its place, which ec_config_init, its slave there
  chk,                 \* ethercat_loop: checks left
  count,               \* ec_slavecount
  result,              \* of initialize_ethercat
  socket,              \* is the socket open?
  outputs,             \* is ec_slave[1].outputs set?
  pointer,             \* is festo_motor_outputs_ptr set?
  inOP,
  present,             \* external: the line is whole up to this slave
  al, request,         \* external: state of the slaves, what they are asked for
  addressed, mapped,   \* external: slaves with a station address, with FMMUs
  boot,                \* external: slaves that know BOOT
  faults, trouble      \* breaks so far; history: ec_init failed, or a slave was
                       \* too late for the wait or for the next request

program == <<at, round, ls, chk, count, result, socket, outputs, pointer, inOP>>
bus == <<present, al, request, addressed, mapped, boot, faults>>
vars == <<program, bus, trouble>>

NONE == 0
INIT == 1
PRE_OP == 2
BOOT == 3
SAFE_OP == 4
OPERATIONAL == 8
ACK == 16
ERROR == 16

States == {INIT, PRE_OP, BOOT, SAFE_OP, OPERATIONAL}
Slaves == 1 .. N
Places == {"open", "detect", "config", "init", "isinit", "boot", "isboot", "init again",
           "isinit again", "wait", "preop", "ispreop", "map", "issafeop", "pointers", "reopen",
           "op", "isop", "running", "gave up"}

TypeOK ==
  /\ at \in Places /\ round \in 1 .. 3 /\ ls \in 1 .. N + 1 /\ chk \in - 1 .. Checks
  /\ count \in 0 .. N /\ result \in {"none", "ok", "failed"}
  /\ {socket, outputs, pointer, inOP, trouble} \subseteq BOOLEAN
  /\ present \in 0 .. N /\ faults \in 0 .. MaxFaults
  /\ al \in [Slaves -> States \cup {s + ERROR : s \in States}]
  /\ request \in [Slaves -> {NONE} \cup States \cup {s + ACK : s \in States}]
  /\ {addressed, mapped, boot} \subseteq SUBSET Slaves

Init ==
  /\ at = "open" /\ round = 1 /\ ls = 1 /\ chk = Checks
  /\ count = 0 /\ result = "none"
  /\ socket = FALSE /\ outputs = FALSE /\ pointer = FALSE /\ inOP = FALSE
  /\ present = N
  /\ al \in [Slaves -> {INIT, OPERATIONAL}] /\ request = [s \in Slaves |-> NONE]
  /\ addressed = {} /\ mapped = {} /\ boot \in SUBSET Slaves
  /\ faults = 0 /\ trouble = FALSE

----------------------------------------------------------------------------
(* The slaves.                                                              *)

There == IF socket THEN 1 .. present ELSE {}

\* Up one state at a time, down to any; BOOT from INIT and back.
Legal(s) ==
  {<<INIT, PRE_OP>>, <<PRE_OP, SAFE_OP>>, <<SAFE_OP, OPERATIONAL>>, <<SAFE_OP, PRE_OP>>,
   <<OPERATIONAL, SAFE_OP>>, <<OPERATIONAL, PRE_OP>>}
    \cup (IF s \in boot THEN {<<INIT, BOOT>>} ELSE {})

\* What slave s makes of a request.
Controlled(s) ==
  LET wanted == request[s] % 16
      now == al[s] % 16
  IN  IF wanted = INIT THEN INIT
      ELSE IF al[s] >= ERROR /\ request[s] < ACK THEN al[s]
      ELSE IF wanted = now \/ <<now, wanted>> \in Legal(s) THEN wanted
      ELSE now + ERROR

SlaveActs(s) ==
  /\ s <= present /\ request[s] # NONE
  /\ al' = [al EXCEPT ![s] = Controlled(s)]
  /\ request' = [request EXCEPT ![s] = NONE]
  /\ UNCHANGED <<program, present, addressed, mapped, boot, faults, trouble>>

Break ==
  /\ faults < MaxFaults /\ present > 0
  /\ \E k \in 0 .. present - 1 :
       /\ present' = k
       /\ al' = [s \in Slaves |-> IF s > k THEN INIT ELSE al[s]]
       /\ request' = [s \in Slaves |-> IF s > k THEN NONE ELSE request[s]]
       /\ addressed' = addressed \cap (1 .. k) /\ mapped' = mapped \cap (1 .. k)
  /\ faults' = faults + 1
  /\ UNCHANGED <<program, boot, trouble>>

Mend ==
  /\ present < N
  /\ present' = N
  /\ UNCHANGED <<program, al, request, addressed, mapped, boot, faults, trouble>>

----------------------------------------------------------------------------
(* Datagrams.                                                               *)

Asked(set, state) == [s \in Slaves |-> IF s \in set THEN state ELSE request[s]]

\* ec_writestate(0)
Broadcast(state) == request' = Asked(There, state)

\* The answers to a broadcast read of the AL status: a bit is set if one of
\* them has it.
Bit(b) == IF \E s \in There : (al[s] \div b) % 2 = 1 THEN b ELSE 0
BusState == Bit(1) + Bit(2) + Bit(4) + Bit(8) + Bit(16)

Pending(set) == \E s \in There \cap set : request[s] # NONE

\* ec_statecheck gives up: it may, while a slave still works on a request.
TimerEnds(set, wait) == trouble' = (trouble \/ (wait /\ Pending(set)))

\* A request that would have changed the slave is overwritten by the next.
Late(set) == \E s \in There \cap set : request[s] # NONE /\ Controlled(s) # al[s]
Overtakes(set) == trouble' = (trouble \/ Late(set))

----------------------------------------------------------------------------
(* initialize_ethercat().                                                   *)

Goto(place) == at' = place

\* Variant of Abort: it ends like the good case.
AbortWithOk ==
  /\ socket' = FALSE /\ result' = "ok"
  /\ Goto("pointers")

Abort ==
  /\ socket' = FALSE /\ result' = "failed"
  /\ Goto("pointers")

Opened ==
  /\ at = "open"
  /\ socket' = TRUE /\ Goto("detect")
  /\ UNCHANGED <<round, ls, chk, count, result, outputs, pointer, inOP, bus, trouble>>

NotOpened ==
  /\ at = "open"
  /\ Abort /\ trouble' = TRUE
  /\ UNCHANGED <<round, ls, chk, count, outputs, pointer, inOP, bus>>

\* ec_config_init: the slave list is cleared, the slaves are counted, reset and
\* sent to INIT.
Detect ==
  /\ at = "detect"
  /\ count' = Cardinality(There)
  /\ outputs' = FALSE /\ mapped' = {}
  /\ Broadcast(INIT + ACK) /\ Overtakes(Slaves)
  /\ ls' = 1
  /\ IF There # {}
       THEN Goto("config") /\ UNCHANGED <<socket, result>>
       ELSE IF round = 3 THEN Goto("op") /\ UNCHANGED <<socket, result>> ELSE Abort
  /\ UNCHANGED <<round, chk, pointer, inOP, present, al, addressed, boot, faults>>

SlaveLeft == ls <= count

\* Each slave gets its address, has reached INIT or not, and is asked for PRE_OP.
ConfigSlave ==
  /\ at = "config" /\ SlaveLeft
  /\ addressed' = addressed \cup ({ls} \cap There)
  /\ Overtakes({ls})
  /\ request' = Asked({ls} \cap There, PRE_OP + ACK)
  /\ ls' = ls + 1
  /\ UNCHANGED <<at, round, chk, count, result, socket, outputs, pointer, inOP, present, al, mapped, boot, faults>>

SlavesConfigured ==
  /\ at = "config" /\ ls = count + 1
  /\ Goto(CASE round = 1 -> "init" [] round = 2 -> "preop" [] round = 3 -> "map")
  /\ ls' = 1
  /\ UNCHANGED <<round, chk, count, result, socket, outputs, pointer, inOP, bus, trouble>>

Ask(place, state, next) ==
  /\ at = place
  /\ Broadcast(state) /\ Overtakes(Slaves) /\ Goto(next)
  /\ UNCHANGED <<round, ls, chk, count, result, socket, outputs, pointer, inOP, present, al, addressed, mapped,
                 boot, faults>>

\* Variant of Checked: with the error bit.
CheckedWithError == BusState

\* What ec_statecheck(0, ..) returns: the state without the error bit.
Checked == BusState % 16

Check(place, wanted, good, next) ==
  /\ at = place
  /\ TimerEnds(Slaves, Checked # wanted)
  /\ IF Checked \in good THEN Goto(next) /\ UNCHANGED <<socket, result>> ELSE Abort
  /\ UNCHANGED <<round, ls, chk, count, outputs, pointer, inOP, bus>>

\* Variant of AllThere: one more than were counted.
MoreThanThere == Cardinality(There) > count

AllThere == Cardinality(There) >= count

\* The wait for the slaves has no bound.
AllBack ==
  /\ at = "wait" /\ AllThere
  /\ TimerEnds(Slaves, Checked # INIT)
  /\ Goto("detect") /\ round' = 2
  /\ UNCHANGED <<ls, chk, count, result, socket, outputs, pointer, inOP, bus>>

\* ec_config_map: each slave has reached PRE_OP or not; then all are mapped and
\* asked for SAFE_OP.  The size of a slave that no longer answers may be known
\* from its SII.
MapWait ==
  /\ at = "map" /\ SlaveLeft
  /\ TimerEnds({ls}, ls \in There \cap addressed /\ al[ls] % 16 # PRE_OP)
  /\ ls' = ls + 1
  /\ UNCHANGED <<at, round, chk, count, result, socket, outputs, pointer, inOP, bus>>

Map ==
  /\ at = "map" /\ ls = count + 1
  /\ mapped' = There \cap addressed \cap 1 .. count
  /\ request' = Asked(mapped', SAFE_OP) /\ Overtakes(Slaves)
  /\ outputs' \in IF 1 \in mapped' THEN {TRUE} ELSE BOOLEAN
  /\ Goto("issafeop")
  /\ UNCHANGED <<round, ls, chk, count, result, socket, pointer, inOP, present, al, addressed, boot, faults>>

\* Variant of InSafeOp: its bit is set.
SafeOpAmongThem == (BusState \div SAFE_OP) % 2 = 1

InSafeOp == BusState = SAFE_OP

\* All slaves in SAFE_OP, none with an error; the listing does not look.
IsSafeOp ==
  /\ at = "issafeop"
  /\ TimerEnds(Slaves, Checked # SAFE_OP)
  /\ IF round = 3 THEN Goto("op") /\ UNCHANGED <<socket, result>>
     ELSE IF InSafeOp THEN Goto("pointers") /\ result' = "ok" /\ UNCHANGED socket
     ELSE Abort
  /\ UNCHANGED <<round, ls, chk, count, outputs, pointer, inOP, bus>>

----------------------------------------------------------------------------
(* main() and ethercat_loop().                                              *)

SetPointers ==
  /\ at = "pointers"
  /\ pointer' = outputs
  /\ Goto("reopen")
  /\ UNCHANGED <<round, ls, chk, count, result, socket, outputs, inOP, bus, trouble>>

Reopened ==
  /\ at = "reopen"
  /\ socket' = TRUE /\ round' = 3 /\ Goto("detect")
  /\ UNCHANGED <<ls, chk, count, result, outputs, pointer, inOP, bus, trouble>>

NotReopened ==
  /\ at = "reopen"
  /\ socket' = FALSE /\ trouble' = TRUE /\ Goto("op")
  /\ UNCHANGED <<round, ls, chk, count, result, outputs, pointer, inOP, bus>>

\* Variant of IsOp: the loop runs after the last check whatever it read.
IsOpOrNot ==
  /\ at = "isop"
  /\ IF BusState = OPERATIONAL \/ chk = 0
       THEN inOP' = TRUE /\ Goto("running") /\ chk' = chk - 1 /\ UNCHANGED trouble
       ELSE chk' = chk - 1 /\ UNCHANGED <<inOP, at, trouble>>
  /\ UNCHANGED <<round, ls, count, result, socket, outputs, pointer, bus>>

IsOp ==
  /\ at = "isop"
  /\ chk' = chk - 1
  /\ IF BusState = OPERATIONAL
       THEN inOP' = TRUE /\ Goto("running") /\ UNCHANGED trouble
       ELSE IF chk > 0
         THEN UNCHANGED <<inOP, at, trouble>>
         ELSE Goto("gave up") /\ TimerEnds(Slaves, TRUE) /\ UNCHANGED inOP
  /\ UNCHANGED <<round, ls, count, result, socket, outputs, pointer, bus>>

Main ==
  \/ Opened \/ NotOpened \/ Detect \/ ConfigSlave \/ SlavesConfigured
  \/ Ask("init", INIT + ACK, "isinit") \/ Check("isinit", INIT, {INIT}, "boot")
  \/ Ask("boot", BOOT + ACK, "isboot") \/ Check("isboot", BOOT, {BOOT, INIT}, "init again")
  \/ Ask("init again", INIT + ACK, "isinit again") \/ Check("isinit again", INIT, {INIT}, "wait")
  \/ AllBack
  \/ Ask("preop", PRE_OP, "ispreop") \/ Check("ispreop", PRE_OP, {PRE_OP}, "map")
  \/ MapWait \/ Map \/ IsSafeOp
  \/ SetPointers \/ Reopened \/ NotReopened
  \/ Ask("op", OPERATIONAL, "isop") \/ IsOp

Next == Main \/ (\E s \in Slaves : SlaveActs(s)) \/ Break \/ Mend

\* The program runs, slaves answer in the end and the line is mended.
Fairness ==
  /\ WF_vars(Main) /\ \A s \in Slaves : WF_vars(SlaveActs(s))
  /\ WF_vars(Mend)

Spec == Init /\ [][Next]_vars /\ Fairness

----------------------------------------------------------------------------
\* What the start and the loop report is so: at the moment initialize_ethercat
\* returns 0 every slave that answers is in SAFE_OP, and when inOP is set
\* every one is OPERATIONAL, although the state is an OR (ethercatmain.c:884).
ReportsAreTrue ==
  [][/\ result' = "ok" /\ result # "ok" => \A s \in There : al[s] = SAFE_OP
     /\ inOP' /\ ~ inOP => \A s \in There : al[s] = OPERATIONAL]_vars

\* The results of the start and of the listing are ignored, but the loop is
\* entered with an open socket and with the slaves that answer mapped by the
\* last mapping.
NeverUnmapped ==
  [][inOP' /\ ~ inOP => socket /\ outputs /\ There # {} /\ There \subseteq mapped]_vars

\* If the start reported success the loop has the drive's data.
DataWhenStarted == inOP /\ result = "ok" => pointer

\* A bus that stays whole, with slaves that act on each request before a wait or
\* the next request cuts them off, is started at the first attempt, whatever
\* slaves know BOOT and whatever state they were left in.
StartSucceeds == [](faults = 0 /\ ~ trouble) => <>(inOP /\ result = "ok")

\* The start ends, with a line that is mended even the wait without a bound.
StartEnds == <>(at \in {"running", "gave up"})
=============================================================================
