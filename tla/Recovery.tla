------------------------------ MODULE Recovery ------------------------------
(***************************************************************************)
(* Slaves that drop out of OPERATIONAL, and the two threads that bring     *)
(* them back: the reconnection loop inside ethercat_loop() and the monitor *)
(* ecatcheck(), both of src/ethercat.c.  They share ec_slave[] without a   *)
(* lock, and ec_writestate(i) sends whatever ec_slave[i].state holds when  *)
(* it is called.                                                           *)
(*                                                                         *)
(* The monitor compares two locals that are never assigned: low is the     *)
(* outcome of that comparison, and may be either.                          *)
(*                                                                         *)
(* The slaves are external: a line in which the slaves behind a break are  *)
(* gone, and slaves that follow the EtherCAT state machine as the code     *)
(* expects.  A slave that lost its power has no station address, no sync   *)
(* managers and no FMMUs.  Slaves stay at their places.                    *)
(***************************************************************************)
EXTENDS Integers

CONSTANTS
  N,         \* ec_slavecount
  MaxFaults,   \* bound: breaks of the line at any time
  MaxDisturbed \* bound: calls of ec_recover_slave() disturbed by another break, or
               \* by a datagram lost in a whole line

ASSUME RecoveryAssumption ==
  /\ N \in Nat \ {0}
  /\ MaxFaults \in Nat
  /\ MaxDisturbed \in Nat

Slaves == 1 .. N

\* ec_state; the error and the acknowledge bit are the same bit.
NONE == 0
INIT == 1
PRE_OP == 2
SAFE_OP == 4
OPERATIONAL == 8
ACK == 16
ERROR == 16
States == {INIT, PRE_OP, SAFE_OP, OPERATIONAL}

\* Station addresses: that of each slave, and EC_TEMPNODE.
NoAddress == 0
TEMPNODE == N + 1
Addresses == Slaves \cup {TEMPNODE}

VARIABLES
  at, ls, good,   \* ethercat_loop: its place, its slave, wkc >= expectedWKC
  mon, ms,        \* ecatcheck: its place, its slave
  low,            \* ecatcheck: is wkc < expectedWKC there?
  docheckstate,   \* of the group
  state,          \* ec_slave[s].state
  islost,         \* ec_slave[s].islost: the slaves it is set for
  configadr,      \* ec_slave[s].configadr
  missed,         \* history: the loop's last request in this turn found no slave;
                  \* kept while the monitor does not start
  calm,           \* history: ec_recover_slave() found no address, and nothing was
                  \* lost, broken or mended since
  present,        \* external: the line is whole up to this slave
  al,             \* external: AL status of the slaves
  adr,            \* external: station address of the slaves
  synced, mapped, \* external: slaves with SMs, FMMUs
  faults, disturbed  \* external: how often either happened

loopVars  == <<at, ls, good, missed>>
monVars   == <<mon, ms, low, docheckstate, islost>>
adrVars   == <<configadr, adr, calm, disturbed>>
busVars   == <<present, synced, mapped, faults>>
vars == <<loopVars, monVars, state, adrVars, busVars, al>>

LoopPlaces == {"run", "exchange", "read", "test", "pre", "safe", "op"}
TempPlaces == {"clear", "temp", "undo", "ident", "name", "drop"}
RecoverPlaces == {"recover", "named", "dropped"} \cup TempPlaces
MonPlaces == {"sleep", "read", "test", "write", "init", "isinit", "pre", "ispre",
              "safe", "issafe", "recheck", "mark", "lost"} \cup RecoverPlaces

TypeOK ==
  /\ at \in LoopPlaces /\ ls \in 1 .. N + 1 /\ good \in BOOLEAN /\ missed \in BOOLEAN
  /\ mon \in MonPlaces /\ ms \in 1 .. N + 1
  /\ low \in BOOLEAN /\ docheckstate \in BOOLEAN
  /\ state \in [Slaves -> {NONE} \cup States \cup {s + ERROR : s \in States}]
  /\ islost \in SUBSET Slaves
  /\ present \in 0 .. N
  /\ al \in [Slaves -> States \cup {s + ERROR : s \in States}]
  /\ configadr \in [Slaves -> Addresses] /\ adr \in [Slaves -> {NoAddress} \cup Addresses]
  /\ synced \in SUBSET Slaves /\ mapped \in SUBSET Slaves
  /\ faults \in 0 .. MaxFaults /\ disturbed \in 0 .. MaxDisturbed /\ calm \in BOOLEAN

\* ethercat_loop has every slave in OPERATIONAL and has set inOP.
Init ==
  /\ at = "run" /\ ls = 1 /\ good = TRUE /\ missed = FALSE
  /\ mon = "sleep" /\ ms = 1
  /\ low \in BOOLEAN /\ docheckstate = FALSE
  /\ state = [s \in Slaves |-> OPERATIONAL]
  /\ islost = {}
  /\ present = N
  /\ al = [s \in Slaves |-> OPERATIONAL]
  /\ configadr = [s \in Slaves |-> s] /\ adr = [s \in Slaves |-> s]
  /\ synced = Slaves /\ mapped = Slaves
  /\ faults = 0 /\ disturbed = 0 /\ calm = FALSE

----------------------------------------------------------------------------
(* The bus.                                                                 *)

\* The slaves a datagram to an address meets, and those met by one that goes to
\* ec_slave[s].configadr.
Holders(a) == {t \in Slaves : t <= present /\ adr[t] = a}
Reached(s) == Holders(configadr[s])
Answers(s) == Reached(s) # {}

\* Every slave takes its outputs and gives its inputs, found by its FMMUs.
Full == \A s \in Slaves :
          s <= present /\ s \in synced /\ s \in mapped /\ al[s] = OPERATIONAL

\* What a slave makes of a write to its AL control register.
Controlled(s, request) ==
  LET wanted == request % 16
      now    == al[s] % 16
  IN  IF wanted = INIT THEN INIT
      ELSE IF al[s] >= ERROR /\ request < ACK /\ wanted >= now THEN al[s]
      ELSE IF wanted # NONE /\ wanted <= now THEN wanted
      ELSE IF wanted = 2 * now /\ s \in synced THEN wanted
      ELSE now + ERROR

Write(s, request) ==
  al' = [t \in Slaves |-> IF t \in Reached(s) THEN Controlled(t, request) ELSE al[t]]

\* ec_statecheck(s, ..): the state of the last slave that answers, NONE if there
\* is none.
Status(s) ==
  IF Answers(s) THEN al[CHOOSE t \in Reached(s) : \A u \in Reached(s) : u <= t] ELSE NONE

\* ec_readstate: one broadcast is enough if as many slaves as there should be
\* answer it and all are in one state without an error; a broadcast needs no
\* address.
AllSame == present = N /\ \E st \in States : \A s \in Slaves : al[s] = st
ReadState == IF AllSame THEN al ELSE [s \in Slaves |-> Status(s)]

----------------------------------------------------------------------------
(* The reconnection loop of ethercat_loop().                                *)

\* wkc < expectedWKC: a slave is missing, or nothing was sent.
LoopEnter ==
  /\ at = "run"
  /\ at' = "exchange"
  /\ UNCHANGED <<ls, good, missed, monVars, state, adrVars, busVars, al>>

LoopExchange ==
  /\ at = "exchange"
  /\ good' = Full
  /\ at' = "read"
  /\ UNCHANGED <<ls, missed, monVars, state, adrVars, busVars, al>>

LoopRead ==
  /\ at = "read"
  /\ state' = ReadState
  /\ ls' = 1
  /\ at' = "test"
  /\ UNCHANGED <<good, missed, monVars, adrVars, busVars, al>>

\* Variant of LoopTest: only slaves that dropped to SAFE_OP are asked.
LoopTestSafeOp ==
  /\ at = "test"
  /\ ls <= N
  /\ IF state[ls] = SAFE_OP
       THEN state' = [state EXCEPT ![ls] = PRE_OP] /\ at' = "pre" /\ UNCHANGED ls
       ELSE ls' = ls + 1 /\ UNCHANGED <<state, at>>
  /\ UNCHANGED <<good, missed, monVars, adrVars, busVars, al>>

LoopTest ==
  /\ at = "test"
  /\ ls <= N
  /\ IF state[ls] # OPERATIONAL
       THEN state' = [state EXCEPT ![ls] = PRE_OP] /\ at' = "pre" /\ UNCHANGED ls
       ELSE ls' = ls + 1 /\ UNCHANGED <<state, at>>
  /\ UNCHANGED <<good, missed, monVars, adrVars, busVars, al>>

\* ec_writestate(i), a pause, and the next state to ask for.
LoopAsk(place, next, request) ==
  /\ at = place
  /\ Write(ls, state[ls])
  /\ at' = next
  /\ state' = [state EXCEPT ![ls] = request]
  /\ missed' = (~ low /\ ~ Answers(ls))
  /\ UNCHANGED <<ls, good, monVars, adrVars, busVars>>

\* Variant of LoopPre: SAFE_OP is left out.
LoopPreToOp == LoopAsk("pre", "safe", OPERATIONAL)

LoopPre == LoopAsk("pre", "safe", SAFE_OP)
LoopSafe == LoopAsk("safe", "op", OPERATIONAL)

LoopOp ==
  /\ at = "op"
  /\ Write(ls, state[ls])
  /\ at' = "test"
  /\ ls' = ls + 1
  /\ missed' = FALSE
  /\ UNCHANGED <<good, monVars, state, adrVars, busVars>>

\* The test of the while, with the work counter of the last exchange.
LoopAgain ==
  /\ at = "test"
  /\ ls > N
  /\ at' = IF good THEN "run" ELSE "exchange"
  /\ UNCHANGED <<ls, good, missed, monVars, state, adrVars, busVars, al>>

----------------------------------------------------------------------------
(* The monitor ecatcheck().                                                 *)

MonGo(place) == mon' = place

MonEnter ==
  /\ mon = "sleep"
  /\ low \/ docheckstate
  /\ docheckstate' = FALSE
  /\ MonGo("read")
  /\ UNCHANGED <<loopVars, low, ms, islost, state, adrVars, busVars, al>>

MonRead ==
  /\ mon = "read"
  /\ state' = ReadState
  /\ ms' = 1
  /\ MonGo("test")
  /\ UNCHANGED <<loopVars, low, docheckstate, islost, adrVars, busVars, al>>

MonTest ==
  /\ mon = "test"
  /\ ms <= N
  /\ docheckstate' = (docheckstate \/ state[ms] # OPERATIONAL)
  /\ \/ state[ms] = OPERATIONAL /\ MonGo("lost") /\ UNCHANGED state
     \/ state[ms] = SAFE_OP + ERROR /\ MonGo("write")
          /\ state' = [state EXCEPT ![ms] = SAFE_OP + ACK]
     \/ state[ms] = SAFE_OP /\ MonGo("write")
          /\ state' = [state EXCEPT ![ms] = OPERATIONAL]
     \/ state[ms] \notin {NONE, SAFE_OP, SAFE_OP + ERROR, OPERATIONAL}
          /\ MonGo("init") /\ UNCHANGED state
     \/ state[ms] = NONE /\ MonGo(IF ms \in islost THEN "lost" ELSE "recheck")
          /\ UNCHANGED state
  /\ UNCHANGED <<loopVars, low, ms, islost, adrVars, busVars, al>>

MonWrite ==
  /\ mon = "write"
  /\ Write(ms, state[ms])
  /\ MonGo("lost")
  /\ UNCHANGED <<loopVars, low, ms, docheckstate, islost, state, adrVars, busVars>>

\* ec_reconfig_slave: INIT, sync managers, PRE_OP, SAFE_OP, FMMUs.
ReconfigInit ==
  /\ mon = "init"
  /\ Write(ms, INIT)
  /\ MonGo(IF Answers(ms) THEN "isinit" ELSE "lost")
  /\ UNCHANGED <<loopVars, low, ms, docheckstate, islost, state, adrVars, busVars>>

\* ec_statecheck stores what it reads; a slave that answers is not lost.
Check(place, next, wanted) ==
  /\ mon = place
  /\ state' = [state EXCEPT ![ms] = Status(ms)]
  /\ MonGo(IF Status(ms) % 16 = wanted THEN next ELSE "lost")
  /\ islost' = IF next = "lost" \/ Status(ms) % 16 # wanted
                 THEN (IF Status(ms) # NONE THEN islost \ {ms} ELSE islost)
                 ELSE islost
  /\ UNCHANGED <<loopVars, low, ms, docheckstate, adrVars, present, synced, faults, al>>

ReconfigIsInit == Check("isinit", "pre", INIT) /\ UNCHANGED mapped

ReconfigPre ==
  /\ mon = "pre"
  /\ synced' = synced \cup Reached(ms)
  /\ al' = [t \in Slaves |-> IF t \notin Reached(ms) THEN al[t]
                             ELSE IF al[t] = INIT THEN PRE_OP ELSE Controlled(t, PRE_OP)]
  /\ MonGo("ispre")
  /\ UNCHANGED <<loopVars, low, ms, docheckstate, islost, state, adrVars, present, mapped, faults>>

ReconfigIsPre == Check("ispre", "safe", PRE_OP) /\ UNCHANGED mapped

ReconfigSafe ==
  /\ mon = "safe"
  /\ Write(ms, SAFE_OP)
  /\ MonGo("issafe")
  /\ UNCHANGED <<loopVars, low, ms, docheckstate, islost, state, adrVars, busVars>>

ReconfigIsSafe ==
  /\ Check("issafe", "lost", SAFE_OP)
  /\ mapped' = mapped \cup Reached(ms)

Recheck ==
  /\ mon = "recheck"
  /\ state' = [state EXCEPT ![ms] = Status(ms)]
  /\ MonGo("mark")
  /\ UNCHANGED <<loopVars, low, ms, docheckstate, islost, adrVars, busVars, al>>

Mark ==
  /\ mon = "mark"
  /\ islost' = IF state[ms] = NONE THEN islost \cup {ms} ELSE islost
  /\ MonGo("lost")
  /\ UNCHANGED <<loopVars, low, ms, docheckstate, state, adrVars, busVars, al>>

\* Variant of MonLost: the recovery is left out.
MonLostWaits ==
  /\ mon = "lost"
  /\ MonGo("test") /\ ms' = ms + 1
  /\ islost' = IF state[ms] = NONE THEN islost ELSE islost \ {ms}
  /\ UNCHANGED <<loopVars, low, docheckstate, state, adrVars, busVars, al>>

\* if (islost): recover a slave that gives no state, the others are found.
MonLost ==
  /\ mon = "lost"
  /\ IF ms \in islost /\ state[ms] = NONE
       THEN MonGo("recover") /\ UNCHANGED <<ms, islost>>
       ELSE MonGo("test") /\ ms' = ms + 1 /\ islost' = islost \ {ms}
  /\ UNCHANGED <<loopVars, low, docheckstate, state, adrVars, busVars, al>>

----------------------------------------------------------------------------
(* ec_recover_slave(), called by the monitor.                                *)

\* A datagram of it is taken and answered, or it is lost: before it is taken,
\* or with its answer.
Datagram(taken, answered) ==
  \/ taken /\ answered /\ UNCHANGED disturbed
  \/ ~ answered /\ disturbed < MaxDisturbed /\ disturbed' = disturbed + 1

\* A write to the address register of the slaves at an address.
Readdress(old, new, taken) ==
  adr' = [s \in Slaves |-> IF taken /\ s \in Holders(old) THEN new ELSE adr[s]]

\* if (ec_recover_slave()) islost = FALSE, and on to the next slave.
Return(rval) ==
  /\ MonGo("test")
  /\ ms' = ms + 1
  /\ islost' = IF rval THEN islost \ {ms} ELSE islost

\* The address of the slave at that place: its own, none, or any other.
RecoverLook ==
  /\ mon = "recover"
  /\ \E answered \in BOOLEAN :
       /\ Datagram(TRUE, answered)
       /\ IF answered /\ ms <= present /\ adr[ms] = NoAddress
            THEN MonGo("clear") /\ calm' = TRUE /\ UNCHANGED <<ms, islost>>
            ELSE UNCHANGED calm /\ Return(answered /\ ms <= present /\ adr[ms] = configadr[ms])
  /\ UNCHANGED <<loopVars, low, docheckstate, state, configadr, adr, busVars, al>>

\* Variant of RecoverClear: EC_TEMPNODE is taken to be free.
RecoverClearNone ==
  /\ mon = "clear"
  /\ MonGo("temp")
  /\ UNCHANGED <<loopVars, low, ms, docheckstate, islost, state, adrVars, busVars, al>>

\* Slaves that other calls left at EC_TEMPNODE; the answer is not waited for.
RecoverClear ==
  /\ mon = "clear"
  /\ \E taken, answered \in BOOLEAN :
       /\ Datagram(taken, answered)
       /\ calm' = (calm /\ answered)
       /\ Readdress(TEMPNODE, NoAddress, taken)
  /\ MonGo("temp")
  /\ UNCHANGED <<loopVars, low, ms, docheckstate, islost, state, configadr, busVars, al>>

\* From here on the other thread meets the slave at EC_TEMPNODE.
RecoverTemp ==
  /\ mon = "temp"
  /\ \E taken, answered \in BOOLEAN :
       /\ Datagram(taken, answered)
       /\ calm' = (calm /\ answered)
       /\ adr' = IF taken /\ ms <= present THEN [adr EXCEPT ![ms] = TEMPNODE] ELSE adr
       /\ IF answered /\ ms <= present
            THEN MonGo("ident") /\ configadr' = [configadr EXCEPT ![ms] = TEMPNODE]
            ELSE MonGo("undo") /\ UNCHANGED configadr
  /\ UNCHANGED <<loopVars, low, ms, docheckstate, islost, state, busVars, al>>

RecoverUndo ==
  /\ mon = "undo"
  /\ \E taken, answered \in BOOLEAN :
       Datagram(taken, answered) /\ Readdress(TEMPNODE, NoAddress, taken)
  /\ calm' = FALSE
  /\ Return(FALSE)
  /\ UNCHANGED <<loopVars, low, docheckstate, state, configadr, busVars, al>>

\* Alias and identity are read from whoever is at EC_TEMPNODE: those of the slave
\* are as configured, another one may be equal to it.  A lost answer counts as 0,
\* which is the alias of most slaves.
RecoverIdent ==
  /\ mon = "ident"
  /\ \E answered \in BOOLEAN :
       /\ Datagram(TRUE, answered)
       /\ calm' = (calm /\ answered)
       /\ \/ Holders(TEMPNODE) # {} /\ MonGo("name")
          \/ ~ (answered /\ Holders(TEMPNODE) = {ms}) /\ MonGo("drop")
  /\ UNCHANGED <<loopVars, low, ms, docheckstate, islost, state, configadr, adr, busVars, al>>

\* The result is the work counter, or -1 without a frame, which counts as true.
RecoverName ==
  /\ mon = "name"
  /\ \E taken, answered \in BOOLEAN :
       /\ Datagram(taken, answered)
       /\ calm' = (calm /\ answered)
       /\ Readdress(TEMPNODE, ms, taken)
       /\ MonGo(IF Holders(TEMPNODE) = {} /\ present > 0 /\ answered THEN "dropped" ELSE "named")
  /\ UNCHANGED <<loopVars, low, ms, docheckstate, islost, state, configadr, busVars, al>>

RecoverDrop ==
  /\ mon = "drop"
  /\ \E taken, answered \in BOOLEAN :
       /\ Datagram(taken, answered)
       /\ calm' = (calm /\ answered)
       /\ Readdress(TEMPNODE, NoAddress, taken)
  /\ MonGo("dropped")
  /\ UNCHANGED <<loopVars, low, ms, docheckstate, islost, state, configadr, busVars, al>>

RecoverRestore ==
  /\ mon \in {"named", "dropped"}
  /\ configadr' = [configadr EXCEPT ![ms] = ms]
  /\ calm' = FALSE
  /\ Return(mon = "named")
  /\ UNCHANGED <<loopVars, low, docheckstate, state, adr, disturbed, busVars, al>>

MonDone ==
  /\ mon = "test"
  /\ ms > N
  /\ MonGo("sleep")
  /\ UNCHANGED <<loopVars, low, ms, docheckstate, islost, state, adrVars, busVars, al>>

----------------------------------------------------------------------------
(* The line breaks and is mended.                                           *)

Break ==
  /\ \/ faults < MaxFaults /\ faults' = faults + 1 /\ UNCHANGED disturbed
     \/ mon \in TempPlaces /\ disturbed < MaxDisturbed /\ disturbed' = disturbed + 1 /\ UNCHANGED faults
  /\ present' \in 0 .. present - 1
  /\ calm' = FALSE
  /\ UNCHANGED <<loopVars, monVars, state, configadr, adr, synced, mapped, al>>

\* Nobody sees before what the slaves behind the break have become meanwhile: they
\* may have lost their power, or their watchdogs have expired.
Mend ==
  /\ present < N
  /\ present' = N
  /\ \E unpowered \in SUBSET (present + 1 .. N),
        expired \in SUBSET {s \in present + 1 .. N : al[s] = OPERATIONAL} :
       /\ unpowered \cap expired = {}
       /\ al' = [s \in Slaves |-> IF s \in unpowered THEN INIT
                                  ELSE IF s \in expired THEN SAFE_OP + ERROR ELSE al[s]]
       /\ adr' = [s \in Slaves |-> IF s \in unpowered THEN NoAddress ELSE adr[s]]
       /\ synced' = synced \ unpowered
       /\ mapped' = mapped \ unpowered
  /\ calm' = FALSE
  /\ UNCHANGED <<loopVars, monVars, state, configadr, disturbed, faults>>

----------------------------------------------------------------------------
Loop == LoopEnter \/ LoopExchange \/ LoopRead \/ LoopTest \/ LoopPre \/ LoopSafe
          \/ LoopOp \/ LoopAgain
Recover == RecoverLook \/ RecoverClear \/ RecoverTemp \/ RecoverUndo \/ RecoverIdent
             \/ RecoverName \/ RecoverDrop \/ RecoverRestore
Monitor == MonEnter \/ MonRead \/ MonTest \/ MonWrite \/ ReconfigInit \/ ReconfigIsInit
          \/ ReconfigPre \/ ReconfigIsPre \/ ReconfigSafe \/ ReconfigIsSafe
          \/ Recheck \/ Mark \/ MonLost \/ Recover \/ MonDone
Bus == Break \/ Mend

Next == Loop \/ Monitor \/ Bus

Spec == Init /\ [][Next]_vars

\* Both threads run, each step of one moving it, and the line is mended.
FairSpec == Spec /\ WF_<<at, ls>>(Loop) /\ WF_<<mon, ms>>(Monitor) /\ WF_present(Mend)

----------------------------------------------------------------------------
\* Neither did the monitor start nor did a slave lose its power.
LoopAlone == ~ low /\ \A s \in Slaves : adr[s] = s

\* The reconnection loop comes to an end: the slaves are back and the cyclic
\* loop goes on.
Reconnects == at = "exchange" ~> at = "run"

\* The reconnection loop needs no monitor to bring back slaves that kept their
\* power.
ReconnectsAlone == []LoopAlone => Reconnects

\* The loop asks each slave for states in an order it can follow
\* (ethercat.c:309-318): a slave that answers is driven into an error only if
\* the line was broken when the request before was sent.
RequestsAreLegal ==
  [][LoopAlone => \A s \in Slaves :
       al[s] < ERROR /\ al'[s] >= ERROR => s > present \/ (s = ls /\ missed)]_vars

\* Left at EC_TEMPNODE, or given the address of another slave from there:
\* ec_recover_slave() passes over such a slave (ethercatconfig.c:1568).
Stranded(s) == adr[s] \notin {NoAddress, s} /\ ~ (s = ms /\ mon \in RecoverPlaces)

\* No slave stays lost unless it is stranded: the monitor finds it or gives it its
\* address again, whatever breaks, is lost, or is left over from broken off calls, and
\* whatever the loop writes into ec_slave[] and sends to EC_TEMPNODE meanwhile.
LostIsFound == \A s \in Slaves : s \in islost ~> s \notin islost \/ Stranded(s)

\* "clear possible slaves at EC_TEMPNODE" (ethercatconfig.c:1570): a call that
\* nothing disturbs reads the identity of the slave at that place, and gives the
\* address to it alone, whoever earlier calls have left at EC_TEMPNODE.
RenamesOne == calm /\ mon \in {"ident", "name"} => Holders(TEMPNODE) = {ms}
=============================================================================
