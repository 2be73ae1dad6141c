---------------------------- MODULE StartupProofs ----------------------------
(***************************************************************************)
(* Theorems about Startup, for every number of slaves, of checks and of    *)
(* breaks of the line: what the start reports is so, and the loop is       *)
(* entered with slaves that are mapped.                                    *)
(***************************************************************************)
EXTENDS Startup, FiniteSetTheorems, TLAPS

USE DEF NONE, INIT, PRE_OP, BOOT, SAFE_OP, OPERATIONAL, ACK, ERROR

----------------------------------------------------------------------------
(* The inductive invariant.                                                 *)

High(s) == al[s] % 16 \in {SAFE_OP, OPERATIONAL}
Asks(s, state) == request[s] % 16 = state

Configuring == {"config", "preop", "ispreop", "map"}
InRound == {"config", "init", "isinit", "boot", "isboot", "init again", "isinit again", "wait",
            "preop", "ispreop", "map", "issafeop"}

\* Slaves behind a break have lost what they were told.
Behind == \A s \in Slaves : s > present => al[s] = INIT /\ request[s] = NONE

\* The socket is open while the slaves are configured.
Open == at \in {"detect"} \cup InRound => socket

\* While they are configured no slave is in SAFE_OP or OPERATIONAL but those
\* that were left there and counted; each has its address when its turn is over.
Counted ==
  at \in Configuring =>
    \A s \in Slaves :
      /\ ~ Asks(s, SAFE_OP)
      /\ High(s) => s <= count /\ (at # "config" \/ s < ls => s \in addressed)

\* After the mapping those that are there or are asked to go there are mapped.
HighAreMapped ==
  at \in {"issafeop", "op", "isop"} /\ socket =>
    /\ \A s \in Slaves : High(s) \/ Asks(s, SAFE_OP) => s \in mapped
    /\ 1 \in mapped => outputs

\* A start that succeeded has the drive's outputs, and main points to them
\* before the listing, which comes once, detects the slaves again.
Started ==
  result = "ok" =>
    \/ at = "pointers" /\ outputs
    \/ pointer /\ at \in {"reopen", "op", "isop", "running", "gave up"}
    \/ pointer /\ round = 3 /\ at \in {"detect", "config", "map", "issafeop"}

\* The count of checks runs out only when the loop is entered or given up.
ChecksLeft == at \notin {"running", "gave up"} => chk >= 0

Entered == inOP => at = "running"

IInv == TypeOK /\ ChecksLeft /\ Entered /\ Behind /\ Open /\ Counted /\ HighAreMapped /\ Started

----------------------------------------------------------------------------
(* The slaves and the broadcasts.                                            *)

AlStates == States \cup {s + ERROR : s \in States}
AlRequests == {NONE} \cup States \cup {s + ACK : s \in States}

LEMMA StateNumbers ==
  /\ AlStates = {1, 2, 3, 4, 8, 17, 18, 19, 20, 24}
  /\ AlRequests = {0, 1, 2, 3, 4, 8, 17, 18, 19, 20, 24}
BY DEF AlStates, AlRequests, States

\* A slave gets to SAFE_OP or OPERATIONAL from one of them, or when it is asked
\* for SAFE_OP.
LEMMA ControlledType ==
  ASSUME TypeOK, NEW s \in Slaves
  PROVE  /\ Controlled(s) \in AlStates
         /\ Controlled(s) % 16 \in {SAFE_OP, OPERATIONAL} => High(s) \/ Asks(s, SAFE_OP)
<1> DEFINE wanted == request[s] % 16
           now == al[s] % 16
<1>1. al[s] \in {1, 2, 3, 4, 8, 17, 18, 19, 20, 24} /\ request[s] \in {0, 1, 2, 3, 4, 8, 17, 18, 19, 20, 24}
  BY StateNumbers DEF TypeOK, AlStates, AlRequests
<1>2. wanted \in {0, 1, 2, 3, 4, 8} /\ now \in {1, 2, 3, 4, 8}
  BY <1>1
<1>3. /\ Controlled(s) \in {INIT, al[s], wanted, now + ERROR}
      /\ Controlled(s) = wanted => wanted = INIT \/ wanted = al[s] \/ wanted = now + ERROR \/ wanted = now \/ <<now, wanted>> \in Legal(s)
  BY DEF Controlled
<1>4. <<now, wanted>> \in Legal(s) =>
        /\ wanted \in {1, 2, 3, 4, 8}
        /\ wanted = OPERATIONAL => now = SAFE_OP
  BY DEF Legal
<1>5. wanted # 0 \/ Controlled(s) # wanted
  BY <1>1, <1>2, <1>3, <1>4
<1>6. Controlled(s) \in AlStates
  BY <1>1, <1>2, <1>3, <1>5, StateNumbers
<1>7. ASSUME Controlled(s) % 16 \in {SAFE_OP, OPERATIONAL}, wanted # SAFE_OP
      PROVE  now \in {SAFE_OP, OPERATIONAL}
  <2>1. CASE Controlled(s) = wanted
    BY <1>1, <1>2, <1>3, <1>4, <1>7, <2>1
  <2>2. CASE Controlled(s) # wanted
    BY <1>1, <1>2, <1>3, <1>7, <2>2
  <2> QED
    BY <2>1, <2>2
<1> QED
  BY <1>6, <1>7 DEF High, Asks

LEMMA ThereType ==
  ASSUME TypeOK
  PROVE  /\ There \subseteq Slaves /\ present \in Nat
         /\ socket => There = 1 .. present /\ Cardinality(There) = present
         /\ ~ socket => There = {} /\ Cardinality(There) = 0
         /\ Cardinality(There) \in 0 .. N
<1>1. present \in Nat /\ present <= N
  BY StartAssumption DEF TypeOK
<1>2. There \subseteq Slaves
  BY <1>1, StartAssumption DEF There, Slaves
<1>3. socket => There = 1 .. present /\ Cardinality(There) = present
  BY <1>1, FS_Interval DEF There
<1>4. ~ socket => There = {} /\ Cardinality(There) = 0
  BY FS_EmptySet DEF There
<1>5. Cardinality(There) \in 0 .. N
  BY <1>1, <1>3, <1>4, StartAssumption
<1> QED
  BY <1>1, <1>2, <1>3, <1>4, <1>5

LEMMA AskedType ==
  ASSUME TypeOK, NEW set, NEW state \in AlRequests
  PROVE  /\ Asked(set, state) \in [Slaves -> AlRequests]
         /\ \A s \in Slaves : Asked(set, state)[s] = IF s \in set THEN state ELSE request[s]
BY DEF TypeOK, Asked, AlRequests

\* If the bits are those of one state, every slave that answers is in it.
LEMMA OneState ==
  ASSUME TypeOK, NEW v \in {SAFE_OP, OPERATIONAL}, BusState = v
  PROVE  There # {} /\ \A s \in There : al[s] = v
<1>1. /\ Bit(1) \in {0, 1} /\ Bit(2) \in {0, 2} /\ Bit(4) \in {0, 4} /\ Bit(8) \in {0, 8} /\ Bit(16) \in {0, 16}
  BY DEF Bit
<1>2. Bit(1) = 0 /\ Bit(2) = 0 /\ Bit(16) = 0 /\ (v = 4 => Bit(8) = 0 /\ Bit(4) = 4) /\ (v = 8 => Bit(4) = 0 /\ Bit(8) = 8)
  BY <1>1 DEF BusState
<1>3. There # {}
  BY <1>2 DEF Bit
<1>4. ASSUME NEW s \in There
      PROVE  al[s] = v
  <2>1. al[s] \in {1, 2, 3, 4, 8, 17, 18, 19, 20, 24}
    BY ThereType, StateNumbers DEF TypeOK, AlStates
  <2>2. /\ (al[s] \div 1) % 2 # 1 /\ (al[s] \div 2) % 2 # 1 /\ (al[s] \div 16) % 2 # 1
        /\ v = 4 => (al[s] \div 8) % 2 # 1
        /\ v = 8 => (al[s] \div 4) % 2 # 1
    BY <1>2 DEF Bit
  <2> QED
    BY <2>1, <2>2
<1> QED
  BY <1>3, <1>4

----------------------------------------------------------------------------
(* Types.                                                                    *)

Flags == {socket, outputs, pointer, inOP, trouble} \subseteq BOOLEAN
Numbers ==
  /\ at \in Places /\ round \in 1 .. 3 /\ ls \in 1 .. N + 1 /\ chk \in - 1 .. Checks
  /\ count \in 0 .. N /\ result \in {"none", "ok", "failed"}
Bus ==
  /\ present \in 0 .. N /\ faults \in 0 .. MaxFaults
  /\ al \in [Slaves -> AlStates] /\ request \in [Slaves -> AlRequests]
  /\ {addressed, mapped, boot} \subseteq SUBSET Slaves

LEMMA Typed == TypeOK <=> Flags /\ Numbers /\ Bus
BY DEF TypeOK, Flags, Numbers, Bus, AlStates, AlRequests

\* All steps of main() but those that write to the slaves.
Looks ==
  \/ Opened \/ NotOpened \/ SlavesConfigured
  \/ Check("isinit", INIT, {INIT}, "boot") \/ Check("isboot", BOOT, {BOOT, INIT}, "init again")
  \/ Check("isinit again", INIT, {INIT}, "wait") \/ AllBack \/ Check("ispreop", PRE_OP, {PRE_OP}, "map")
  \/ MapWait \/ IsSafeOp \/ SetPointers \/ Reopened \/ NotReopened \/ IsOp
Asking ==
  \/ Ask("init", INIT + ACK, "isinit") \/ Ask("boot", BOOT + ACK, "isboot")
  \/ Ask("init again", INIT + ACK, "isinit again") \/ Ask("preop", PRE_OP, "ispreop")
  \/ Ask("op", OPERATIONAL, "isop")

LEMMA MainSteps == Main => Looks \/ Asking \/ Detect \/ ConfigSlave \/ Map
BY DEF Main, Looks, Asking

LEMMA TypeInit == Init => TypeOK
<1> SUFFICES ASSUME Init
             PROVE  Flags /\ Numbers /\ Bus
  BY Typed
<1>1. Flags
  BY DEF Init, Flags
<1>2. Numbers
  BY StartAssumption DEF Init, Numbers, Places
<1>3. present \in 0 .. N /\ faults \in 0 .. MaxFaults
  BY StartAssumption DEF Init
<1>4. al \in [Slaves -> AlStates] /\ request \in [Slaves -> AlRequests]
  BY StateNumbers DEF Init
<1>5. {addressed, mapped, boot} \subseteq SUBSET Slaves
  BY DEF Init
<1> QED
  BY <1>1, <1>2, <1>3, <1>4, <1>5 DEF Bus

LEMMA FlagsStep ==
  ASSUME Flags, [Next]_vars
  PROVE  Flags'
<1>1. CASE Main
  <2>1. socket' \in BOOLEAN
    BY <1>1 DEF Flags, Main, Opened, NotOpened, Detect, ConfigSlave, SlavesConfigured, Ask, Check, Abort, AllBack, MapWait, Map,
                IsSafeOp, SetPointers, Reopened, NotReopened, IsOp
  <2>2. outputs' \in BOOLEAN
    BY <1>1 DEF Flags, Main, Opened, NotOpened, Detect, ConfigSlave, SlavesConfigured, Ask, Check, AllBack, MapWait, Map,
                IsSafeOp, SetPointers, Reopened, NotReopened, IsOp
  <2>3. pointer' \in BOOLEAN
    BY <1>1 DEF Flags, Main, Opened, NotOpened, Detect, ConfigSlave, SlavesConfigured, Ask, Check, AllBack, MapWait, Map,
                IsSafeOp, SetPointers, Reopened, NotReopened, IsOp
  <2>4. inOP' \in BOOLEAN
    BY <1>1 DEF Flags, Main, Opened, NotOpened, Detect, ConfigSlave, SlavesConfigured, Ask, Check, AllBack, MapWait, Map,
                IsSafeOp, SetPointers, Reopened, NotReopened, IsOp
  <2>5. trouble' \in BOOLEAN
    BY <1>1 DEF Flags, Main, Opened, NotOpened, Detect, ConfigSlave, SlavesConfigured, Ask, Check, AllBack, MapWait, Map,
                IsSafeOp, SetPointers, Reopened, NotReopened, IsOp, Overtakes, TimerEnds
  <2> QED
    BY <2>1, <2>2, <2>3, <2>4, <2>5 DEF Flags
<1>2. CASE (\E s \in Slaves : SlaveActs(s)) \/ Break \/ Mend \/ UNCHANGED vars
  BY <1>2 DEF Flags, SlaveActs, Break, Mend, vars, program
<1> QED
  BY <1>1, <1>2 DEF Next

LEMMA AfterConfig ==
  ASSUME TypeOK, SlavesConfigured
  PROVE  at' \in {"init", "preop", "map"} /\ (round = 3 => at' = "map")
<1>1. round \in {1, 2, 3}
  BY DEF TypeOK
<1> QED
  BY <1>1 DEF SlavesConfigured, Goto

LEMMA NumbersStep ==
  ASSUME TypeOK, ChecksLeft, [Next]_vars
  PROVE  Numbers'
<1>1. CASE Looks
  <2>1. at' \in Places /\ round' \in 1 .. 3
    <3>1. round' \in {round, 2, 3}
      BY <1>1 DEF Looks, Opened, NotOpened, SlavesConfigured, Check, AllBack, MapWait, IsSafeOp, SetPointers, Reopened, NotReopened, IsOp
    <3>2. at' \in {at, "detect", "pointers", "boot", "init again", "wait", "map", "op", "reopen", "running", "gave up"} \/ SlavesConfigured
      BY <1>1 DEF Looks, Opened, NotOpened, Check, Abort, Goto, AllBack, MapWait, IsSafeOp, SetPointers, Reopened, NotReopened, IsOp
    <3>3. SlavesConfigured => at' \in {"init", "preop", "map"}
      BY AfterConfig
    <3>4. at \in Places /\ round \in 1 .. 3
      BY DEF TypeOK
    <3>5. at' \in Places
      BY <3>2, <3>3, <3>4 DEF Places
    <3>6. round' \in 1 .. 3
      BY <3>1, <3>4
    <3> QED
      BY <3>5, <3>6
  <2>2. ls' \in 1 .. N + 1
    <3>1. ls' \in {ls, 1} \/ (ls <= count /\ ls' = ls + 1)
      BY <1>1 DEF Looks, Opened, NotOpened, SlavesConfigured, Check, Abort, Goto, AllBack, MapWait, SlaveLeft,
                  IsSafeOp, SetPointers, Reopened, NotReopened, IsOp
    <3> QED
      BY <3>1, StartAssumption DEF TypeOK
  <2>3. chk' \in - 1 .. Checks
    <3>1. chk' = chk \/ (at = "isop" /\ chk' = chk - 1)
      BY <1>1 DEF Looks, Opened, NotOpened, SlavesConfigured, Check, Abort, Goto, AllBack, MapWait,
                  IsSafeOp, SetPointers, Reopened, NotReopened, IsOp
    <3>2. chk \in - 1 .. Checks /\ (at = "isop" => chk >= 0)
      BY DEF TypeOK, ChecksLeft
    <3> QED
      BY <3>1, <3>2, StartAssumption
  <2>4. count' \in 0 .. N /\ result' \in {"none", "ok", "failed"}
    BY <1>1 DEF TypeOK, Looks, Opened, NotOpened, SlavesConfigured, Check, Abort, Goto, AllBack, MapWait,
                IsSafeOp, SetPointers, Reopened, NotReopened, IsOp
  <2> QED
    BY <2>1, <2>2, <2>3, <2>4 DEF Numbers
<1>2. CASE Asking
  BY <1>2 DEF TypeOK, Numbers, Asking, Ask, Goto, Places
<1>3. CASE Detect
  <2>1. count' \in 0 .. N /\ ls' \in 1 .. N + 1
    BY <1>3, ThereType, StartAssumption DEF Detect
  <2> QED
    BY <1>3, <2>1 DEF TypeOK, Numbers, Detect, Abort, Goto, Places
<1>4. CASE ConfigSlave
  <2>1. ls' \in 1 .. N + 1
    BY <1>4, StartAssumption DEF TypeOK, ConfigSlave, SlaveLeft
  <2> QED
    BY <1>4, <2>1 DEF TypeOK, Numbers, ConfigSlave
<1>5. CASE Map
  BY <1>5 DEF TypeOK, Numbers, Map, Goto, Places
<1>6. CASE (\E s \in Slaves : SlaveActs(s)) \/ Break \/ Mend \/ UNCHANGED vars
  BY <1>6 DEF TypeOK, Numbers, SlaveActs, Break, Mend, vars, program
<1> QED
  BY <1>1, <1>2, <1>3, <1>4, <1>5, <1>6, MainSteps DEF Next

LEMMA BusStep ==
  ASSUME TypeOK, [Next]_vars
  PROVE  Bus'
<1> USE Typed DEF Bus
<1>1. CASE Looks
  BY <1>1 DEF Looks, Opened, NotOpened, SlavesConfigured, Check, AllBack, MapWait, IsSafeOp, SetPointers, Reopened, NotReopened, IsOp, bus
<1>2. CASE Asking
  <2>1. request' \in [Slaves -> AlRequests]
    <3>1. \/ request' = Asked(There, INIT + ACK) \/ request' = Asked(There, BOOT + ACK)
          \/ request' = Asked(There, PRE_OP) \/ request' = Asked(There, OPERATIONAL)
      BY <1>2, Zenon DEF Asking, Ask, Broadcast
    <3>2. {INIT + ACK, BOOT + ACK, PRE_OP, OPERATIONAL} \subseteq AlRequests
      BY StateNumbers
    <3> QED
      BY <3>1, <3>2, AskedType
  <2> QED
    BY <1>2, <2>1 DEF Asking, Ask
<1>3. CASE Detect
  <2>1. request' \in [Slaves -> AlRequests]
    BY <1>3, AskedType, StateNumbers DEF Detect, Broadcast
  <2> QED
    BY <1>3, <2>1 DEF Detect
<1>4. CASE ConfigSlave
  <2>1. request' \in [Slaves -> AlRequests]
    BY <1>4, AskedType, StateNumbers DEF ConfigSlave
  <2> QED
    BY <1>4, <2>1, ThereType DEF ConfigSlave
<1>5. CASE Map
  <2>1. request' \in [Slaves -> AlRequests]
    BY <1>5, AskedType, StateNumbers DEF Map
  <2> QED
    BY <1>5, <2>1, ThereType DEF Map
<1>6. ASSUME NEW s \in Slaves, SlaveActs(s)
      PROVE  Bus'
  <2>1. Controlled(s) \in AlStates
    BY ControlledType
  <2>2. al' \in [Slaves -> AlStates] /\ request' \in [Slaves -> AlRequests]
    BY <1>6, <2>1, StateNumbers DEF SlaveActs
  <2> QED
    BY <1>6, <2>2 DEF SlaveActs
<1>7. CASE Break
  <2>1. PICK k \in 0 .. present - 1 :
          /\ present' = k
          /\ al' = [s \in Slaves |-> IF s > k THEN INIT ELSE al[s]]
          /\ request' = [s \in Slaves |-> IF s > k THEN NONE ELSE request[s]]
          /\ addressed' = addressed \cap (1 .. k) /\ mapped' = mapped \cap (1 .. k)
    BY <1>7 DEF Break
  <2>2. al' \in [Slaves -> AlStates] /\ request' \in [Slaves -> AlRequests]
    BY <2>1, StateNumbers
  <2>3. present' \in 0 .. N /\ faults' \in 0 .. MaxFaults
    BY <1>7, <2>1, StartAssumption DEF Break
  <2> QED
    BY <1>7, <2>1, <2>2, <2>3 DEF Break
<1>8. CASE Mend
  BY <1>8, StartAssumption DEF Mend
<1>9. CASE UNCHANGED vars
  BY <1>9 DEF vars, bus
<1> QED
  BY <1>1, <1>2, <1>3, <1>4, <1>5, <1>6, <1>7, <1>8, <1>9, MainSteps DEF Next

LEMMA ChecksStep ==
  ASSUME TypeOK, ChecksLeft, [Next]_vars
  PROVE  ChecksLeft'
<1>1. CASE IsOp
  <2>1. at = "isop" /\ chk' = chk - 1
    BY <1>1 DEF IsOp
  <2>2. CASE chk > 0
    <3>1. chk \in Int
      BY StartAssumption DEF TypeOK
    <3>2. chk' >= 0
      BY <2>1, <2>2, <3>1
    <3> QED
      BY <3>2 DEF ChecksLeft
  <2>3. CASE ~ (chk > 0)
    <3>1. at' = "running" \/ at' = "gave up"
      BY <1>1, <2>3, Zenon DEF IsOp, Goto
    <3> QED
      BY <3>1 DEF ChecksLeft
  <2> QED
    BY <2>2, <2>3
<1>2. CASE chk' = chk /\ (at \in {"running", "gave up"} => at' = at)
  BY <1>2 DEF ChecksLeft
<1>3. IsOp \/ chk' = chk
  BY DEF Next, Main, Opened, NotOpened, Detect, ConfigSlave, SlavesConfigured, Ask, Check, AllBack, MapWait, Map,
         IsSafeOp, SetPointers, Reopened, NotReopened, SlaveActs, Break, Mend, vars, program
<1>4. at \in {"running", "gave up"} => at' = at
  BY DEF Next, Main, Opened, NotOpened, Detect, ConfigSlave, SlavesConfigured, Ask, Check, AllBack, MapWait, Map,
         IsSafeOp, SetPointers, Reopened, NotReopened, IsOp, SlaveActs, Break, Mend, vars, program
<1> QED
  BY <1>1, <1>2, <1>3, <1>4

LEMMA TypeStep ==
  ASSUME TypeOK, ChecksLeft, [Next]_vars
  PROVE  TypeOK'
<1>1. Flags' /\ Numbers' /\ Bus'
  BY Typed, FlagsStep, NumbersStep, BusStep
<1> QED
  BY <1>1 DEF TypeOK, Flags, Numbers, Bus, AlStates, AlRequests

----------------------------------------------------------------------------
(* What the slaves are told.                                                 *)

\* Requests are written to slaves that answer.
LEMMA BehindAsked ==
  ASSUME TypeOK, Behind, NEW set \in SUBSET There, NEW state \in AlRequests,
         request' = Asked(set, state), UNCHANGED <<al, present>>
  PROVE  Behind'
<1> SUFFICES ASSUME NEW s \in Slaves, s > present'
             PROVE  al'[s] = INIT /\ request'[s] = NONE
  BY DEF Behind
<1>1. s \notin There
  BY ThereType DEF Slaves
<1> QED
  BY <1>1, AskedType DEF Behind

LEMMA BehindStep ==
  ASSUME TypeOK, Behind, [Next]_vars
  PROVE  Behind'
<1>1. CASE Looks
  BY <1>1 DEF Behind, Looks, Opened, NotOpened, SlavesConfigured, Check, AllBack, MapWait, IsSafeOp, SetPointers, Reopened,
              NotReopened, IsOp, bus
<1>0. {INIT + ACK, BOOT + ACK, PRE_OP + ACK, PRE_OP, SAFE_OP, OPERATIONAL} \subseteq AlRequests
  BY StateNumbers
<1>2. CASE Asking
  <2>1. \/ request' = Asked(There, INIT + ACK) \/ request' = Asked(There, BOOT + ACK)
        \/ request' = Asked(There, PRE_OP) \/ request' = Asked(There, OPERATIONAL)
    BY <1>2, Zenon DEF Asking, Ask, Broadcast
  <2>2. UNCHANGED <<al, present>>
    BY <1>2 DEF Asking, Ask
  <2> QED
    BY <1>0, <2>1, <2>2, BehindAsked
<1>3. CASE Detect
  BY <1>3, <1>0, BehindAsked DEF Detect, Broadcast
<1>4. CASE ConfigSlave
  BY <1>4, <1>0, BehindAsked DEF ConfigSlave
<1>5. CASE Map
  BY <1>5, <1>0, BehindAsked DEF Map
<1>6. ASSUME NEW a \in Slaves, SlaveActs(a)
      PROVE  Behind'
  BY <1>6, ThereType DEF TypeOK, Behind, SlaveActs, Slaves
<1>7. CASE Break
  BY <1>7 DEF Break, Behind
<1>8. CASE Mend
  BY <1>8, StartAssumption DEF Mend, Behind, Slaves
<1>9. CASE UNCHANGED vars
  BY <1>9 DEF vars, bus, Behind
<1> QED
  BY <1>1, <1>2, <1>3, <1>4, <1>5, <1>6, <1>7, <1>8, <1>9, MainSteps DEF Next

\* Slaves in SAFE_OP or above and slaves that were asked something answer.
LEMMA HighIsThere ==
  ASSUME TypeOK, Behind, socket, NEW s \in Slaves, High(s) \/ Asks(s, SAFE_OP)
  PROVE  s \in There
<1>1. al[s] # INIT \/ request[s] # NONE
  BY DEF High, Asks
<1>2. s <= present
  BY <1>1, ThereType DEF Behind, Slaves
<1> QED
  BY <1>2, ThereType DEF Slaves

\* A slave that acts on a request, and slaves that are cut off.
LEMMA SlavesStep ==
  ASSUME TypeOK, (\E a \in Slaves : SlaveActs(a)) \/ Break \/ Mend \/ UNCHANGED vars
  PROVE  /\ \A s \in Slaves :
              /\ Asks(s, SAFE_OP)' => Asks(s, SAFE_OP)
              /\ High(s)' => High(s) \/ Asks(s, SAFE_OP)
              /\ (High(s) \/ Asks(s, SAFE_OP))' => (s \in addressed => s \in addressed') /\ (s \in mapped => s \in mapped')
         /\ mapped' \subseteq mapped
<1>1. ASSUME NEW a \in Slaves, SlaveActs(a)
      PROVE  /\ \A s \in Slaves :
                  /\ Asks(s, SAFE_OP)' => Asks(s, SAFE_OP)
                  /\ High(s)' => High(s) \/ Asks(s, SAFE_OP)
             /\ UNCHANGED <<addressed, mapped>>
  <2>1. UNCHANGED <<addressed, mapped>>
    BY <1>1 DEF SlaveActs
  <2>2. ASSUME NEW s \in Slaves
        PROVE  /\ Asks(s, SAFE_OP)' => Asks(s, SAFE_OP)
               /\ High(s)' => High(s) \/ Asks(s, SAFE_OP)
    <3>1. CASE s # a
      BY <1>1, <3>1 DEF TypeOK, SlaveActs, High, Asks
    <3>2. CASE s = a
      <4>1. al'[s] = Controlled(s) /\ request'[s] = 0
        BY <1>1, <3>2 DEF TypeOK, SlaveActs
      <4> QED
        BY <4>1, ControlledType DEF High, Asks
    <3> QED
      BY <3>1, <3>2
  <2> QED
    BY <2>1, <2>2
<1>2. CASE Break
  <2>1. PICK k \in 0 .. present - 1 :
          /\ al' = [s \in Slaves |-> IF s > k THEN INIT ELSE al[s]]
          /\ request' = [s \in Slaves |-> IF s > k THEN NONE ELSE request[s]]
          /\ addressed' = addressed \cap (1 .. k) /\ mapped' = mapped \cap (1 .. k)
    BY <1>2 DEF Break
  <2>2. ASSUME NEW s \in Slaves
        PROVE  /\ Asks(s, SAFE_OP)' => Asks(s, SAFE_OP) /\ s <= k
               /\ High(s)' => High(s) /\ s <= k
    BY <2>1, <2>2 DEF High, Asks, Slaves
  <2> QED
    BY <2>1, <2>2, ThereType DEF Slaves
<1>3. CASE Mend \/ UNCHANGED vars
  BY <1>3 DEF Mend, vars, bus, High, Asks
<1> QED
  BY <1>1, <1>2, <1>3

----------------------------------------------------------------------------
(* Where the program is.                                                     *)

LEMMA OpenStep ==
  ASSUME Open, [Next]_vars
  PROVE  Open'
<1>1. CASE Looks
  BY <1>1 DEF Open, Configuring, InRound, Looks, Opened, NotOpened, SlavesConfigured, Check, Abort, Goto, AllBack, MapWait,
              IsSafeOp, SetPointers, Reopened, NotReopened, IsOp
<1>2. CASE Asking
  BY <1>2 DEF Open, InRound, Asking, Ask, Goto
<1>3. CASE Detect
  BY <1>3 DEF Open, InRound, Detect, Abort, Goto
<1>4. CASE ConfigSlave \/ Map
  BY <1>4 DEF Open, InRound, ConfigSlave, Map, Goto
<1>5. CASE (\E s \in Slaves : SlaveActs(s)) \/ Break \/ Mend \/ UNCHANGED vars
  BY <1>5 DEF Open, SlaveActs, Break, Mend, vars, program
<1> QED
  BY <1>1, <1>2, <1>3, <1>4, <1>5, MainSteps DEF Next

LEMMA CountedStep ==
  ASSUME TypeOK, Behind, Open, Counted, [Next]_vars
  PROVE  Counted'
<1> SUFFICES ASSUME at' \in Configuring, NEW s \in Slaves
             PROVE  /\ ~ Asks(s, SAFE_OP)'
                    /\ High(s)' => s <= count' /\ (at' # "config" \/ s < ls' => s \in addressed')
  BY DEF Counted
<1>0. s \in Nat /\ ls \in Nat /\ count \in Nat
  BY StartAssumption DEF Slaves, TypeOK
<1>1. CASE Looks
  <2>1. at \in Configuring /\ (at = at' \/ at = "ispreop" \/ SlavesConfigured)
    BY <1>1 DEF Configuring, Looks, Opened, NotOpened, SlavesConfigured, Check, Abort, Goto, AllBack, MapWait, IsSafeOp,
                SetPointers, Reopened, NotReopened, IsOp
  <2>2. UNCHANGED <<al, request, addressed, count>>
    BY <1>1 DEF Looks, Opened, NotOpened, SlavesConfigured, Check, AllBack, MapWait, IsSafeOp, SetPointers, Reopened,
                NotReopened, IsOp, bus
  <2>3. CASE SlavesConfigured
    <3>1. at = "config" /\ ls = count + 1
      BY <2>3 DEF SlavesConfigured
    <3> QED
      BY <1>0, <2>1, <2>2, <3>1 DEF Counted, High, Asks
  <2>4. CASE ~ SlavesConfigured
    <3>1. at' = "config" => at = "config" /\ ls' = ls
      BY <1>1, <2>4 DEF Configuring, Looks, Opened, NotOpened, Check, Abort, Goto, AllBack, MapWait, IsSafeOp,
                SetPointers, Reopened, NotReopened, IsOp
    <3>2. at = "config" => at' = "config"
      BY <2>1, <2>4
    <3> QED
      BY <2>1, <2>2, <3>1, <3>2 DEF Counted, High, Asks
  <2> QED
    BY <2>3, <2>4
<1>2. CASE Asking
  <2>1. at = "preop" /\ at' = "ispreop" /\ Ask("preop", PRE_OP, "ispreop")
    BY <1>2 DEF Asking, Ask, Goto, Configuring
  <2>2. UNCHANGED <<al, addressed, count>> /\ request' = Asked(There, PRE_OP)
    BY <2>1 DEF Ask, Broadcast
  <2>3. PRE_OP \in AlRequests
    BY StateNumbers
  <2> QED
    BY <2>1, <2>2, <2>3, AskedType DEF Counted, Configuring, High, Asks
<1>3. CASE Detect
  <2>1. socket /\ at' = "config" /\ ls' = 1 /\ count' = present /\ UNCHANGED al /\ request' = Asked(There, INIT + ACK)
    BY <1>3, ThereType DEF Open, Detect, Abort, Goto, Broadcast, Configuring
  <2>2. INIT + ACK \in AlRequests
    BY StateNumbers
  <2>3. High(s) \/ Asks(s, SAFE_OP) => s \in There
    BY <2>1, HighIsThere
  <2>4. ~ Asks(s, SAFE_OP)'
    BY <2>1, <2>2, <2>3, AskedType DEF Asks
  <2>5. High(s)' => s <= count'
    BY <2>1, <2>3, ThereType DEF High
  <2> QED
    BY <1>0, <2>1, <2>4, <2>5 DEF Slaves
<1>4. CASE ConfigSlave
  <2>1. at = "config" /\ at' = "config" /\ ls' = ls + 1 /\ UNCHANGED <<al, count>>
        /\ addressed' = addressed \cup ({ls} \cap There) /\ request' = Asked({ls} \cap There, PRE_OP + ACK)
    BY <1>4 DEF ConfigSlave
  <2>2. PRE_OP + ACK \in AlRequests
    BY StateNumbers
  <2>3. ~ Asks(s, SAFE_OP)'
    BY <2>1, <2>2, AskedType DEF Asks, Counted, Configuring
  <2>4. ASSUME High(s)'
        PROVE  s <= count' /\ (s < ls' => s \in addressed')
    <3>1. High(s)
      BY <2>1, <2>4 DEF High
    <3>2. socket
      BY <2>1 DEF Open, InRound
    <3>3. s \in There
      BY <3>1, <3>2, HighIsThere
    <3> QED
      BY <1>0, <2>1, <3>1, <3>3 DEF Counted, Configuring
  <2> QED
    BY <2>1, <2>3, <2>4
<1>5. CASE Map
  BY <1>5 DEF Map, Goto, Configuring
<1>6. CASE (\E a \in Slaves : SlaveActs(a)) \/ Break \/ Mend \/ UNCHANGED vars
  <2>1. UNCHANGED <<at, ls, count>>
    BY <1>6 DEF SlaveActs, Break, Mend, vars, program
  <2> QED
    BY <1>6, <2>1, SlavesStep DEF Counted
<1> QED
  BY <1>1, <1>2, <1>3, <1>4, <1>5, <1>6, MainSteps DEF Next

LEMMA MappedStep ==
  ASSUME TypeOK, Behind, Open, Counted, HighAreMapped, [Next]_vars
  PROVE  HighAreMapped'
<1> SUFFICES ASSUME at' \in {"issafeop", "op", "isop"}, socket'
             PROVE  /\ \A s \in Slaves : High(s)' \/ Asks(s, SAFE_OP)' => s \in mapped'
                    /\ 1 \in mapped' => outputs'
  BY DEF HighAreMapped
<1>1. CASE Looks
  <2>0. ~ SlavesConfigured
    BY AfterConfig
  <2>1. at \in {"issafeop", "op", "isop"} /\ UNCHANGED <<socket, outputs>>
    BY <1>1, <2>0 DEF Looks, Opened, NotOpened, Check, Abort, Goto, AllBack, MapWait, IsSafeOp,
                SetPointers, Reopened, NotReopened, IsOp
  <2>2. UNCHANGED <<al, request, mapped>>
    BY <1>1 DEF Looks, Opened, NotOpened, SlavesConfigured, Check, AllBack, MapWait, IsSafeOp, SetPointers, Reopened,
                NotReopened, IsOp, bus
  <2> QED
    BY <2>1, <2>2 DEF HighAreMapped, High, Asks
<1>2. CASE Asking
  <2>1. Ask("op", OPERATIONAL, "isop") /\ at = "op"
    BY <1>2 DEF Asking, Ask, Goto
  <2>2. UNCHANGED <<al, mapped, socket, outputs>> /\ request' = Asked(There, OPERATIONAL)
    BY <2>1 DEF Ask, Broadcast
  <2>3. OPERATIONAL \in AlRequests
    BY StateNumbers
  <2> QED
    BY <2>1, <2>2, <2>3, AskedType DEF HighAreMapped, High, Asks
<1>3. CASE Detect
  <2>1. socket
    BY <1>3 DEF Detect, Open
  <2>2. There = {} /\ mapped' = {} /\ UNCHANGED al /\ request' = Asked(There, INIT + ACK)
    BY <1>3 DEF Detect, Goto, Broadcast
  <2>3. INIT + ACK \in AlRequests
    BY StateNumbers
  <2>4. \A s \in Slaves : ~ High(s) /\ ~ Asks(s, SAFE_OP)
    BY <2>1, <2>2, HighIsThere
  <2> QED
    BY <2>2, <2>3, <2>4, AskedType DEF High, Asks
<1>4. CASE ConfigSlave
  BY <1>4 DEF ConfigSlave
<1>5. CASE Map
  <2>1. at = "map" /\ mapped' = There \cap addressed \cap 1 .. count /\ request' = Asked(mapped', SAFE_OP) /\ UNCHANGED al
    BY <1>5 DEF Map
  <2>2. socket
    BY <2>1 DEF Open, InRound
  <2>3. SAFE_OP \in AlRequests
    BY StateNumbers
  <2>4. 1 \in mapped' => outputs'
    BY <1>5 DEF Map
  <2>5. ASSUME NEW s \in Slaves, High(s)' \/ Asks(s, SAFE_OP)'
        PROVE  s \in mapped'
    <3>1. s \notin mapped' => High(s)
      BY <2>1, <2>3, <2>5, AskedType DEF High, Asks, Counted, Configuring
    <3>2. High(s) => s \in There /\ s \in addressed /\ s \in 1 .. count
      BY <2>1, <2>2, HighIsThere DEF Counted, Configuring, Slaves, TypeOK
    <3> QED
      BY <2>1, <3>1, <3>2
  <2> QED
    BY <2>4, <2>5
<1>6. CASE (\E a \in Slaves : SlaveActs(a)) \/ Break \/ Mend \/ UNCHANGED vars
  <2>1. UNCHANGED <<at, socket, outputs>>
    BY <1>6 DEF SlaveActs, Break, Mend, vars, program
  <2> QED
    BY <1>6, <2>1, SlavesStep DEF HighAreMapped
<1> QED
  BY <1>1, <1>2, <1>3, <1>4, <1>5, <1>6, MainSteps DEF Next

\* A start succeeds with the drive in SAFE_OP, hence mapped; after it the
\* pointers are set before anything detects the slaves again.
LEMMA StartedStep ==
  ASSUME TypeOK, HighAreMapped, Started, [Next]_vars
  PROVE  Started'
<1> DEFINE Past == {"reopen", "op", "isop", "running", "gave up"}
           Listing == {"detect", "config", "map", "issafeop"}
<1> SUFFICES ASSUME result' = "ok"
             PROVE  \/ at' = "pointers" /\ outputs'
                    \/ pointer' /\ at' \in Past
                    \/ pointer' /\ round' = 3 /\ at' \in Listing
  BY DEF Started
<1>1. CASE IsSafeOp /\ round # 3
  <2>1. at = "issafeop" /\ BusState = SAFE_OP /\ at' = "pointers" /\ outputs' = outputs
    BY <1>1 DEF IsSafeOp, InSafeOp, Goto, Abort
  <2>2. There # {} /\ \A s \in There : al[s] = SAFE_OP
    BY <2>1, OneState
  <2>3. socket /\ 1 \in There /\ 1 \in Slaves
    BY <2>2, ThereType
  <2>4. 1 \in mapped
    BY <2>1, <2>2, <2>3 DEF HighAreMapped, High
  <2> QED
    BY <2>1, <2>3, <2>4 DEF HighAreMapped
<1>2. CASE result = "ok" /\ ~ (IsSafeOp /\ round # 3)
  <2>1. CASE Looks
    <3>1. CASE SlavesConfigured
      <4>1. pointer /\ round = 3
        BY <1>2, <3>1 DEF Started, SlavesConfigured
      <4> QED
        BY <3>1, <4>1, AfterConfig DEF SlavesConfigured
    <3>2. CASE ~ SlavesConfigured
      BY <1>2, <2>1, <3>2 DEF Started, Looks, Opened, NotOpened, Check, Abort, Goto, AllBack, MapWait, IsSafeOp,
                SetPointers, Reopened, NotReopened, IsOp
    <3> QED
      BY <3>1, <3>2
  <2>2. CASE Asking
    BY <1>2, <2>2 DEF Started, Asking, Ask, Goto
  <2>3. CASE Detect
    BY <1>2, <2>3 DEF Started, Detect, Abort, Goto
  <2>4. CASE ConfigSlave \/ Map
    BY <1>2, <2>4 DEF Started, ConfigSlave, Map, Goto
  <2>5. CASE (\E s \in Slaves : SlaveActs(s)) \/ Break \/ Mend \/ UNCHANGED vars
    BY <1>2, <2>5 DEF Started, SlaveActs, Break, Mend, vars, program
  <2> QED
    BY <2>1, <2>2, <2>3, <2>4, <2>5, MainSteps DEF Next
<1>3. result = "ok" \/ (IsSafeOp /\ round # 3)
  BY DEF Next, Main, Opened, NotOpened, Detect, ConfigSlave, SlavesConfigured, Ask, Check, Abort, AllBack, MapWait, Map,
         IsSafeOp, SetPointers, Reopened, NotReopened, IsOp, SlaveActs, Break, Mend, vars, program
<1> QED
  BY <1>1, <1>2, <1>3

\* The loop is entered by the check that found OPERATIONAL alone.
LEMMA OpenedLoop ==
  ASSUME [Next]_vars, inOP', ~ inOP
  PROVE  at = "isop" /\ at' = "running" /\ BusState = OPERATIONAL
<1>1. IsOp
  <2>1. UNCHANGED inOP \/ IsOp
    BY DEF Next, Main, Opened, NotOpened, Detect, ConfigSlave, SlavesConfigured, Ask, Check, AllBack, MapWait, Map,
         IsSafeOp, SetPointers, Reopened, NotReopened, SlaveActs, Break, Mend, vars, program
  <2> QED
    BY <2>1, Zenon
<1>2. BusState = OPERATIONAL
  BY <1>1, Zenon DEF IsOp
<1> QED
  BY <1>1, <1>2 DEF IsOp, Goto

LEMMA EnteredStep ==
  ASSUME Entered, [Next]_vars
  PROVE  Entered'
<1>1. CASE inOP
  <2>1. at = "running"
    BY <1>1, Zenon DEF Entered
  <2>2. at' = "running"
    BY <2>1 DEF Next, Main, Opened, NotOpened, Detect, ConfigSlave, SlavesConfigured, Ask, Check, AllBack, MapWait, Map,
         IsSafeOp, SetPointers, Reopened, NotReopened, IsOp, SlaveActs, Break, Mend, vars, program
  <2> QED
    BY <2>2, Zenon DEF Entered
<1>2. CASE ~ inOP
  BY <1>2, OpenedLoop, Zenon DEF Entered
<1> QED
  BY <1>1, <1>2

----------------------------------------------------------------------------
LEMMA Invariance == Spec => []IInv
<1>1. Init => IInv
  <2> SUFFICES ASSUME Init
               PROVE  IInv
    OBVIOUS
  <2>1. TypeOK
    BY TypeInit
  <2>2. ChecksLeft /\ Entered
    BY StartAssumption DEF Init, ChecksLeft, Entered
  <2>3. Behind
    BY StartAssumption DEF Init, Behind, Slaves
  <2>4. Open /\ Counted /\ HighAreMapped /\ Started
    BY DEF Init, Open, InRound, Counted, Configuring, HighAreMapped, Started
  <2> QED
    BY <2>1, <2>2, <2>3, <2>4 DEF IInv
<1>2. IInv /\ [Next]_vars => IInv'
  BY TypeStep, ChecksStep, EnteredStep, BehindStep, OpenStep, CountedStep, MappedStep, StartedStep DEF IInv
<1> QED
  BY <1>1, <1>2, PTL DEF Spec

\* Every variable keeps its type: the checks for OPERATIONAL do not run below
\* zero but once, and the counted slaves are slaves of the bus.
THEOREM TypeCorrect == Spec => []TypeOK
<1>1. IInv => TypeOK
  BY DEF IInv
<1> QED
  BY <1>1, Invariance, PTL

\* A loop that runs after a start that reported success has the pointers to the
\* drive's data (main.c:687, ethercat.c:229), although the listing between
\* them clears the slave list and maps the slaves again.
THEOREM LoopHasTheData == Spec => []DataWhenStarted
<1>1. IInv => DataWhenStarted
  BY DEF IInv, Entered, Started, DataWhenStarted
<1> QED
  BY <1>1, Invariance, PTL

\* initialize_ethercat returns 0 when every slave that answers is in SAFE_OP, and
\* the loop starts when every one is in OPERATIONAL: the OR of their states that
\* ec_statecheck(0, ..) reads is enough to tell (ethercatmain.c:881-886).
THEOREM ReportsAreSo == Spec => ReportsAreTrue
<1> DEFINE A == /\ result' = "ok" /\ result # "ok" => \A s \in There : al[s] = SAFE_OP
                /\ inOP' /\ ~ inOP => \A s \in There : al[s] = OPERATIONAL
<1>1. ASSUME IInv, [Next]_vars
      PROVE  [A]_vars
  <2>1. TypeOK
    BY <1>1 DEF IInv
  <2>2. ASSUME result' = "ok", result # "ok"
        PROVE  BusState = SAFE_OP
    <3>1. IsSafeOp /\ round # 3
      BY <1>1, <2>2 DEF Next, Main, Opened, NotOpened, Detect, ConfigSlave, SlavesConfigured, Ask, Check, Abort, AllBack, MapWait, Map,
           IsSafeOp, SetPointers, Reopened, NotReopened, IsOp, SlaveActs, Break, Mend, vars, program
    <3> QED
      BY <3>1, <2>2 DEF IsSafeOp, InSafeOp, Abort
  <2>3. ASSUME inOP', ~ inOP
        PROVE  BusState = OPERATIONAL
    BY <1>1, <2>3, OpenedLoop
  <2> QED
    BY <2>1, <2>2, <2>3, OneState
<1> QED
  BY <1>1, Invariance, PTL DEF Spec, ReportsAreTrue

\* When the loop starts the socket is open, a slave answers, every slave that
\* answers is mapped by the last mapping, and the drive has its outputs, although
\* main() looks at none of the results on the way (main.c:685-703).
THEOREM LoopFindsSlavesMapped == Spec => NeverUnmapped
<1> DEFINE A == inOP' /\ ~ inOP => socket /\ outputs /\ There # {} /\ There \subseteq mapped
<1>1. ASSUME IInv, [Next]_vars
      PROVE  [A]_vars
  <2> SUFFICES ASSUME inOP', ~ inOP
               PROVE  socket /\ outputs /\ There # {} /\ There \subseteq mapped
    OBVIOUS
  <2>1. TypeOK /\ HighAreMapped
    BY <1>1 DEF IInv
  <2>2. BusState = OPERATIONAL /\ at = "isop"
    BY <1>1, OpenedLoop
  <2>3. There # {} /\ \A s \in There : al[s] = OPERATIONAL
    BY <2>1, <2>2, OneState
  <2>4. socket /\ 1 \in There /\ There \subseteq Slaves
    BY <2>1, <2>3, ThereType
  <2>5. There \subseteq mapped
    BY <2>1, <2>2, <2>3, <2>4 DEF HighAreMapped, High
  <2> QED
    BY <2>1, <2>2, <2>3, <2>4, <2>5 DEF HighAreMapped
<1> QED
  BY <1>1, Invariance, PTL DEF Spec, NeverUnmapped
=============================================================================
