--------------------------- MODULE RecoveryProofs ---------------------------
(***************************************************************************)
(* Theorems about Recovery, for every number of slaves, of breaks of the   *)
(* line and of disturbed calls: what the reconnection loop asks of the     *)
(* slaves while it is alone with them, and whom ec_recover_slave() gives   *)
(* an address.                                                             *)
(***************************************************************************)
EXTENDS Recovery, WellFoundedInduction, TLAPS

USE DEF NONE, INIT, PRE_OP, SAFE_OP, OPERATIONAL, ACK, ERROR

----------------------------------------------------------------------------
(* The inductive invariant.                                                 *)

\* Each thread is at a slave where it works on one.
Turns ==
  /\ at \in {"pre", "safe", "op"} => ls \in Slaves
  /\ mon \notin {"sleep", "read", "test"} => ms \in Slaves

\* A monitor whose comparison is false is never woken; then a slave has its own
\* address or none, and with its address its sync managers.
Asleep ==
  low = FALSE =>
    /\ mon = "sleep" /\ docheckstate = FALSE
    /\ \A s \in Slaves : configadr[s] = s /\ adr[s] \in {NoAddress, s} /\ (adr[s] = s => s \in synced)

\* What the loop sends next is what it has put into the shared field.
Requested ==
  low = FALSE =>
    /\ at = "pre" => state[ls] = PRE_OP
    /\ at = "safe" => state[ls] = SAFE_OP
    /\ at = "op" => state[ls] = OPERATIONAL

\* The slaves stay above INIT, and one that heard SAFE_OP has left PRE_OP.
Above ==
  low = FALSE =>
    /\ \A s \in Slaves : adr[s] = s => al[s] % 16 \in {PRE_OP, SAFE_OP, OPERATIONAL}
    /\ at = "op" /\ missed = FALSE => al[ls] # PRE_OP

\* In a call that nothing has disturbed the slave is there, and once EC_TEMPNODE
\* was cleared nobody is at it but this slave.
Undisturbed ==
  calm =>
    /\ mon \in TempPlaces \cup {"named", "dropped"} /\ ms <= present
    /\ mon = "temp" => Holders(TEMPNODE) = {}
    /\ mon \in {"ident", "name"} => Holders(TEMPNODE) = {ms}

IInv == TypeOK /\ Turns /\ Asleep /\ Requested /\ Above /\ Undisturbed

----------------------------------------------------------------------------
(* Numbers.                                                                  *)

\* A set of slaves has a last one.
LEMMA LastOf ==
  ASSUME NEW S \in SUBSET Slaves, S # {}
  PROVE  \E t \in S : \A u \in S : u <= t
<1> DEFINE U == {n \in Nat : \A u \in S : u <= n}
<1>0. S \subseteq Nat /\ N \in U
  BY RecoveryAssumption DEF Slaves
<1>1. PICK R : IsWellFoundedOn(R, Nat) /\ \A k, n \in Nat : k < n => <<k, n>> \in R
  <2> DEFINE Q == OpToRel(<,Nat)
  <2>1. IsWellFoundedOn(Q, Nat)
    BY NatLessThanWellFounded
  <2>2. \A k, n \in Nat : k < n => <<k, n>> \in Q
    BY DEF OpToRel
  <2> HIDE DEF Q
  <2> QED
    BY <2>1, <2>2
<1>2. PICK m \in U : \A k \in U : ~ (<<k, m>> \in R)
  <2>1. U \subseteq Nat /\ U # {}
    BY <1>0
  <2>2. IsWellFoundedOn(R, Nat)
    BY <1>1
  <2> HIDE DEF U
  <2> QED
    BY <2>1, <2>2, WFMin
<1>3. m \in S
  <2> SUFFICES ASSUME m \notin S
               PROVE  FALSE
    OBVIOUS
  <2>1. PICK u \in S : TRUE
    OBVIOUS
  <2>2. m - 1 \in U /\ m - 1 < m /\ m \in Nat
    BY <1>0, <2>1 DEF Slaves
  <2> QED
    BY <1>1, <1>2, <2>2
<1> QED
  BY <1>2, <1>3

----------------------------------------------------------------------------
(* The slaves.                                                               *)

AlStates == States \cup {s + ERROR : s \in States}
FieldStates == {NONE} \cup AlStates

LEMMA StateNumbers ==
  /\ AlStates = {1, 2, 4, 8, 17, 18, 20, 24}
  /\ FieldStates = {0, 1, 2, 4, 8, 17, 18, 20, 24}
  /\ TypeOK => al \in [Slaves -> AlStates] /\ state \in [Slaves -> FieldStates]
BY DEF AlStates, FieldStates, States, TypeOK

LEMMA ControlledType ==
  ASSUME TypeOK, NEW s \in Slaves, NEW request \in FieldStates
  PROVE  Controlled(s, request) \in AlStates
<1> DEFINE wanted == request % 16
           now == al[s] % 16
<1>1. al[s] \in {1, 2, 4, 8, 17, 18, 20, 24} /\ request \in {0, 1, 2, 4, 8, 17, 18, 20, 24}
  BY StateNumbers
<1>2. wanted \in {0, 1, 2, 4, 8} /\ now \in {1, 2, 4, 8}
  BY <1>1
<1>3. Controlled(s, request) \in {INIT, al[s], now + ERROR} \/ (Controlled(s, request) = wanted /\ wanted # 0)
  BY <1>1, <1>2 DEF Controlled
<1> QED
  BY <1>1, <1>2, <1>3, StateNumbers

\* Asked for PRE_OP, SAFE_OP or OPERATIONAL a slave stays above INIT, and is in
\* an error only if it was or skips a state.
LEMMA ControlledAbove ==
  ASSUME TypeOK, NEW s \in synced, al[s] % 16 \in {PRE_OP, SAFE_OP, OPERATIONAL},
         NEW request \in {PRE_OP, SAFE_OP, OPERATIONAL}
  PROVE  /\ Controlled(s, request) % 16 \in {PRE_OP, SAFE_OP, OPERATIONAL}
         /\ Controlled(s, request) >= ERROR => al[s] >= ERROR \/ (request = OPERATIONAL /\ al[s] = PRE_OP)
         /\ request = SAFE_OP => Controlled(s, request) # PRE_OP
<1>1. s \in Slaves
  BY DEF TypeOK
<1>2. al[s] \in {2, 4, 8, 18, 20, 24}
  BY <1>1, StateNumbers
<1> QED
  BY <1>2 DEF Controlled

LEMMA WriteType ==
  ASSUME TypeOK, NEW s, NEW request \in FieldStates, Write(s, request)
  PROVE  al' \in [Slaves -> AlStates]
<1>1. \A t \in Slaves : Controlled(t, request) \in AlStates
  BY ControlledType
<1> QED
  BY <1>1, StateNumbers DEF Write

LEMMA StatusType ==
  ASSUME TypeOK, NEW s
  PROVE  Status(s) \in FieldStates
<1>1. CASE Reached(s) = {}
  BY <1>1, StateNumbers DEF Status, Answers
<1>2. CASE Reached(s) # {}
  <2> DEFINE last == CHOOSE t \in Reached(s) : \A u \in Reached(s) : u <= t
  <2>1. Reached(s) \in SUBSET Slaves
    BY DEF Reached, Holders
  <2>2. \E t \in Reached(s) : \A u \in Reached(s) : u <= t
    BY <1>2, <2>1, LastOf
  <2>3. last \in Reached(s)
    BY <2>2, Zenon
  <2>4. Status(s) = al[last]
    BY <1>2 DEF Status, Answers
  <2> HIDE DEF last
  <2> QED
    BY <2>1, <2>3, <2>4, StateNumbers DEF FieldStates
<1> QED
  BY <1>1, <1>2

LEMMA ReadType ==
  ASSUME TypeOK
  PROVE  ReadState \in [Slaves -> FieldStates]
BY StatusType, StateNumbers DEF ReadState, FieldStates

----------------------------------------------------------------------------
(* Types.                                                                    *)

Places ==
  /\ at \in LoopPlaces /\ ls \in 1 .. N + 1 /\ good \in BOOLEAN /\ missed \in BOOLEAN
  /\ mon \in MonPlaces /\ ms \in 1 .. N + 1
  /\ low \in BOOLEAN /\ docheckstate \in BOOLEAN /\ islost \in SUBSET Slaves
Line ==
  /\ present \in 0 .. N /\ faults \in 0 .. MaxFaults
  /\ synced \in SUBSET Slaves /\ mapped \in SUBSET Slaves
AddressTypes ==
  /\ configadr \in [Slaves -> Addresses] /\ adr \in [Slaves -> {NoAddress} \cup Addresses]
  /\ disturbed \in 0 .. MaxDisturbed /\ calm \in BOOLEAN
Registers == state \in [Slaves -> FieldStates] /\ al \in [Slaves -> AlStates]

LEMMA Typed == TypeOK <=> Places /\ Line /\ AddressTypes /\ Registers
BY DEF TypeOK, Places, Line, AddressTypes, Registers, FieldStates, AlStates

LEMMA AddressNumbers ==
  ASSUME NEW s \in Slaves
  PROVE  /\ s \in Addresses /\ TEMPNODE \in Addresses
         /\ NoAddress # s /\ NoAddress # TEMPNODE /\ s # TEMPNODE
BY RecoveryAssumption DEF Addresses, NoAddress, TEMPNODE, Slaves

LEMMA TypeInit == Init => TypeOK /\ Turns
<1> SUFFICES ASSUME Init
             PROVE  Places /\ Line /\ AddressTypes /\ Registers /\ Turns
  BY Typed
<1>1. Places
  <2>1. at \in LoopPlaces /\ mon \in MonPlaces
    BY DEF Init, LoopPlaces, MonPlaces
  <2>2. ls \in 1 .. N + 1 /\ ms \in 1 .. N + 1
    BY RecoveryAssumption DEF Init
  <2>3. {good, missed, low, docheckstate} \subseteq BOOLEAN /\ islost \in SUBSET Slaves
    BY DEF Init
  <2> QED
    BY <2>1, <2>2, <2>3 DEF Places
<1>2. Line
  BY RecoveryAssumption DEF Init, Line
<1>3. Registers
  BY StateNumbers DEF Init, Registers
<1>4. Turns
  BY DEF Init, Turns
<1>5. AddressTypes
  <2>1. configadr \in [Slaves -> Addresses] /\ adr \in [Slaves -> {NoAddress} \cup Addresses]
    BY AddressNumbers DEF Init
  <2>2. disturbed = 0 /\ calm = FALSE
    BY Zenon DEF Init
  <2>3. 0 \in 0 .. MaxDisturbed
    BY RecoveryAssumption
  <2> QED
    BY <2>1, <2>2, <2>3, Zenon DEF AddressTypes
<1> QED
  BY <1>1, <1>2, <1>3, <1>4, <1>5

LEMMA LoopTypes ==
  ASSUME TypeOK, Turns, Loop
  PROVE  Places' /\ Line' /\ AddressTypes' /\ Registers' /\ Turns'
<1>0. ls \in Nat /\ (ls <= N => ls \in Slaves)
  BY RecoveryAssumption DEF TypeOK, Slaves
<1>1. Line' /\ AddressTypes'
  BY Typed DEF Loop, LoopEnter, LoopExchange, LoopRead, LoopTest, LoopPre, LoopSafe, LoopAsk, LoopOp, LoopAgain, Line, AddressTypes,
               busVars, adrVars
<1>2. Places'
  <2>1. at' \in LoopPlaces
    BY DEF TypeOK, Loop, LoopEnter, LoopExchange, LoopRead, LoopTest, LoopPre, LoopSafe, LoopAsk, LoopOp, LoopAgain, LoopPlaces
  <2>2. ls' \in 1 .. N + 1
    <3>1. ls' \in {ls, 1} \/ (ls' = ls + 1 /\ ls <= N)
      <4>1. LoopOp => ls <= N
        BY RecoveryAssumption DEF LoopOp, Turns, Slaves
      <4> QED
        BY <4>1 DEF Loop, LoopEnter, LoopExchange, LoopRead, LoopTest, LoopPre, LoopSafe, LoopAsk, LoopOp, LoopAgain
    <3> QED
      BY <3>1, RecoveryAssumption DEF TypeOK
  <2>3. good' \in BOOLEAN /\ missed' \in BOOLEAN
    BY DEF TypeOK, Loop, LoopEnter, LoopExchange, LoopRead, LoopTest, LoopPre, LoopSafe, LoopAsk, LoopOp, LoopAgain, Full
  <2>4. UNCHANGED <<mon, ms, low, docheckstate, islost>>
    BY DEF Loop, LoopEnter, LoopExchange, LoopRead, LoopTest, LoopPre, LoopSafe, LoopAsk, LoopOp, LoopAgain, monVars
  <2> QED
    BY <2>1, <2>2, <2>3, <2>4 DEF TypeOK, Places
<1>3. Registers'
  <2>1. CASE LoopPre \/ LoopSafe
    <3>1. state[ls] \in FieldStates /\ Write(ls, state[ls])
      BY <2>1, StateNumbers DEF LoopPre, LoopSafe, LoopAsk, Turns
    <3>2. al' \in [Slaves -> AlStates]
      BY <3>1, WriteType
    <3>3. state' \in [Slaves -> FieldStates]
      BY <2>1, StateNumbers DEF LoopPre, LoopSafe, LoopAsk
    <3> QED
      BY <3>2, <3>3 DEF Registers
  <2>2. CASE LoopOp
    <3>1. state[ls] \in FieldStates /\ Write(ls, state[ls])
      BY <2>2, StateNumbers DEF LoopOp, Turns
    <3>2. al' \in [Slaves -> AlStates]
      BY <3>1, WriteType
    <3> QED
      BY <2>2, <3>2, StateNumbers DEF LoopOp, Registers
  <2>3. CASE LoopRead
    BY <2>3, ReadType, StateNumbers DEF LoopRead, Registers
  <2>4. CASE LoopTest
    BY <2>4, StateNumbers DEF LoopTest, Registers
  <2>5. CASE LoopEnter \/ LoopExchange \/ LoopAgain
    BY <2>5, StateNumbers DEF LoopEnter, LoopExchange, LoopAgain, Registers
  <2> QED
    BY <2>1, <2>2, <2>3, <2>4, <2>5 DEF Loop
<1>4. Turns'
  BY <1>0 DEF Turns, Loop, LoopEnter, LoopExchange, LoopRead, LoopTest, LoopPre, LoopSafe, LoopAsk, LoopOp, LoopAgain, monVars
<1> QED
  BY <1>1, <1>2, <1>3, <1>4

LEMMA RecoverTypes ==
  ASSUME TypeOK, ms \in Slaves, Recover
  PROVE  AddressTypes'
<1>1. ms \in Addresses /\ TEMPNODE \in Addresses
  BY AddressNumbers
<1>2. disturbed' \in 0 .. MaxDisturbed
  <2>1. disturbed' = disturbed \/ (disturbed < MaxDisturbed /\ disturbed' = disturbed + 1)
    <3>1. \A taken, answered \in BOOLEAN : Datagram(taken, answered) =>
            disturbed' = disturbed \/ (disturbed < MaxDisturbed /\ disturbed' = disturbed + 1)
      BY DEF Datagram
    <3>2. (\E taken, answered \in BOOLEAN : Datagram(taken, answered)) \/ disturbed' = disturbed
      BY Zenon DEF Recover, RecoverLook, RecoverClear, RecoverTemp, RecoverUndo, RecoverIdent, RecoverName, RecoverDrop, RecoverRestore
    <3> QED
      BY <3>1, <3>2, Zenon
  <2> QED
    BY <2>1, RecoveryAssumption DEF TypeOK
<1>3. calm' \in BOOLEAN
  BY DEF TypeOK, Recover, RecoverLook, RecoverClear, RecoverTemp, RecoverUndo, RecoverIdent, RecoverName, RecoverDrop, RecoverRestore
<1>4. adr' \in [Slaves -> {NoAddress} \cup Addresses]
  BY <1>1 DEF TypeOK, Recover, RecoverLook, RecoverClear, RecoverTemp, RecoverUndo, RecoverIdent, RecoverName, RecoverDrop,
              RecoverRestore, Readdress
<1>5. configadr' \in [Slaves -> Addresses]
  BY <1>1 DEF TypeOK, Recover, RecoverLook, RecoverClear, RecoverTemp, RecoverUndo, RecoverIdent, RecoverName, RecoverDrop, RecoverRestore
<1> QED
  BY <1>2, <1>3, <1>4, <1>5 DEF AddressTypes

LEMMA MonitorTypes ==
  ASSUME TypeOK, Turns, Monitor
  PROVE  Places' /\ Line' /\ AddressTypes' /\ Registers' /\ Turns'
<1> USE DEF MonGo
<1>0. ms \in Nat /\ (ms <= N => ms \in Slaves)
  BY RecoveryAssumption DEF TypeOK, Slaves
<1>a. mon \notin {"sleep", "read", "test"} => ms \in Slaves
  BY DEF Turns
<1>1. CASE MonEnter \/ MonRead \/ MonDone
  <2>1. mon' \in {"read", "test", "sleep"} /\ ms' \in {ms, 1} /\ docheckstate' \in {docheckstate, FALSE}
    BY <1>1 DEF MonEnter, MonRead, MonDone
  <2>2. state' = state \/ state' = ReadState
    BY <1>1 DEF MonEnter, MonRead, MonDone
  <2>3. UNCHANGED <<loopVars, low, islost, adrVars, busVars, al>>
    BY <1>1 DEF MonEnter, MonRead, MonDone
  <2>4. Places'
    <3>1. ms' \in 1 .. N + 1
      BY <2>1, RecoveryAssumption DEF TypeOK
    <3>2. mon' \in MonPlaces /\ docheckstate' \in BOOLEAN
      BY <2>1 DEF TypeOK, MonPlaces
    <3> QED
      BY <2>3, <3>1, <3>2 DEF TypeOK, Places, loopVars
  <2>5. Registers'
    BY <2>2, <2>3, ReadType, StateNumbers DEF Registers
  <2> QED
    BY <2>1, <2>3, <2>4, <2>5, Typed DEF Line, AddressTypes, busVars, adrVars, loopVars, Turns
<1>2. CASE MonTest
  <2>1. mon' \in {"lost", "write", "init", "recheck"} /\ docheckstate' \in BOOLEAN /\ ms \in Slaves /\ UNCHANGED <<loopVars, low, ms, islost, adrVars, busVars, al>>
    BY <1>0, <1>2 DEF MonTest, TypeOK
  <2>2. state' \in [Slaves -> FieldStates]
    BY <1>2, StateNumbers DEF MonTest
  <2>3. Places'
    BY <2>1 DEF TypeOK, Places, MonPlaces, loopVars
  <2>4. Registers'
    BY <2>1, <2>2, StateNumbers DEF Registers
  <2> QED
    BY <2>1, <2>3, <2>4, Typed DEF Line, AddressTypes, busVars, adrVars, loopVars, Turns
<1>3. CASE MonWrite \/ ReconfigInit \/ ReconfigSafe
  <2>1. mon' \in {"lost", "isinit", "issafe"} /\ ms \in Slaves /\ UNCHANGED <<loopVars, low, ms, docheckstate, islost, state, adrVars, busVars>>
    BY <1>3, <1>a DEF MonWrite, ReconfigInit, ReconfigSafe
  <2>2. Write(ms, state[ms]) \/ Write(ms, INIT) \/ Write(ms, SAFE_OP)
    BY <1>3 DEF MonWrite, ReconfigInit, ReconfigSafe
  <2>3. {state[ms], INIT, SAFE_OP} \subseteq FieldStates
    BY <2>1, StateNumbers
  <2>4. al' \in [Slaves -> AlStates]
    BY <2>2, <2>3, WriteType
  <2>5. Places'
    BY <2>1 DEF TypeOK, Places, MonPlaces, loopVars
  <2>6. Registers'
    BY <2>1, <2>4, StateNumbers DEF Registers
  <2> QED
    BY <2>1, <2>5, <2>6, Typed DEF Line, AddressTypes, busVars, adrVars, loopVars, Turns
<1>4. CASE ReconfigIsInit \/ ReconfigIsPre \/ ReconfigIsSafe \/ Recheck
  <2>1. /\ mon' \in {"pre", "safe", "lost", "mark"} /\ ms \in Slaves
        /\ UNCHANGED <<loopVars, low, ms, docheckstate, adrVars, present, synced, faults, al>>
    BY <1>4, <1>a DEF ReconfigIsInit, ReconfigIsPre, ReconfigIsSafe, Recheck, Check, busVars
  <2>2. state' = [state EXCEPT ![ms] = Status(ms)]
    BY <1>4 DEF ReconfigIsInit, ReconfigIsPre, ReconfigIsSafe, Recheck, Check
  <2>3. islost' \subseteq islost
    BY <1>4 DEF ReconfigIsInit, ReconfigIsPre, ReconfigIsSafe, Recheck, Check
  <2>4. mapped' \in SUBSET Slaves
    BY <1>4 DEF ReconfigIsInit, ReconfigIsPre, ReconfigIsSafe, Recheck, TypeOK, busVars, Reached, Holders
  <2>5. Places'
    BY <2>1, <2>3 DEF TypeOK, Places, MonPlaces, loopVars
  <2>6. Registers'
    BY <2>1, <2>2, StatusType, StateNumbers DEF Registers
  <2>7. Line' /\ AddressTypes'
    BY <2>1, <2>4, Typed DEF Line, AddressTypes, adrVars
  <2> QED
    BY <2>1, <2>5, <2>6, <2>7 DEF loopVars, Turns
<1>5. CASE ReconfigPre
  <2>1. mon' = "ispre" /\ ms \in Slaves /\ UNCHANGED <<loopVars, low, ms, docheckstate, islost, state, adrVars, present, mapped, faults>>
    BY <1>5, <1>a DEF ReconfigPre
  <2>2. synced' \in SUBSET Slaves
    BY <1>5 DEF ReconfigPre, TypeOK, Reached, Holders
  <2>3. al' \in [Slaves -> AlStates]
    <3>1. PRE_OP \in FieldStates /\ PRE_OP \in AlStates
      BY StateNumbers
    <3>2. \A t \in Slaves : Controlled(t, PRE_OP) \in AlStates
      BY <3>1, ControlledType
    <3> QED
      BY <1>5, <3>1, <3>2, StateNumbers DEF ReconfigPre
  <2>5. Places'
    BY <2>1 DEF TypeOK, Places, MonPlaces, loopVars
  <2>6. Registers'
    BY <2>1, <2>3, StateNumbers DEF Registers
  <2>7. Line' /\ AddressTypes'
    BY <2>1, <2>2, Typed DEF Line, AddressTypes, adrVars
  <2> QED
    BY <2>1, <2>5, <2>6, <2>7 DEF loopVars, Turns
<1>6. CASE Mark
  <2>1. mon' = "lost" /\ ms \in Slaves /\ UNCHANGED <<loopVars, low, ms, docheckstate, state, adrVars, busVars, al>>
    BY <1>6, <1>a DEF Mark
  <2>2. islost' \in SUBSET Slaves
    BY <1>6, <2>1 DEF Mark, TypeOK
  <2>5. Places'
    BY <2>1, <2>2 DEF TypeOK, Places, MonPlaces, loopVars
  <2> QED
    BY <2>1, <2>5, Typed DEF Line, AddressTypes, Registers, busVars, adrVars, loopVars, Turns
<1>7. CASE MonLost \/ Recover
  <2>1. ms \in Slaves /\ UNCHANGED <<loopVars, low, docheckstate, state, busVars, al>>
    BY <1>7, <1>a DEF MonLost, Recover, RecoverLook, RecoverClear, RecoverTemp, RecoverUndo, RecoverIdent, RecoverName, RecoverDrop,
                      RecoverRestore, TempPlaces
  <2>2. \/ mon' \in RecoverPlaces /\ ms' = ms /\ islost' = islost
        \/ mon' = "test" /\ ms' = ms + 1 /\ islost' \subseteq islost
    BY <1>7 DEF MonLost, Recover, RecoverLook, RecoverClear, RecoverTemp, RecoverUndo, RecoverIdent, RecoverName, RecoverDrop,
                RecoverRestore, Return, RecoverPlaces, TempPlaces
  <2>3. AddressTypes'
    BY <1>7, <2>1, RecoverTypes, Typed DEF MonLost, AddressTypes, adrVars
  <2>4. ms' \in 1 .. N + 1
    BY <2>1, <2>2, RecoveryAssumption DEF Slaves
  <2>5. Places'
    BY <2>1, <2>2, <2>4 DEF TypeOK, Places, MonPlaces, loopVars
  <2> QED
    BY <2>1, <2>2, <2>3, <2>5, Typed DEF Line, Registers, busVars, loopVars, Turns
<1> QED
  BY <1>1, <1>2, <1>3, <1>4, <1>5, <1>6, <1>7 DEF Monitor

LEMMA BusTypes ==
  ASSUME TypeOK, Turns, Bus
  PROVE  Places' /\ Line' /\ AddressTypes' /\ Registers' /\ Turns'
<1>1. UNCHANGED <<loopVars, monVars, state, configadr>>
  BY DEF Bus, Break, Mend
<1>2. Places' /\ Turns'
  BY <1>1, Typed DEF Places, Turns, loopVars, monVars
<1>3. Line'
  <2>1. present' \in 0 .. N
    BY RecoveryAssumption DEF TypeOK, Bus, Break, Mend
  <2>2. faults' \in 0 .. MaxFaults
    BY RecoveryAssumption DEF TypeOK, Bus, Break, Mend
  <2>3. synced' \in SUBSET Slaves /\ mapped' \in SUBSET Slaves
    BY DEF TypeOK, Bus, Break, Mend
  <2> QED
    BY <2>1, <2>2, <2>3 DEF Line
<1>4. AddressTypes'
  <2>1. adr' \in [Slaves -> {NoAddress} \cup Addresses]
    BY DEF TypeOK, Bus, Break, Mend
  <2>2. disturbed' \in 0 .. MaxDisturbed /\ calm' \in BOOLEAN
    <3>1. disturbed' = disturbed \/ (disturbed < MaxDisturbed /\ disturbed' = disturbed + 1)
      BY Zenon DEF Bus, Break, Mend
    <3>2. calm' \in BOOLEAN
      BY DEF Bus, Break, Mend
    <3> QED
      BY <3>1, <3>2, RecoveryAssumption DEF TypeOK
  <2> QED
    BY <1>1, <2>1, <2>2 DEF TypeOK, AddressTypes
<1>5. al' \in [Slaves -> AlStates]
  BY StateNumbers DEF Bus, Break, Mend
<1> QED
  BY <1>1, <1>2, <1>3, <1>4, <1>5, StateNumbers DEF Registers

LEMMA TypeStep ==
  ASSUME TypeOK, Turns, [Next]_vars
  PROVE  TypeOK' /\ Turns'
<1>1. CASE UNCHANGED vars
  BY <1>1 DEF TypeOK, Turns, vars, loopVars, monVars, adrVars, busVars
<1>2. CASE Next
  <2>1. Places' /\ Line' /\ AddressTypes' /\ Registers' /\ Turns'
    BY <1>2, LoopTypes, MonitorTypes, BusTypes DEF Next
  <2> QED
    BY <2>1 DEF TypeOK, Places, Line, AddressTypes, Registers, FieldStates, AlStates
<1> QED
  BY <1>1, <1>2

----------------------------------------------------------------------------
(* The loop alone.                                                           *)

LEMMA NobodyWakes ==
  ASSUME Asleep, low = FALSE
  PROVE  ~ Monitor
<1>1. mon = "sleep" /\ docheckstate = FALSE
  BY DEF Asleep
<1>2. ~ MonEnter
  BY <1>1, Zenon DEF MonEnter
<1> QED
  BY <1>1, <1>2 DEF Monitor, MonRead, MonTest, MonWrite, ReconfigInit, ReconfigIsInit, ReconfigPre, ReconfigIsPre, ReconfigSafe,
                    ReconfigIsSafe, Check, Recheck, Mark, MonLost, MonDone, Recover, RecoverLook, RecoverClear, RecoverTemp,
                    RecoverUndo, RecoverIdent, RecoverName, RecoverDrop, RecoverRestore

LEMMA LowStays == [Next]_vars => low' = low
BY DEF Next, Loop, LoopEnter, LoopExchange, LoopRead, LoopTest, LoopPre, LoopSafe, LoopAsk, LoopOp, LoopAgain,
       Monitor, MonEnter, MonRead, MonTest, MonWrite, ReconfigInit, ReconfigIsInit, ReconfigPre, ReconfigIsPre, ReconfigSafe,
       ReconfigIsSafe, Check, Recheck, Mark, MonLost, MonDone, Recover, RecoverLook, RecoverClear, RecoverTemp, RecoverUndo,
       RecoverIdent, RecoverName, RecoverDrop, RecoverRestore, Bus, Break, Mend,
       vars, loopVars, monVars

LEMMA LoopLeaves == Loop => UNCHANGED <<monVars, adrVars, busVars>>
BY DEF Loop, LoopEnter, LoopExchange, LoopRead, LoopTest, LoopPre, LoopSafe, LoopAsk, LoopOp, LoopAgain

LEMMA AsleepStep ==
  ASSUME TypeOK, Asleep, [Next]_vars
  PROVE  Asleep'
<1> SUFFICES ASSUME low = FALSE
             PROVE  /\ mon' = "sleep" /\ docheckstate' = FALSE
                    /\ \A s \in Slaves : configadr'[s] = s /\ adr'[s] \in {NoAddress, s} /\ (adr'[s] = s => s \in synced')
  BY LowStays DEF Asleep
<1>1. CASE Loop \/ UNCHANGED vars
  BY <1>1, LoopLeaves DEF Asleep, vars, monVars, adrVars, busVars
<1>2. CASE Bus
  <2>1. mon' = "sleep" /\ docheckstate' = FALSE /\ configadr' = configadr
    BY <1>2 DEF Asleep, Bus, Break, Mend, monVars
  <2>2. \A s \in Slaves : (adr'[s] = adr[s] /\ (s \in synced => s \in synced')) \/ adr'[s] = NoAddress
    BY <1>2 DEF Bus, Break, Mend
  <2> QED
    BY <2>1, <2>2, AddressNumbers DEF Asleep
<1> QED
  BY <1>1, <1>2, NobodyWakes DEF Next

LEMMA RequestedStep ==
  ASSUME TypeOK, Turns, Asleep, Requested, [Next]_vars
  PROVE  Requested'
<1> SUFFICES ASSUME low = FALSE
             PROVE  /\ at' = "pre" => state'[ls'] = PRE_OP
                    /\ at' = "safe" => state'[ls'] = SAFE_OP
                    /\ at' = "op" => state'[ls'] = OPERATIONAL
  BY LowStays DEF Requested
<1>1. CASE LoopTest
  <2>1. ls \in Slaves
    BY <1>1, RecoveryAssumption DEF TypeOK, LoopTest, Slaves
  <2> QED
    BY <1>1, <2>1, StateNumbers DEF LoopTest
<1>2. CASE LoopPre \/ LoopSafe
  <2>1. ls \in Slaves
    BY <1>2 DEF Turns, LoopPre, LoopSafe, LoopAsk
  <2> QED
    BY <1>2, <2>1, StateNumbers DEF LoopPre, LoopSafe, LoopAsk
<1>3. CASE LoopEnter \/ LoopExchange \/ LoopRead \/ LoopOp \/ LoopAgain
  BY <1>3 DEF LoopEnter, LoopExchange, LoopRead, LoopOp, LoopAgain
<1>4. CASE Bus \/ UNCHANGED vars
  BY <1>4 DEF Requested, Bus, Break, Mend, vars, loopVars
<1> QED
  BY <1>1, <1>2, <1>3, <1>4, NobodyWakes DEF Next, Loop

\* What a request of the loop does to the slave of the turn, if it answers.
LEMMA LoopRequest ==
  ASSUME TypeOK, Asleep, Above, low = FALSE, ls \in Slaves,
         NEW request \in {PRE_OP, SAFE_OP, OPERATIONAL}, Write(ls, request)
  PROVE  /\ \A s \in Slaves : adr[s] = s => al'[s] % 16 \in {PRE_OP, SAFE_OP, OPERATIONAL}
         /\ \A s \in Slaves : al'[s] >= ERROR => al[s] >= ERROR \/ (s = ls /\ request = OPERATIONAL /\ al[s] = PRE_OP)
         /\ request = SAFE_OP /\ Answers(ls) => al'[ls] # PRE_OP
<1>0. \A t \in Slaves : t \in Reached(ls) => t = ls /\ adr[ls] = ls
  BY AddressNumbers DEF Reached, Holders, Asleep
<1>1. CASE Answers(ls)
  <2>1. adr[ls] = ls /\ ls \in synced /\ ls \in Reached(ls)
    BY <1>0, <1>1 DEF Answers, Asleep, Reached, Holders
  <2>2. /\ Controlled(ls, request) % 16 \in {PRE_OP, SAFE_OP, OPERATIONAL}
        /\ Controlled(ls, request) >= ERROR => al[ls] >= ERROR \/ (request = OPERATIONAL /\ al[ls] = PRE_OP)
        /\ request = SAFE_OP => Controlled(ls, request) # PRE_OP
    BY <2>1, ControlledAbove DEF Above
  <2>3. /\ al'[ls] = Controlled(ls, request)
        /\ \A s \in Slaves : s # ls => al'[s] = al[s]
    BY <1>0, <2>1 DEF Write
  <2> QED
    BY <2>2, <2>3 DEF Above, TypeOK
<1>2. CASE ~ Answers(ls)
  <2>1. \A s \in Slaves : al'[s] = al[s]
    BY <1>2 DEF Write, Answers
  <2> QED
    BY <1>2, <2>1 DEF Above
<1> QED
  BY <1>1, <1>2

LEMMA LoopWrites ==
  ASSUME Turns, Requested, low = FALSE, LoopPre \/ LoopSafe \/ LoopOp
  PROVE  /\ ls \in Slaves
         /\ LoopPre => at = "pre" /\ at' = "safe" /\ Write(ls, PRE_OP)
         /\ LoopSafe => at = "safe" /\ at' = "op" /\ Write(ls, SAFE_OP) /\ missed' = (~ low /\ ~ Answers(ls)) /\ ls' = ls
         /\ LoopOp => at = "op" /\ at' = "test" /\ Write(ls, OPERATIONAL)
BY DEF Turns, Requested, LoopPre, LoopSafe, LoopAsk, LoopOp

LEMMA AboveStep ==
  ASSUME TypeOK, Turns, Asleep, Requested, Above, [Next]_vars
  PROVE  Above'
<1> SUFFICES ASSUME low = FALSE
             PROVE  /\ \A s \in Slaves : adr'[s] = s => al'[s] % 16 \in {PRE_OP, SAFE_OP, OPERATIONAL}
                    /\ at' = "op" /\ missed' = FALSE => al'[ls'] # PRE_OP
  BY LowStays DEF Above
<1>1. CASE LoopPre \/ LoopSafe \/ LoopOp
  <2>1. \A s \in Slaves : adr'[s] = s => al'[s] % 16 \in {PRE_OP, SAFE_OP, OPERATIONAL}
    BY <1>1, LoopWrites, LoopRequest, LoopLeaves DEF Loop, adrVars
  <2>2. ASSUME at' = "op", missed' = FALSE
        PROVE  al'[ls'] # PRE_OP
    <3>1. LoopSafe
      BY <1>1, <2>2, LoopWrites
    <3>2. Answers(ls)
      BY <2>2, <3>1, LoopWrites, Zenon
    <3> QED
      BY <3>1, <3>2, LoopWrites, LoopRequest
  <2> QED
    BY <2>1, <2>2
<1>2. CASE LoopEnter \/ LoopExchange \/ LoopRead \/ LoopTest \/ LoopAgain
  <2>1. at' # "op" /\ UNCHANGED <<al, adr>>
    BY <1>2 DEF LoopEnter, LoopExchange, LoopRead, LoopTest, LoopAgain, adrVars
  <2> QED
    BY <2>1 DEF Above
<1>3. CASE Bus
  <2>1. UNCHANGED <<at, ls, missed>>
    BY <1>3 DEF Bus, Break, Mend, loopVars
  <2>2. \A s \in Slaves : \/ adr'[s] = adr[s] /\ al'[s] \in {al[s], SAFE_OP + ERROR}
                          \/ adr'[s] = NoAddress /\ al'[s] # PRE_OP
    BY <1>3 DEF Bus, Break, Mend
  <2>3. at = "op" => ls \in Slaves
    BY DEF Turns
  <2> QED
    BY <2>1, <2>2, <2>3, AddressNumbers DEF Above
<1>4. CASE UNCHANGED vars
  BY <1>4 DEF Above, vars, loopVars, adrVars
<1> QED
  BY <1>1, <1>2, <1>3, <1>4, NobodyWakes DEF Next, Loop

----------------------------------------------------------------------------
(* The temporary address.                                                    *)

\* A write to EC_TEMPNODE that is taken leaves nobody there.
LEMMA Cleared ==
  ASSUME Readdress(TEMPNODE, NoAddress, TRUE), present' = present
  PROVE  Holders(TEMPNODE)' = {}
<1>1. NoAddress # TEMPNODE
  BY RecoveryAssumption DEF NoAddress, TEMPNODE
<1> QED
  BY <1>1 DEF Readdress, Holders

LEMMA UndisturbedStep ==
  ASSUME TypeOK, Turns, Undisturbed, [Next]_vars
  PROVE  Undisturbed'
<1>1. CASE Loop \/ UNCHANGED vars
  BY <1>1, LoopLeaves DEF Undisturbed, Holders, vars, monVars, adrVars, busVars
<1>2. CASE Bus
  BY <1>2 DEF Undisturbed, Bus, Break, Mend
<1>3. CASE Monitor
  <2> SUFFICES ASSUME calm'
               PROVE  Undisturbed'
    BY DEF Undisturbed
  <2>1. Recover
    <3> SUFFICES ASSUME ~ Recover
                 PROVE  FALSE
      OBVIOUS
    <3>1. calm' = calm /\ mon \notin TempPlaces \cup {"named", "dropped"}
      BY <1>3 DEF Monitor, MonEnter, MonRead, MonTest, MonWrite, ReconfigInit, ReconfigIsInit, ReconfigPre, ReconfigIsPre, ReconfigSafe,
                  ReconfigIsSafe, Check, Recheck, Mark, MonLost, MonDone, TempPlaces, adrVars
    <3> QED
      BY <3>1 DEF Undisturbed
  <2>2. present' = present /\ ms \in Slaves
    BY <2>1 DEF Turns, Recover, RecoverLook, RecoverClear, RecoverTemp, RecoverUndo, RecoverIdent, RecoverName, RecoverDrop,
                RecoverRestore, TempPlaces, busVars
  <2>3. CASE RecoverLook
    <3>1. mon = "recover" => ~ calm
      BY DEF Undisturbed, TempPlaces
    <3> QED
      BY <2>2, <2>3, <3>1 DEF RecoverLook, Undisturbed, MonGo, TempPlaces
  <2>4. CASE RecoverClear
    <3>1. calm /\ Readdress(TEMPNODE, NoAddress, TRUE) /\ mon' = "temp" /\ ms' = ms
      BY <2>4 DEF RecoverClear, Datagram, MonGo
    <3> QED
      BY <2>2, <3>1, Cleared DEF Undisturbed, TempPlaces
  <2>5. CASE RecoverTemp
    <3>1. calm /\ ms <= present /\ Holders(TEMPNODE) = {}
      BY <2>5 DEF RecoverTemp, Undisturbed
    <3>2. mon' = "ident" /\ ms' = ms /\ adr' = [adr EXCEPT ![ms] = TEMPNODE]
      BY <2>5, <3>1 DEF RecoverTemp, Datagram, MonGo
    <3>3. Holders(TEMPNODE)' = {ms}
      BY <2>2, <3>1, <3>2 DEF Holders, TypeOK
    <3> QED
      BY <2>2, <3>1, <3>2, <3>3 DEF Undisturbed, TempPlaces
  <2>6. CASE RecoverIdent
    <3>1. calm /\ mon = "ident" /\ mon' \in {"name", "drop"} /\ ms' = ms /\ adr' = adr
      BY <2>6 DEF RecoverIdent, MonGo
    <3>2. Holders(TEMPNODE)' = Holders(TEMPNODE)
      BY <2>2, <3>1 DEF Holders
    <3> QED
      BY <2>2, <3>1, <3>2 DEF Undisturbed, TempPlaces
  <2>7. CASE RecoverName \/ RecoverDrop
    <3>1. calm /\ mon' \in {"named", "dropped"} /\ ms' = ms
      BY <2>7 DEF RecoverName, RecoverDrop, MonGo
    <3> QED
      BY <2>2, <3>1 DEF Undisturbed
  <2> QED
    BY <2>1, <2>3, <2>4, <2>5, <2>6, <2>7 DEF Recover, RecoverUndo, RecoverRestore
<1> QED
  BY <1>1, <1>2, <1>3 DEF Next

----------------------------------------------------------------------------
LEMMA Invariance == Spec => []IInv
<1>1. Init => IInv
  <2> SUFFICES ASSUME Init
               PROVE  IInv
    OBVIOUS
  <2>1. TypeOK /\ Turns
    BY TypeInit
  <2>2. Asleep /\ Requested /\ Above /\ Undisturbed
    BY DEF Init, Asleep, Requested, Above, Undisturbed
  <2> QED
    BY <2>1, <2>2 DEF IInv
<1>2. IInv /\ [Next]_vars => IInv'
  BY TypeStep, AsleepStep, RequestedStep, AboveStep, UndisturbedStep DEF IInv
<1> QED
  BY <1>1, <1>2, PTL DEF Spec

\* Every variable keeps its type: the field the two threads share holds states
\* only, and each thread stays within the slave list.
THEOREM TypeCorrect == Spec => []TypeOK
<1>1. IInv => TypeOK
  BY DEF IInv
<1> QED
  BY <1>1, Invariance, PTL

\* While the monitor sleeps and no slave lost its power, the reconnection loop
\* (ethercat.c:309-318) drives a slave into an error only if the slave missed the
\* request before, however often the line breaks and is mended in between.
THEOREM LoopAsksInOrder == Spec => RequestsAreLegal
<1> DEFINE A == LoopAlone => \A s \in Slaves :
                  al[s] < ERROR /\ al'[s] >= ERROR => s > present \/ (s = ls /\ missed)
<1>1. ASSUME IInv, [Next]_vars
      PROVE  [A]_vars
  <2> SUFFICES ASSUME LoopAlone, NEW s \in Slaves, al[s] < ERROR, al'[s] >= ERROR, ~ (s > present)
               PROVE  s = ls /\ missed
    OBVIOUS
  <2>1. TypeOK /\ Turns /\ Asleep /\ Requested /\ Above
    BY <1>1 DEF IInv
  <2>2. low = FALSE /\ missed \in BOOLEAN
    BY <2>1 DEF LoopAlone, TypeOK
  <2>3. al[s] \in AlStates /\ al'[s] # al[s] /\ ~ (al[s] >= ERROR)
    BY <2>1, StateNumbers
  <2>4. ~ Bus /\ ~ Monitor
    <3>1. ~ Monitor
      BY <2>1, <2>2, NobodyWakes
    <3>2. ~ Break
      BY <2>3 DEF Break
    <3>3. ~ Mend
      <4>1. s \notin present + 1 .. N
        BY <2>1 DEF TypeOK
      <4>2. Mend => al'[s] \in {al[s], INIT}
        BY <4>1 DEF Mend
      <4>3. ~ (INIT >= ERROR)
        OBVIOUS
      <4> QED
        BY <2>3, <4>2, <4>3
    <3> QED
      BY <3>1, <3>2, <3>3 DEF Bus
  <2>5. ~ (LoopEnter \/ LoopExchange \/ LoopRead \/ LoopTest \/ LoopAgain \/ UNCHANGED vars)
    BY <2>3 DEF LoopEnter, LoopExchange, LoopRead, LoopTest, LoopAgain, vars
  <2>6. LoopPre \/ LoopSafe \/ LoopOp
    BY <1>1, <2>4, <2>5 DEF Next, Loop
  <2>7. LoopOp /\ s = ls /\ al[s] = PRE_OP
    <3>1. ls \in Slaves /\ al'[s] >= ERROR
      BY <2>1, <2>2, <2>6, LoopWrites
    <3>a. ASSUME NEW request \in {PRE_OP, SAFE_OP}
          PROVE  ~ Write(ls, request)
      <4>1. request # OPERATIONAL
        OBVIOUS
      <4> QED
        BY <2>1, <2>2, <2>3, <3>1, <4>1, LoopRequest
    <3>2. ~ LoopPre
      BY <2>1, <2>2, <3>a, LoopWrites
    <3>3. ~ LoopSafe
      BY <2>1, <2>2, <3>a, LoopWrites
    <3>4. Write(ls, OPERATIONAL)
      BY <2>1, <2>2, <2>6, <3>2, <3>3, LoopWrites
    <3> QED
      BY <2>1, <2>2, <2>3, <2>6, <3>1, <3>2, <3>3, <3>4, LoopRequest
  <2>8. at = "op" /\ missed # FALSE
    BY <2>1, <2>2, <2>7, LoopWrites DEF Above
  <2> QED
    BY <2>2, <2>7, <2>8
<1> QED
  BY <1>1, Invariance, PTL DEF Spec, RequestsAreLegal

\* "clear possible slaves at EC_TEMPNODE" (ethercatconfig.c:1570): a call of
\* ec_recover_slave() that nothing disturbs reads the identity of the slave at its
\* place and gives the address to it alone, whoever was left at EC_TEMPNODE by any
\* number of calls before that were.
THEOREM CallsRenameOne == Spec => []RenamesOne
<1>1. IInv => RenamesOne
  BY DEF IInv, Undisturbed, RenamesOne
<1> QED
  BY <1>1, Invariance, PTL
=============================================================================
