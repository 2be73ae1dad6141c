----------------------- MODULE SlaveInformationProofs -----------------------
(***************************************************************************)
(* Theorems about SlaveInformation, for any EEPROMs, networks and chips,    *)
(* any size of the buffer and any number of events: the cache shows the     *)
(* EEPROM of its slave, and the EEPROM is given back.                       *)
(***************************************************************************)
EXTENDS SlaveInformation, TLAPS

----------------------------------------------------------------------------
(* The inductive invariant.                                                 *)

Reads == {"wait", "command", "poll", "data"}
Fetching == pc \in Reads /\ rd.for = "cache"
Walking == pc \in {"walk", "give"} \/ Fetching

Ops == {"end", "category", "length", "general", "count", "char", "smlen", "sm", "fmmulen", "fmmu",
        "pdolen", "index", "head", "entry"}
InitSet == {"general", "string", "sm", "fmmu"}
MapSet == {"txpdo", "rxpdo"}
WalkJobs == [task : InitSet \cup MapSet, n : Nat \ {0}, op : Ops, a : Nat, k : Nat, len : Nat, sm : Nat,
             pdos : Nat, left : Nat, eectl : BOOLEAN]
Cycles == [for : {"none", "cache", "collect", "ask"}, field : Nat, addr : {None} \cup 0 .. BufWords - 1,
           nacks : Nat, r64 : BOOLEAN, sure : BOOLEAN]

ListTypes ==
  /\ net \in Networks /\ slave \in Slaves /\ stage \in Nat \ {0}
  /\ owner \in [Slaves -> {"master", "pdi"}]
  /\ eep_pdi \in [Slaves -> BOOLEAN] /\ eep_8byte \in [Slaves -> BOOLEAN]
  /\ DOMAIN field = Slaves /\ estat \in BOOLEAN
ChipTypes ==
  /\ loaded \in [Slaves -> {None} \cup 0 .. BufWords - 1]
  /\ pending \in [Slaves -> {None} \cup 0 .. BufWords - 1]
CacheTypes ==
  /\ esislave \in 0 .. Len(net)
  /\ esimap \subseteq 0 .. BufWords + 3 /\ doubt \subseteq esimap
  /\ \A w \in esimap : esibuf[w] \in Nat
  /\ esislave = 0 => esimap = {}
CycleTypes == rd \in Cycles
JobTypes == Walking => job \in WalkJobs /\ (job.op \in {"count", "char"} => job.k > 0)

\* Where the program is in its rounds.
Places ==
  /\ pc \in {"closed", "collect", "ask", "asked"} => stage <= 6
  /\ pc \in {"sii", "preop"} => stage = 6
  /\ pc \in {"coe", "objects", "map", "mapped", "up"} => stage > 6
  /\ Walking => IF stage > 6 THEN job.task \in MapSet ELSE stage = 6 /\ job.task \in InitSet
  /\ pc \in {"wait", "command"} => rd.for \in {"cache", "ask"}
  /\ pc \in {"poll", "data"} => rd.for \in {"cache", "collect"}
  /\ pc \in Reads /\ rd.for # "cache" => stage <= 6 /\ (rd.for = "collect" /\ rd.field = 6 => stage = 6)
  /\ pc \in {"wait", "command"} => rd.addr # None

\* A read for the cache is of the slave whose cache it is, and what the chip is
\* busy with, or has read, is the address asked for, unless the read is doubtful.
FetchIsRight ==
  Fetching => /\ esislave = slave /\ rd.addr # None
              /\ pc = "poll" /\ rd.sure => pending[slave] = rd.addr
              /\ pc = "data" /\ rd.sure => loaded[slave] = rd.addr

\* A flag that is up was followed by the EEPROM unless the write got lost.
Given == \A s \in Slaves : eep_pdi[s] /\ s \notin withheld => owner[s] = "pdi"
\* The flag of a slave that was asked to go to PRE_OP is up outside the read functions.
Busy(s) == s = slave /\ pc \in {"walk", "give"} \cup Reads
FlagsUp == \A s \in Slaves : Preop(s) /\ ~ Busy(s) => eep_pdi[s]
\* Those functions remember it.
Remembered == Walking /\ stage > 6 => job.eectl

IInv == /\ ListTypes /\ ChipTypes /\ CacheTypes /\ CycleTypes /\ JobTypes /\ Places
        /\ FetchIsRight /\ CacheIsTrue /\ Given /\ FlagsUp /\ Remembered

----------------------------------------------------------------------------
(* Numbers and words.                                                       *)

LEMMA Numbers ==
  /\ None \notin Nat
  /\ Space \in Nat \ {0} /\ Blank \in Nat
  /\ \A v \in Nat : Lo(v) \in Nat /\ Hi(v) \in Nat /\ v % Space \in Nat
<1>0. None \notin Nat
  BY DEF None
<1>1. Base \in Nat /\ Base >= 2
  BY SiiAssumption
<1>2. Base * Base \in Nat /\ Base * Base >= 4
  <2> DEFINE b == Base - 2
  <2>1. b \in Nat /\ Base = b + 2
    BY <1>1
  <2>2. Base * Base = b * b + 4 * b + 4 /\ b * b \in Nat
    BY <2>1
  <2> HIDE DEF b
  <2> QED
    BY <2>1, <2>2
<1>3. Space \in Nat \ {0} /\ Blank \in Nat
  <2> DEFINE sq == Base * Base
  <2>1. sq \in Nat /\ sq >= 4
    BY <1>2
  <2> HIDE DEF sq
  <2>2. sq \div 2 \in Nat \ {0} /\ sq - 1 \in Nat
    BY <2>1
  <2> QED
    BY <2>2 DEF Space, Blank, sq
<1>4. \A v \in Nat : Lo(v) \in Nat /\ Hi(v) \in Nat /\ v % Space \in Nat
  <2> TAKE v \in Nat
  <2>1. v % Base \in Nat
    BY <1>1
  <2>2. v \div Base \in Nat
    BY <1>1
  <2>3. v % Space \in Nat
    BY <1>3
  <2> QED
    BY <2>1, <2>2, <2>3 DEF Lo, Hi
<1> QED
  BY <1>0, <1>3, <1>4

(* Every word a walker or the cache can ask for is a number.                *)
LEMMA EepromWords ==
  \A img \in Images : /\ DOMAIN Eeprom[img] = 0 .. BufWords + 3
                      /\ \A a \in 0 .. BufWords + 3 : Eeprom[img][a] \in Nat
<1> TAKE img \in Images
<1> DEFINE w == SiiWords(img)
<1>1. w \in Seq(0 .. Blank) /\ Blank \in Nat /\ BufWords \in Nat
  BY SiiAssumption, Numbers
<1>2. Eeprom[img] = [a \in 0 .. BufWords + 3 |-> IF a < Len(w) THEN w[a + 1] ELSE Blank]
  BY DEF Eeprom
<1> HIDE DEF w
<1>3. ASSUME NEW a \in 0 .. BufWords + 3
      PROVE  (IF a < Len(w) THEN w[a + 1] ELSE Blank) \in Nat
  <2>1. CASE a < Len(w)
    <3>1. a + 1 \in 1 .. Len(w)
      BY <1>1, <2>1
    <3>2. w[a + 1] \in 0 .. Blank
      BY <1>1, <3>1
    <3> QED
      BY <1>1, <2>1, <3>2
  <2>2. CASE ~ (a < Len(w))
    BY <1>1, <2>2
  <2> QED
    BY <2>1, <2>2
<1> QED
  BY <1>2, <1>3

(* What is read of an address is a number, and, if the chip has that address  *)
(* in its register, the words of the EEPROM.                                 *)
LEMMA AnswerWords ==
  ASSUME net \in Networks, NEW s \in Slaves, NEW r64 \in BOOLEAN, ChipTypes
  PROVE  /\ \A i \in 0 .. 3 : Answered(s, r64)[i] \in Nat
         /\ loaded[s] # None =>
              \A i \in 0 .. 3 : i < Width(r64) => Answered(s, r64)[i] = Eeprom[net[s]][loaded[s] + i]
<1>1. net[s] \in Images
  BY SiiAssumption DEF Slaves
<1>2. BufWords \in Nat
  BY SiiAssumption
<1>3. loaded[s] \in {None} \cup 0 .. BufWords - 1
  BY DEF ChipTypes
<1>4. DOMAIN Eeprom[net[s]] = 0 .. BufWords + 3 /\ \A a \in 0 .. BufWords + 3 : Eeprom[net[s]][a] \in Nat
  BY <1>1, EepromWords
<1>5. \A i \in 0 .. 3 : Answered(s, r64)[i] =
         IF i < Width(r64) /\ loaded[s] # None /\ loaded[s] + i \in DOMAIN Eeprom[net[s]]
         THEN Eeprom[net[s]][loaded[s] + i] ELSE 0
  BY DEF Answered
<1>6. loaded[s] # None => \A i \in 0 .. 3 : loaded[s] + i \in 0 .. BufWords + 3
  BY <1>2, <1>3
<1> QED
  BY <1>4, <1>5, <1>6, SMTT(30)

LEMMA NothingWords == \A i \in 0 .. 3 : Nothing[i] \in Nat
BY DEF Nothing

(* What is there is less than the buffer by three words.                      *)
LEMMA Widths ==
  /\ \A r64 \in BOOLEAN : Width(r64) \in {2, 4}
BY DEF Width

----------------------------------------------------------------------------
(* The end of a read.                                                        *)

(* Where a read goes on when it ends, and what it leaves alone.             *)
LEMMA ReadEnds ==
  ASSUME CycleTypes, NEW data, NEW good, EndRead(data, good), pc \in Reads
  PROVE  /\ rd' = NoRead
         /\ rd.for = "cache" => pc' = "walk" /\ UNCHANGED <<esislave, field>>
         /\ rd.for = "collect" => pc' = (IF rd.field = 6 THEN "sii" ELSE "ask") /\ UNCHANGED cache
         /\ rd.for = "ask" => pc' = "asked" /\ UNCHANGED <<cache, field>>
         /\ DOMAIN field' = DOMAIN field
         /\ rd.for # "none"
BY DEF EndRead, Fill, Collected, Asked, Goto, cache

LEMMA NewRead == NoRead \in Cycles
BY SiiAssumption DEF NoRead, Cycles, SiiStart

----------------------------------------------------------------------------
(* Types.                                                                   *)

(* The next slave, or the next round.                                       *)
LEMMA Advances ==
  ASSUME ListTypes, Advance
  PROVE  /\ slave' \in Slaves /\ stage' \in Nat \ {0}
         /\ slave < Len(net) => slave' = slave + 1 /\ stage' = stage
         /\ ~ (slave < Len(net)) => slave' = 1 /\ stage' = stage + 1 /\ slave = Len(net)
<1>1. Len(net) \in Nat
  BY SiiAssumption DEF ListTypes
<1> QED
  BY <1>1 DEF Advance, ListTypes, Slaves

(* Control of the EEPROM: the flag always moves, the EEPROM if the write arrives.*)
LEMMA Taken ==
  ASSUME ListTypes, NEW s \in Slaves, TakeControl(s)
  PROVE  /\ eep_pdi' = [eep_pdi EXCEPT ![s] = FALSE] /\ eep_pdi' \in [Slaves -> BOOLEAN]
         /\ owner' \in [Slaves -> {"master", "pdi"}]
         /\ \A t \in Slaves : t # s => owner'[t] = owner[t]
BY DEF ListTypes, TakeControl, Set

LEMMA GivenBack ==
  ASSUME ListTypes, NEW s \in Slaves, GiveControl(s)
  PROVE  /\ eep_pdi' = [eep_pdi EXCEPT ![s] = TRUE] /\ eep_pdi' \in [Slaves -> BOOLEAN]
         /\ owner' \in [Slaves -> {"master", "pdi"}]
BY DEF ListTypes, GiveControl, Set

(* A network that is opened has slaves, and nothing is known of them.       *)
LEMMA Opens ==
  ASSUME ListTypes, Open
  PROVE  /\ net' \in Networks /\ DOMAIN net' = 1 .. Len(net') /\ Len(net') \in Nat \ {0}
         /\ slave' = 1 /\ stage' = 1 /\ pc' = "collect"
         /\ ListTypes'
<1>1. net' \in Networks
  BY DEF Open
<1>2. net' \in Seq(Images) /\ net' # <<>>
  BY <1>1, SiiAssumption
<1>3. DOMAIN net' = 1 .. Len(net') /\ Len(net') \in Nat \ {0}
  BY <1>2
<1>4. slave' = 1 /\ stage' = 1 /\ pc' = "collect"
  BY DEF Open, Goto
<1>5. slave' \in Slaves' /\ DOMAIN net' = Slaves'
  BY <1>3, <1>4 DEF Slaves
<1>6. /\ owner' \in [Slaves' -> {"master", "pdi"}]
      /\ eep_pdi' \in [Slaves' -> BOOLEAN] /\ eep_8byte' \in [Slaves' -> BOOLEAN]
      /\ DOMAIN field' = Slaves' /\ estat' = estat
  BY <1>5 DEF Open, Cleared
<1> QED
  BY <1>1, <1>3, <1>4, <1>5, <1>6 DEF ListTypes

LEMMA ListTypesKept ==
  ASSUME ListTypes, CycleTypes, [Next]_vars
  PROVE  ListTypes'
<1>1. CASE Open
  BY <1>1, Opens
<1>2. ASSUME net' = net, slave' \in Slaves, stage' \in Nat \ {0}, owner' \in [Slaves -> {"master", "pdi"}],
             eep_pdi' \in [Slaves -> BOOLEAN], eep_8byte' \in [Slaves -> BOOLEAN], DOMAIN field' = DOMAIN field, estat' \in BOOLEAN
      PROVE  ListTypes'
  <2>1. Slaves' = Slaves
    BY <1>2 DEF Slaves
  <2> QED
    BY <1>2, <2>1 DEF ListTypes
<1>3. CASE WaitToAsk \/ Command \/ Poll \/ Data
  <2>1. /\ UNCHANGED <<net, owner, eep_pdi, eep_8byte, stage, slave, estat>> /\ pc \in Reads
    BY <1>3 DEF WaitToAsk, Command, Poll, Data, chip, Reads
  <2>2. DOMAIN field' = DOMAIN field
    <3>1. field' = field \/ \E data, good : EndRead(data, good)
      BY <1>3 DEF WaitToAsk, Command, Poll, Data, AgainOrEnd, Stay, Read
    <3> QED
      BY <2>1, <3>1, ReadEnds
  <2> QED
    BY <1>2, <2>1, <2>2 DEF ListTypes
<1>4. CASE ReadWidth
  <2>1. eep_8byte' \in [Slaves -> BOOLEAN] /\ estat' \in BOOLEAN
    <3>0. estat' \in BOOLEAN
      <4>1. estat' = (net[slave] \in Wide) \/ estat' = estat
        BY <1>4, Zenon DEF ReadWidth
      <4>2. (net[slave] \in Wide) \in BOOLEAN
        OBVIOUS
      <4>3. estat \in BOOLEAN
        BY DEF ListTypes
      <4> QED
        BY <4>1, <4>2, <4>3, Zenon
    <3>1. eep_8byte' = [eep_8byte EXCEPT ![slave] = estat'] /\ eep_8byte \in [Slaves -> BOOLEAN]
      BY <1>4 DEF ReadWidth, Set, ListTypes
    <3> QED
      BY <3>0, <3>1
  <2> QED
    BY <1>2, <1>4, <2>1 DEF ReadWidth, ListTypes, chip
<1>5. CASE Collect \/ Ask \/ Describe \/ ReadObject \/ ReadSingly \/ MapSlave \/ SwitchSlave \/ Walk
  BY <1>2, <1>5 DEF Collect, Ask, Describe, ReadObject, ReadSingly, MapSlave, SwitchSlave, Walk, ListTypes, chip, list, place
<1>6. CASE NextSlave
  <2>1. slave' \in Slaves /\ stage' \in Nat \ {0}
    BY <1>6, Advances DEF NextSlave, ListTypes
  <2> QED
    BY <1>2, <1>6, <2>1 DEF NextSlave, ListTypes, chip, list
<1>7. CASE RequestPreop
  <2>1. slave' \in Slaves /\ stage' \in Nat \ {0}
    BY <1>7, Advances DEF RequestPreop, ListTypes
  <2>2. eep_pdi' \in [Slaves -> BOOLEAN] /\ owner' \in [Slaves -> {"master", "pdi"}]
    BY <1>7, GivenBack DEF RequestPreop, ListTypes
  <2> QED
    BY <1>2, <1>7, <2>1, <2>2 DEF RequestPreop, ListTypes
<1>8. CASE AskMailbox \/ EndMailbox \/ NextMapped
  <2>1. slave' \in Slaves /\ stage' \in Nat \ {0}
    BY <1>8, Advances DEF AskMailbox, EndMailbox, NextMapped, NextMailbox, ListTypes
  <2> QED
    BY <1>2, <1>8, <2>1 DEF AskMailbox, EndMailbox, NextMapped, ListTypes, chip, list
<1>9. CASE Miss
  <2>1. eep_pdi' \in [Slaves -> BOOLEAN] /\ owner' \in [Slaves -> {"master", "pdi"}]
    BY <1>9, Taken DEF Miss, ListTypes
  <2> QED
    BY <1>2, <1>9, <2>1 DEF Miss, ListTypes
<1>10. CASE EndFind \/ EndJob
  <2>1. eep_pdi' \in [Slaves -> BOOLEAN] /\ owner' \in [Slaves -> {"master", "pdi"}]
    BY <1>10, GivenBack DEF EndFind, EndJob, GiveBack, ListTypes
  <2> QED
    BY <1>2, <1>10, <2>1 DEF EndFind, EndJob, ListTypes
<1>11. CASE UNCHANGED vars
  BY <1>2, <1>11 DEF vars, chip, list, place, ListTypes
<1> QED
  BY <1>1, <1>3, <1>4, <1>5, <1>6, <1>7, <1>8, <1>9, <1>10, <1>11 DEF Next, Fetch, Configure, Walker

(* The word a walk wants has an address, which may be behind the buffer.      *)
LEMMA WantedIsWord ==
  ASSUME JobTypes, pc = "walk"
  PROVE  Wanted \in Nat
<1>1. job \in WalkJobs /\ (job.op \in {"count", "char"} => job.k > 0)
  BY DEF JobTypes, Walking
<1>2. job.a \in Nat /\ job.k \in Nat
  BY <1>1 DEF WalkJobs
<1>3. (job.a + 2) % Space \in Nat /\ job.a + 2 \in Nat
  BY <1>2, Numbers
<1>4. job.op = "char" => (job.k - 1) \div 2 \in Nat
  BY <1>1, <1>2
<1>5. CASE job.op = "char"
  BY <1>2, <1>3, <1>4, <1>5 DEF Wanted
<1>6. CASE job.op # "char"
  BY <1>2, <1>3, <1>6 DEF Wanted
<1> QED
  BY <1>5, <1>6

(* What a step changes in a read cycle leaves it one.                       *)
LEMMA CyclesStay ==
  ASSUME NEW r \in Cycles, NEW n \in Nat, NEW b \in BOOLEAN, NEW c \in BOOLEAN
  PROVE  /\ [r EXCEPT !.nacks = n] \in Cycles
         /\ [r EXCEPT !.sure = b] \in Cycles
         /\ [r EXCEPT !.nacks = n, !.r64 = c] \in Cycles
         /\ [r EXCEPT !.sure = b, !.nacks = n, !.r64 = c] \in Cycles
         /\ [r EXCEPT !.nacks = n, !.r64 = c, !.sure = b] \in Cycles
BY DEF Cycles

(* An address is asked for only where the buffer has it.                    *)
LEMMA CycleTypesKept ==
  ASSUME IInv, [Next]_vars
  PROVE  CycleTypes'
<1>0. rd \in Cycles /\ ListTypes /\ JobTypes /\ Places
  BY DEF IInv, CycleTypes
<1>1. ASSUME NEW data, NEW good, EndRead(data, good)
      PROVE  rd' \in Cycles
  BY <1>1, NewRead DEF EndRead
<1>2. ASSUME NEW n, AgainOrEnd(n)
      PROVE  rd' \in Cycles
  <2>1. CASE n \in 1 .. MaxNack - 1
    <3>1. n \in Nat /\ rd' = [rd EXCEPT !.nacks = n]
      BY <1>2, <2>1, SiiAssumption DEF AgainOrEnd
    <3> QED
      BY <1>0, <3>1, CyclesStay
  <2>2. CASE n \notin 1 .. MaxNack - 1
    BY <1>1, <1>2, <2>2 DEF AgainOrEnd
  <2> QED
    BY <2>1, <2>2, SMTT(30)
<1>3. CASE WaitToAsk
  BY <1>0, <1>1, <1>3 DEF WaitToAsk, CycleTypes
<1>4. CASE Command
  <2>1. ASSUME NEW good \in BOOLEAN, rd' = [rd EXCEPT !.sure = good]
        PROVE  rd' \in Cycles
    <3>1. 0 \in Nat /\ TRUE \in BOOLEAN
      OBVIOUS
    <3> QED
      BY <1>0, <2>1, <3>1, CyclesStay
  <2>2. Takes(slave) \in BOOLEAN
    BY DEF Takes
  <2>3. \/ \E data, good : EndRead(data, good)
        \/ \E good \in BOOLEAN : rd' = [rd EXCEPT !.sure = good]
        \/ AgainOrEnd(rd.nacks)
    BY <1>4, <2>2 DEF Command
  <2> QED
    BY <1>1, <1>2, <2>1, <2>3 DEF CycleTypes
<1>5. CASE Poll
  <2>1. ASSUME NEW good \in BOOLEAN, Read(good)
        PROVE  rd' \in Cycles
    <3> DEFINE b == rd.sure /\ good
               c == net[slave] \in Wide
    <3>1. b \in BOOLEAN /\ c \in BOOLEAN /\ 0 \in Nat
      OBVIOUS
    <3>2. rd' = [rd EXCEPT !.sure = b, !.nacks = 0, !.r64 = c]
      BY <2>1, SMTT(30) DEF Read
    <3> HIDE DEF b, c
    <3> QED
      BY <1>0, <3>1, <3>2, CyclesStay, ZenonT(40)
  <2>2. ASSUME rd' = [rd EXCEPT !.nacks = 0, !.r64 = FALSE] \/ rd' = [rd EXCEPT !.nacks = 0, !.r64 = FALSE, !.sure = FALSE]
        PROVE  rd' \in Cycles
    <3>1. 0 \in Nat /\ FALSE \in BOOLEAN
      OBVIOUS
    <3> QED
      BY <1>0, <2>2, <3>1, CyclesStay
  <2>3. \/ Read(TRUE) \/ Read(FALSE)
        \/ rd' = [rd EXCEPT !.nacks = 0, !.r64 = FALSE]
        \/ rd' = [rd EXCEPT !.nacks = 0, !.r64 = FALSE, !.sure = FALSE]
        \/ AgainOrEnd(rd.nacks) \/ AgainOrEnd(rd.nacks + 1)
        \/ EndRead(Nothing, FALSE)
    BY <1>5, Zenon DEF Poll
  <2>4. TRUE \in BOOLEAN /\ FALSE \in BOOLEAN
    OBVIOUS
  <2> QED
    BY <1>1, <1>2, <2>1, <2>2, <2>3, <2>4 DEF CycleTypes
<1>6. CASE Data
  BY <1>1, <1>6 DEF Data, CycleTypes
<1>7. ASSUME NEW use \in {"cache", "collect", "ask"}, NEW k \in Nat, NEW addr \in {None} \cup 0 .. BufWords - 1,
             Begin(use, k, addr)
      PROVE  rd' \in Cycles
  BY <1>7 DEF Begin, Cycles
<1>8. CASE Collect
  <2>1. stage - 1 \in Nat
    BY <1>0 DEF ListTypes
  <2>2. Begin("collect", stage - 1, None) \/ rd' = rd
    BY <1>8 DEF Collect
  <2> QED
    BY <1>0, <1>7, <2>1, <2>2 DEF CycleTypes
<1>9. CASE Ask
  <2>1. stage \in 1 .. 6
    BY <1>0, <1>9 DEF ListTypes, Places, Ask
  <2>2. FieldAt[stage] \in 0 .. BufWords - 1
    BY <2>1, SiiAssumption DEF FieldAt, SiiStart
  <2>3. Begin("ask", stage, FieldAt[stage]) \/ rd' = rd
    BY <1>9 DEF Ask
  <2> QED
    BY <1>0, <1>7, <2>1, <2>2, <2>3 DEF CycleTypes
<1>10. CASE NextSlave
  BY <1>0, <1>7, <1>10 DEF NextSlave, CycleTypes
<1>11. CASE Miss
  <2>1. Wanted \in 0 .. BufWords - 1
    BY <1>0, <1>11, WantedIsWord, SiiAssumption DEF Miss
  <2> QED
    BY <1>7, <1>11, <2>1 DEF Miss, CycleTypes
<1>12. CASE Open \/ ReadWidth \/ Describe \/ RequestPreop \/ AskMailbox \/ ReadObject \/ ReadSingly \/ EndMailbox
            \/ MapSlave \/ NextMapped \/ SwitchSlave \/ Walk \/ EndFind \/ EndJob \/ UNCHANGED vars
  <2>1. rd' = rd
    BY <1>12 DEF Open, ReadWidth, Describe, RequestPreop, AskMailbox, ReadObject, ReadSingly, EndMailbox,
                 MapSlave, NextMapped, SwitchSlave, Walk, EndFind, EndJob, vars, place
  <2> QED
    BY <1>0, <2>1 DEF CycleTypes
<1> QED
  BY <1>3, <1>4, <1>5, <1>6, <1>8, <1>9, <1>10, <1>11, <1>12 DEF Next, Fetch, Configure, Walker

LEMMA ChipTypesKept ==
  ASSUME IInv, [Next]_vars
  PROVE  ChipTypes'
<1> DEFINE A == {None} \cup 0 .. BufWords - 1
<1>0. /\ loaded \in [Slaves -> A] /\ pending \in [Slaves -> A] /\ slave \in Slaves /\ None \in A
      /\ rd \in Cycles /\ rd.addr \in A
  BY DEF IInv, CycleTypes, Cycles, ChipTypes, ListTypes
<1>1. ASSUME loaded' \in [Slaves -> A], pending' \in [Slaves -> A], net' = net
      PROVE  ChipTypes'
  <2>1. Slaves' = Slaves
    BY <1>1 DEF Slaves
  <2> QED
    BY <1>1, <2>1 DEF ChipTypes
<1>2. CASE Open
  <2>1. loaded' = [s \in Slaves' |-> None] /\ pending' = loaded'
    BY <1>2, Opens DEF Open, Slaves, IInv
  <2> QED
    BY <2>1 DEF ChipTypes
<1>3. CASE WaitToAsk \/ Command \/ Poll \/ Data
  <2>1. net' = net
    BY <1>3 DEF WaitToAsk, Command, Poll, Data, chip
  <2>2. /\ loaded' = loaded \/ loaded' = [loaded EXCEPT ![slave] = pending[slave]]
        /\ pending' = pending \/ pending' = [pending EXCEPT ![slave] = None] \/ pending' = [pending EXCEPT ![slave] = rd.addr]
    BY <1>3 DEF WaitToAsk, Command, Poll, Data, chip, Done, Refuses, Execute, Set
  <2> HIDE DEF A
  <2>3. loaded' \in [Slaves -> A] /\ pending' \in [Slaves -> A]
    BY <1>0, <2>2
  <2> QED
    BY <1>1, <2>1, <2>3
<1>4. CASE Configure \/ Walker \/ UNCHANGED vars
  <2>1. UNCHANGED <<net, loaded, pending>>
    BY <1>4 DEF Configure, Walker, ReadWidth, Collect, Ask, NextSlave, Describe, RequestPreop, AskMailbox, ReadObject,
                ReadSingly, EndMailbox, MapSlave, NextMapped, SwitchSlave, Miss, Walk, EndFind, EndJob, vars, chip
  <2> QED
    BY <1>0, <1>1, <2>1
<1> QED
  BY <1>2, <1>3, <1>4 DEF Next, Fetch

----------------------------------------------------------------------------
(* The cache.                                                               *)

(* What a read puts into the cache, if nothing about it is doubtful.          *)
TrueData(data) == \A i \in 0 .. FillWidth(slave) - 1 : data[i] = Eeprom[net[slave]][rd.addr + i]

(* A fill leaves the cache true: the words are those of the slave asked, or doubtful.*)
LEMMA FillKeeps ==
  ASSUME IInv, NEW data, NEW good \in BOOLEAN, rd.for = "cache", pc \in Reads, Fill(data, good), net' = net,
         \A i \in 0 .. 3 : data[i] \in Nat, good => TrueData(data)
  PROVE  CacheTypes' /\ CacheIsTrue'
<1> DEFINE W   == FillWidth(slave)
           new == rd.addr .. rd.addr + W - 1
<1>1. /\ esislave = slave /\ rd.addr \in 0 .. BufWords - 1 /\ slave \in 1 .. Len(net) /\ W \in {2, 4}
      /\ BufWords \in Nat /\ Len(net) \in Nat
  <2>1. rd.addr \in {None} \cup 0 .. BufWords - 1
    BY DEF IInv, CycleTypes, Cycles
  <2>2. esislave = slave /\ rd.addr # None
    BY DEF IInv, FetchIsRight, Fetching
  <2>3. slave \in 1 .. Len(net) /\ eep_8byte[slave] \in BOOLEAN /\ Len(net) \in Nat
    <3>1. net \in Seq(Images)
      BY SiiAssumption DEF IInv, ListTypes
    <3>2. slave \in Slaves /\ eep_8byte \in [Slaves -> BOOLEAN]
      BY DEF IInv, ListTypes
    <3> QED
      BY <3>1, <3>2 DEF Slaves
  <2>4. W \in {2, 4}
    BY <2>3, Widths DEF FillWidth
  <2> QED
    BY <2>1, <2>2, <2>3, <2>4, SiiAssumption
<1>2. /\ esimap \subseteq 0 .. BufWords + 3 /\ doubt \subseteq esimap
      /\ \A w \in esimap : esibuf[w] \in Nat
  BY DEF IInv, CacheTypes
<1>3. \A w \in esimap \ doubt : esibuf[w] = Eeprom[net[slave]][w]
  BY <1>1 DEF IInv, CacheIsTrue
<1>4. /\ esibuf' = [w \in esimap \cup new |-> IF w \in new THEN data[w - rd.addr] ELSE esibuf[w]]
      /\ doubt' = IF good THEN doubt \ new ELSE doubt \cup new
      /\ esislave' = esislave
  BY DEF Fill
<1>5. good => \A i \in 0 .. W - 1 : data[i] = Eeprom[net[slave]][rd.addr + i]
  BY DEF TrueData
<1> HIDE DEF W
<1>6. \A w \in new : w - rd.addr \in 0 .. 3 /\ w - rd.addr \in 0 .. W - 1 /\ rd.addr + (w - rd.addr) = w
  <2> DEFINE a == rd.addr
  <2>1. a \in Nat /\ W \in {2, 4}
    BY <1>1
  <2> HIDE DEF a
  <2> SUFFICES ASSUME NEW w \in a .. a + W - 1
               PROVE  w - a \in 0 .. 3 /\ w - a \in 0 .. W - 1 /\ a + (w - a) = w
    BY DEF a
  <2> QED
    BY <2>1
<1>7. new \subseteq 0 .. BufWords + 3
  BY <1>1, SMTT(30)
<1> HIDE DEF new
<1>8. esimap' = esimap \cup new
  BY <1>4 DEF esimap
<1>9. \A w \in esimap' : esibuf'[w] = IF w \in new THEN data[w - rd.addr] ELSE esibuf[w]
  BY <1>4, <1>8 DEF esimap
<1>10. CacheTypes'
  <2>1. esislave' \in 0 .. Len(net') /\ esislave' # 0
    BY <1>1, <1>4
  <2>2. esimap' \subseteq 0 .. BufWords + 3
    BY <1>2, <1>7, <1>8
  <2>3. doubt' \subseteq esimap'
    BY <1>2, <1>4, <1>8
  <2>4. \A w \in esimap' : esibuf'[w] \in Nat
    BY <1>2, <1>6, <1>8, <1>9
  <2> QED
    BY <2>1, <2>2, <2>3, <2>4 DEF CacheTypes
<1>11. ASSUME NEW w \in esimap' \ doubt'
       PROVE  esislave' # 0 /\ esibuf'[w] = Eeprom[net[esislave']][w]
  <2>1. esislave' = slave /\ slave # 0
    BY <1>1, <1>4
  <2>2. CASE w \in new
    <3>1. good
      BY <1>4, <1>11, <2>2
    <3>2. data[w - rd.addr] = Eeprom[net[slave]][rd.addr + (w - rd.addr)]
      BY <1>5, <1>6, <2>2, <3>1
    <3> QED
      BY <1>6, <1>9, <2>1, <2>2, <3>2
  <2>3. CASE w \notin new
    <3>1. w \in esimap \ doubt
      BY <1>4, <1>8, <1>11, <2>3
    <3> QED
      BY <1>3, <1>9, <2>1, <2>3, <3>1
  <2> QED
    BY <2>2, <2>3
<1> QED
  BY <1>10, <1>11 DEF CacheIsTrue

(* The same after a read that came to nothing, and after one that was answered. *)
LEMMA NothingKeeps ==
  ASSUME IInv, EndRead(Nothing, FALSE), pc \in Reads, net' = net
  PROVE  CacheTypes' /\ CacheIsTrue'
<1>1. CASE rd.for = "cache"
  <2>1. Fill(Nothing, FALSE)
    BY <1>1 DEF EndRead
  <2> QED
    BY <1>1, <2>1, FillKeeps, NothingWords
<1>2. CASE rd.for # "cache"
  <2>1. UNCHANGED cache
    BY <1>2, ReadEnds DEF IInv, EndRead, Collected, Asked
  <2> QED
    BY <2>1 DEF IInv, CacheTypes, CacheIsTrue, cache, esimap
<1> QED
  BY <1>1, <1>2

(* So does an answer: what the chip has loaded is what was asked for.       *)
LEMMA AnswerKeeps ==
  ASSUME IInv, Data
  PROVE  CacheTypes' /\ CacheIsTrue'
<1> DEFINE answer == Answered(slave, rd.r64)
           good == rd.sure /\ (rd.for = "cache" /\ eep_8byte[slave] => rd.r64)
<1>1. pc = "data" /\ pc \in Reads /\ net' = net
  BY DEF Data, chip, Reads
<1>2. /\ net \in Networks /\ slave \in Slaves /\ rd.r64 \in BOOLEAN /\ eep_8byte[slave] \in BOOLEAN
      /\ ChipTypes
  BY DEF IInv, ListTypes, CycleTypes, Cycles
<1>3. EndRead(answer, good) \/ EndRead(Nothing, FALSE)
  BY DEF Data
<1>4. CASE EndRead(Nothing, FALSE)
  BY <1>1, <1>4, NothingKeeps
<1>5. CASE EndRead(answer, good) /\ rd.for # "cache"
  <2>1. UNCHANGED cache
    BY <1>5 DEF EndRead, Collected, Asked
  <2> QED
    BY <1>1, <2>1 DEF IInv, CacheTypes, CacheIsTrue, cache, esimap
<1>6. CASE EndRead(answer, good) /\ rd.for = "cache"
  <2>1. Fill(answer, good)
    BY <1>6 DEF EndRead
  <2>2. /\ \A i \in 0 .. 3 : answer[i] \in Nat
        /\ loaded[slave] # None => \A i \in 0 .. 3 : i < Width(rd.r64) => answer[i] = Eeprom[net[slave]][loaded[slave] + i]
    BY <1>2, AnswerWords
  <2>3. good \in BOOLEAN
    OBVIOUS
  <2>4. ASSUME good
        PROVE  TrueData(answer)
    <3>1. loaded[slave] = rd.addr /\ rd.addr # None
      BY <1>1, <1>6, <2>4 DEF IInv, FetchIsRight, Fetching
    <3>2. eep_8byte[slave] => rd.r64
      BY <1>6, <2>4
    <3>3. \A i \in 0 .. FillWidth(slave) - 1 : i \in 0 .. 3 /\ i < Width(rd.r64)
      BY <1>2, <3>2 DEF FillWidth, Width
    <3> HIDE DEF answer
    <3> QED
      BY <2>2, <3>1, <3>3 DEF TrueData
  <2> HIDE DEF answer, good
  <2> QED
    BY <1>1, <1>6, <2>1, <2>2, <2>3, <2>4, FillKeeps
<1> QED
  BY <1>3, <1>4, <1>5, <1>6

(* The only other step on the cache is the change of slave, which empties it.*)
LEMMA CacheKept ==
  ASSUME IInv, [Next]_vars
  PROVE  CacheTypes' /\ CacheIsTrue'
<1>1. CASE Open
  <2>1. esislave' = 0 /\ (esislave = 0 => UNCHANGED <<esibuf, doubt>>) /\ (esislave # 0 => esibuf' = <<>> /\ doubt' = {})
    BY <1>1 DEF Open, EmptyCache
  <2>2. esimap' = {} /\ doubt' = {}
    BY <2>1 DEF IInv, CacheTypes, esimap
  <2>3. esislave' \in 0 .. Len(net')
    BY <1>1, <2>1, Opens DEF IInv
  <2> QED
    BY <2>1, <2>2, <2>3 DEF CacheTypes, CacheIsTrue
<1>2. ASSUME UNCHANGED cache, net' = net
      PROVE  CacheTypes' /\ CacheIsTrue'
  BY <1>2 DEF IInv, CacheTypes, CacheIsTrue, cache, esimap
<1>3. CASE WaitToAsk \/ Command \/ Poll
  <2>1. net' = net /\ pc \in Reads
    BY <1>3 DEF WaitToAsk, Command, Poll, Reads
  <2>2. EndRead(Nothing, FALSE) \/ UNCHANGED cache \/ (rd.for = "ask" /\ \E good : EndRead(Nothing, good))
    BY <1>3 DEF WaitToAsk, Command, Poll, AgainOrEnd, Stay, Read
  <2>3. CASE rd.for = "ask" /\ \E good : EndRead(Nothing, good)
    <3>1. UNCHANGED cache
      BY <2>3 DEF EndRead, Asked
    <3> QED
      BY <1>2, <2>1, <3>1
  <2> QED
    BY <1>2, <2>1, <2>2, <2>3, NothingKeeps
<1>4. CASE Data
  BY <1>4, AnswerKeeps
<1>5. CASE Configure
  <2>1. UNCHANGED cache /\ net' = net
    BY <1>5 DEF Configure, ReadWidth, Collect, Ask, NextSlave, Describe, RequestPreop, AskMailbox, ReadObject,
                ReadSingly, EndMailbox, MapSlave, NextMapped, chip
  <2> QED
    BY <1>2, <2>1
<1>6. CASE SwitchSlave
  <2>1. esislave' = slave /\ esibuf' = <<>> /\ doubt' = {} /\ net' = net
    BY <1>6 DEF SwitchSlave, Switched, chip
  <2>2. esimap' = {}
    BY <2>1 DEF esimap
  <2>3. slave \in 1 .. Len(net) /\ Len(net) \in Nat
    BY SiiAssumption DEF IInv, ListTypes, Slaves
  <2> QED
    BY <2>1, <2>2, <2>3 DEF CacheTypes, CacheIsTrue
<1>7. CASE Miss \/ Walk \/ EndFind \/ EndJob \/ UNCHANGED vars
  <2>1. UNCHANGED cache /\ net' = net
    BY <1>7 DEF Miss, Walk, EndFind, EndJob, vars, chip
  <2> QED
    BY <1>2, <2>1
<1> QED
  BY <1>1, <1>3, <1>4, <1>5, <1>6, <1>7 DEF Next, Fetch, Walker

(* A read for the cache is right: nothing comes in between its steps.         *)
LEMMA FetchKept ==
  ASSUME IInv, [Next]_vars
  PROVE  FetchIsRight'
<1>0. /\ rd \in Cycles /\ slave \in Slaves /\ Places
      /\ loaded \in [Slaves -> {None} \cup 0 .. BufWords - 1] /\ pending \in [Slaves -> {None} \cup 0 .. BufWords - 1]
  BY DEF IInv, CycleTypes, ListTypes, ChipTypes
<1>1. ASSUME NEW data, NEW good, EndRead(data, good)
      PROVE  FetchIsRight'
  <2>1. rd'.for # "cache"
    BY <1>1 DEF EndRead, NoRead
  <2> QED
    BY <2>1 DEF FetchIsRight, Fetching
<1>2. ASSUME NEW n, AgainOrEnd(n), UNCHANGED slave, pc \in Reads
      PROVE  FetchIsRight'
  <2>1. CASE n \in 1 .. MaxNack - 1
    <3>1. rd' = [rd EXCEPT !.nacks = n] /\ pc' = "command" /\ UNCHANGED esislave
      BY <1>2, <2>1 DEF AgainOrEnd, Goto, Stay, cache
    <3>2. rd'.for = rd.for /\ rd'.addr = rd.addr
      BY <1>0, <3>1 DEF Cycles
    <3> QED
      BY <1>2, <3>1, <3>2 DEF IInv, FetchIsRight, Fetching
  <2>2. CASE n \notin 1 .. MaxNack - 1
    BY <1>1, <1>2, <2>2 DEF AgainOrEnd
  <2> QED
    BY <2>1, <2>2
<1>3. CASE WaitToAsk
  <2>1. CASE \E data, good : EndRead(data, good)
    BY <1>1, <2>1
  <2>2. CASE Goto("command") /\ Stay /\ UNCHANGED rd
    BY <1>3, <2>2 DEF WaitToAsk, IInv, FetchIsRight, Fetching, Goto, Stay, cache, Reads
  <2> QED
    BY <1>3, <2>1, <2>2 DEF WaitToAsk
<1>4. CASE Command
  <2>0. pc = "command" /\ UNCHANGED slave /\ pc \in Reads
    BY <1>4 DEF Command, Reads
  <2>2. CASE AgainOrEnd(rd.nacks)
    BY <1>2, <2>0, <2>2
  <2>3. ASSUME NEW good, Goto("poll"), rd' = [rd EXCEPT !.sure = good], Stay, good => Takes(slave) /\ Execute(slave)
        PROVE  FetchIsRight'
    <3>1. rd'.for = rd.for /\ rd'.addr = rd.addr /\ rd'.sure = good
      BY <1>0, <2>3 DEF Cycles
    <3>2. good => pending'[slave] = rd.addr
      BY <1>0, <2>3 DEF Execute, Set
    <3>3. Fetching' => Fetching
      BY <2>0, <3>1 DEF Fetching
    <3>4. pc' = "poll" /\ esislave' = esislave /\ slave' = slave
      BY <2>0, <2>3 DEF Goto, Stay, cache
    <3>5. Fetching => esislave = slave /\ rd.addr # None
      BY DEF IInv, FetchIsRight
    <3> QED
      BY <3>1, <3>2, <3>3, <3>4, <3>5 DEF FetchIsRight
  <2>4. \/ EndRead(Nothing, Takes(slave)) \/ EndRead(Nothing, FALSE)
        \/ AgainOrEnd(rd.nacks)
        \/ Goto("poll") /\ rd' = [rd EXCEPT !.sure = Takes(slave)] /\ Stay /\ Execute(slave)
        \/ Goto("poll") /\ rd' = [rd EXCEPT !.sure = FALSE] /\ Stay
    BY <1>4, Zenon DEF Command
  <2>5. CASE Goto("poll") /\ rd' = [rd EXCEPT !.sure = Takes(slave)] /\ Stay /\ Execute(slave)
    BY <2>3, <2>5
  <2>6. CASE Goto("poll") /\ rd' = [rd EXCEPT !.sure = FALSE] /\ Stay
    BY <2>3, <2>6
  <2> QED
    BY <1>1, <2>2, <2>4, <2>5, <2>6
<1>5. CASE Poll
  <2>0. pc = "poll" /\ UNCHANGED slave /\ pc \in Reads
    BY <1>5 DEF Poll, Reads
  <2>2. CASE AgainOrEnd(rd.nacks) \/ AgainOrEnd(rd.nacks + 1)
    BY <1>2, <2>0, <2>2
  <2>3. ASSUME Goto("data"), Stay, rd'.for = rd.for, rd'.addr = rd.addr, rd'.sure => rd.sure /\ Done(slave)
        PROVE  FetchIsRight'
    <3>1. pc' = "data" /\ esislave' = esislave /\ slave' = slave
      BY <2>0, <2>3 DEF Goto, Stay, cache
    <3>2. Fetching => esislave = slave /\ rd.addr # None /\ (rd.sure => pending[slave] = rd.addr)
      BY <2>0 DEF IInv, FetchIsRight
    <3>3. Fetching' => Fetching
      BY <2>0, <2>3 DEF Fetching
    <3>4. pending[slave] = rd.addr /\ rd.addr # None /\ Done(slave) => loaded'[slave] = rd.addr
      BY <1>0 DEF Done, Set
    <3> QED
      BY <2>3, <3>1, <3>2, <3>3, <3>4 DEF FetchIsRight
  <2>4. ASSUME NEW good, Read(good), good => Done(slave)
        PROVE  FetchIsRight'
    <3>1. /\ Goto("data") /\ Stay
          /\ rd' = [rd EXCEPT !.sure = rd.sure /\ good, !.nacks = 0, !.r64 = net[slave] \in Wide]
      BY <2>4 DEF Read
    <3>2. rd'.for = rd.for /\ rd'.addr = rd.addr /\ (rd'.sure <=> rd.sure /\ good)
      BY <1>0, <3>1 DEF Cycles
    <3> QED
      BY <2>3, <2>4, <3>1, <3>2
  <2>5. CASE Goto("data") /\ Stay /\ Done(slave) /\ rd' = [rd EXCEPT !.nacks = 0, !.r64 = FALSE]
    <3>1. rd'.for = rd.for /\ rd'.addr = rd.addr /\ rd'.sure = rd.sure
      BY <1>0, <2>5 DEF Cycles
    <3> QED
      BY <2>3, <2>5, <3>1
  <2>6. CASE Goto("data") /\ Stay /\ rd' = [rd EXCEPT !.nacks = 0, !.r64 = FALSE, !.sure = FALSE]
    <3>1. rd'.for = rd.for /\ rd'.addr = rd.addr /\ rd'.sure = FALSE
      BY <1>0, <2>6 DEF Cycles
    <3> QED
      BY <2>3, <2>6, <3>1
  <2>7. \/ EndRead(Nothing, FALSE)
        \/ AgainOrEnd(rd.nacks) \/ AgainOrEnd(rd.nacks + 1)
        \/ Read(TRUE) /\ Done(slave)
        \/ Read(FALSE)
        \/ Goto("data") /\ Stay /\ Done(slave) /\ rd' = [rd EXCEPT !.nacks = 0, !.r64 = FALSE]
        \/ Goto("data") /\ Stay /\ rd' = [rd EXCEPT !.nacks = 0, !.r64 = FALSE, !.sure = FALSE]
    BY <1>5, Zenon DEF Poll
  <2> QED
    BY <1>1, <2>2, <2>4, <2>5, <2>6, <2>7
<1>6. CASE Data
  BY <1>1, <1>6 DEF Data
<1>7. CASE Miss
  <2>1. /\ pc = "walk" /\ esislave = slave /\ esislave' = esislave /\ slave' = slave /\ pc' = "wait"
        /\ rd' = [for |-> "cache", field |-> 0, addr |-> Wanted, nacks |-> 0, r64 |-> FALSE, sure |-> TRUE]
    BY <1>7 DEF Miss, Begin, Goto, cache
  <2>2. rd'.addr # None
    BY <2>1, WantedIsWord, Numbers DEF IInv
  <2> QED
    BY <2>1, <2>2 DEF FetchIsRight
<1>8. CASE Collect \/ Ask \/ NextSlave
  <2>1. ASSUME Begin("collect", 6, None) \/ Begin("collect", stage - 1, None) \/ Begin("ask", stage, FieldAt[stage])
        PROVE  FetchIsRight'
    <3>1. rd'.for # "cache"
      BY <2>1 DEF Begin
    <3> QED
      BY <3>1 DEF FetchIsRight, Fetching
  <2>2. ASSUME pc' \in {"ask", "asked", "collect", "sii"}
        PROVE  FetchIsRight'
    BY <2>2 DEF FetchIsRight, Fetching, Reads
  <2> QED
    BY <1>8, <2>1, <2>2 DEF Collect, Ask, NextSlave, Goto
<1>9. CASE ReadWidth \/ Describe \/ RequestPreop \/ MapSlave \/ NextMapped \/ Open \/ Walk \/ EndFind \/ EndJob
            \/ AskMailbox \/ EndMailbox
  <2>1. pc' \notin Reads
    BY <1>9 DEF ReadWidth, Describe, RequestPreop, MapSlave, NextMapped, Open, Walk, EndFind, EndJob, AskMailbox,
                EndMailbox, NextMailbox, Goto, Reads, Find, AfterFind
  <2> QED
    BY <2>1 DEF FetchIsRight, Fetching
<1>10. CASE ReadObject \/ ReadSingly
  <2>1. pc' \notin Reads
    BY <1>10 DEF ReadObject, ReadSingly, Reads
  <2> QED
    BY <2>1 DEF FetchIsRight, Fetching
<1>11. CASE SwitchSlave
  <2>1. pc' \notin Reads
    BY <1>11 DEF SwitchSlave, place, Reads
  <2> QED
    BY <2>1 DEF FetchIsRight, Fetching
<1>12. CASE UNCHANGED vars
  BY <1>12 DEF vars, chip, cache, list, place, IInv, FetchIsRight, Fetching
<1> QED
  BY <1>3, <1>4, <1>5, <1>6, <1>7, <1>8, <1>9, <1>10, <1>11, <1>12 DEF Next, Fetch, Configure, Walker

----------------------------------------------------------------------------
(* The walks.                                                               *)

JobKept == /\ job' \in WalkJobs /\ (job'.op \in {"count", "char"} => job'.k > 0)
           /\ job'.task = job.task /\ job'.eectl = job.eectl

(* What a step of a walk does to its job.                                   *)
LEMMA Starts ==
  ASSUME NEW tasks, tasks = InitTasks \/ tasks = MapTasks, NEW n \in 1 .. Len(tasks), NEW eectl \in BOOLEAN,
         StartJob(tasks, n, eectl)
  PROVE  /\ job' \in WalkJobs /\ job'.op = "category" /\ job'.eectl = eectl
         /\ job'.task \in (IF tasks = InitTasks THEN InitSet ELSE MapSet)
<1>1. tasks[n] \in (IF tasks = InitTasks THEN InitSet ELSE MapSet) /\ n \in Nat \ {0}
  BY DEF InitTasks, MapTasks, InitSet, MapSet
<1>2. InitTasks # MapTasks
  BY DEF InitTasks, MapTasks
<1>3. tasks[n] \in InitSet \cup MapSet
  BY <1>1
<1>4. job' = [task |-> tasks[n], n |-> n, op |-> "category", a |-> 12, k |-> 0, len |-> 0, sm |-> 0,
              pdos |-> 0, left |-> 0, eectl |-> eectl]
  BY DEF StartJob, NoJob, SiiStart
<1> QED
  BY <1>1, <1>3, <1>4 DEF WalkJobs, Ops

LEMMA Jumps ==
  ASSUME job \in WalkJobs, NEW op \in Ops \ {"count", "char"}, NEW a \in Nat, To(op, a)
  PROVE  JobKept
<1>1. a % Space \in Nat
  BY Numbers
<1> QED
  BY <1>1 DEF To, JobKept, WalkJobs

LEMMA Counts ==
  ASSUME job \in WalkJobs, Lots
  PROVE  JobKept
<1>1. CASE job.k < job.len
  <2>1. job' = [job EXCEPT !.k = job.k + 1] /\ job.k + 1 \in Nat /\ job.k + 1 > 0
    BY <1>1 DEF Lots, WalkJobs
  <2> QED
    BY <2>1 DEF JobKept, WalkJobs
<1>2. CASE ~ (job.k < job.len)
  <2>1. To("end", 0)
    BY <1>2 DEF Lots
  <2> QED
    BY <2>1, Jumps DEF Ops
<1> QED
  BY <1>1, <1>2

LEMMA Ends ==
  ASSUME job \in WalkJobs, NEW a \in Nat, NEW k \in Nat, PdoEnds(a, k)
  PROVE  JobKept
<1> DEFINE c == IF job.pdos >= MaxPDO - 1 THEN job.len ELSE k + 1
<1>1. c \in Nat
  BY DEF WalkJobs
<1>2. a % Space \in Nat
  BY Numbers
<1>3. CASE c < job.len
  <2>1. job' = [job EXCEPT !.op = "index", !.a = a % Space, !.k = c]
    BY <1>3 DEF PdoEnds
  <2> HIDE DEF c
  <2> QED
    BY <1>1, <1>2, <2>1 DEF JobKept, WalkJobs, Ops
<1>4. CASE ~ (c < job.len)
  <2>1. To("end", 0)
    BY <1>4 DEF PdoEnds
  <2> QED
    BY <2>1, Jumps DEF Ops
<1> QED
  BY <1>3, <1>4

LEMMA Least ==
  ASSUME NEW n \in Nat, NEW max \in Nat
  PROVE  AtMost(n, max) \in Nat
BY DEF AtMost

(* Every step of a walk, whatever word it is given.                           *)
LEMMA WalkSteps ==
  ASSUME job \in WalkJobs, job.op \in {"count", "char"} => job.k > 0, NEW v \in Nat,
         \/ Find(v) \/ General(v) \/ Count(v) \/ Char(v) \/ SmLength(v) \/ Sm(v) \/ FmmuLength(v) \/ Fmmu(v)
         \/ PdoLength(v) \/ Index(v) \/ Head2(v) \/ Entry(v)
  PROVE  JobKept
<1>0. /\ Lo(v) \in Nat /\ Hi(v) \in Nat /\ MaxSM \in Nat /\ MaxName \in Nat
      /\ job.a \in Nat /\ job.k \in Nat /\ job.len \in Nat /\ job.pdos \in Nat /\ job.left \in Nat
  BY Numbers, SiiAssumption DEF WalkJobs
<1>1. ASSUME NEW d \in Nat
      PROVE  (job.a + d) % Space \in Nat
  BY <1>0, Numbers
<1>2. CASE Find(v)
  <2>1. CASE job' = [job EXCEPT !.op = BodyOf[job.task], !.a = (job.a + 1) % Space, !.k = FirstK[job.task]]
    <3>1. (job.a + 1) % Space \in Nat
      BY <1>1
    <3>2. job.task \in InitSet \cup MapSet
      BY DEF WalkJobs
    <3>3. BodyOf[job.task] \in Ops /\ FirstK[job.task] \in Nat /\ FirstK[job.task] > 0
      BY <3>2 DEF BodyOf, FirstK, Ops, InitSet, MapSet
    <3> QED
      BY <2>1, <3>1, <3>3 DEF JobKept, WalkJobs
  <2>2. CASE To("end", 0) \/ To("length", job.a + 1) \/ To("category", NextSection(v))
    <3>1. job.a + 1 \in Nat /\ NextSection(v) \in Nat
      BY <1>0 DEF NextSection
    <3> QED
      BY <2>2, <3>1, Jumps DEF Ops
  <2> QED
    BY <1>2, <2>1, <2>2 DEF Find
<1>3. CASE General(v)
  <2>1. CASE job' = [job EXCEPT !.k = @ + 1]
    BY <1>0, <2>1 DEF JobKept, WalkJobs
  <2>2. CASE To("end", 0)
    BY <2>2, Jumps DEF Ops
  <2> QED
    BY <1>3, <2>1, <2>2 DEF General
<1>4. CASE Count(v)
  <2>1. CASE job' = [job EXCEPT !.op = "char", !.len = AtMost(Hi(v), MaxName)]
    <3>1. AtMost(Hi(v), MaxName) \in Nat
      BY <1>0, Least
    <3>2. job.k > 0
      BY <1>4 DEF Count
    <3> QED
      BY <1>0, <2>1, <3>1, <3>2 DEF JobKept, WalkJobs, Ops
  <2>2. CASE To("end", 0)
    BY <2>2, Jumps DEF Ops
  <2> QED
    BY <1>4, <2>1, <2>2 DEF Count
<1>5. CASE Char(v) \/ Sm(v) \/ Fmmu(v)
  BY <1>5, Counts DEF Char, Sm, Fmmu
<1>6. CASE SmLength(v)
  <2> DEFINE m == (v \div 4) % Base
             l == 4 * AtMost(IF m = 0 THEN 1 ELSE m, MaxSM)
  <2>1. m \in Nat
    <3>1. v \div 4 \in Nat /\ Base \in Nat \ {0}
      BY SiiAssumption
    <3> QED
      BY <3>1
  <2> HIDE DEF m
  <2>2. AtMost(IF m = 0 THEN 1 ELSE m, MaxSM) \in Nat
    BY <1>0, <2>1, Least
  <2>3. l \in Nat
    BY <2>2
  <2> HIDE DEF l
  <2>4. job' = [job EXCEPT !.op = "sm", !.sm = m, !.len = l]
    BY <1>6 DEF SmLength, m, l
  <2> QED
    BY <2>1, <2>3, <2>4 DEF JobKept, WalkJobs, Ops
<1>7. CASE FmmuLength(v)
  BY <1>7 DEF FmmuLength, JobKept, WalkJobs, Ops
<1>8. CASE PdoLength(v)
  <2>1. job' = [job EXCEPT !.op = "index", !.a = (job.a + 1) % Space, !.k = 1, !.len = v, !.pdos = 0]
    BY <1>8 DEF PdoLength
  <2>2. (job.a + 1) % Space \in Nat
    BY <1>1
  <2> QED
    BY <2>1, <2>2 DEF JobKept, WalkJobs, Ops
<1>9. CASE Index(v)
  <2>1. job' = [job EXCEPT !.op = "head", !.a = (job.a + 1) % Space, !.k = job.k + 1, !.pdos = job.pdos + 1]
    BY <1>9 DEF Index
  <2>2. (job.a + 1) % Space \in Nat /\ job.k + 1 \in Nat /\ job.pdos + 1 \in Nat
    BY <1>0, <1>1
  <2> QED
    BY <2>1, <2>2 DEF JobKept, WalkJobs, Ops
<1>10. CASE Head2(v)
  <2>1. CASE job' = [job EXCEPT !.op = "entry", !.a = (@ + 3) % Space, !.k = @ + 2, !.sm = Hi(v), !.left = Lo(v)]
    <3>1. (job.a + 3) % Space \in Nat /\ job.k + 2 \in Nat
      BY <1>0, <1>1
    <3> QED
      BY <1>0, <2>1, <3>1 DEF JobKept, WalkJobs, Ops
  <2>2. CASE PdoEnds(job.a + 3 + 4 * Lo(v), job.k + 2 + 4 * Lo(v))
    <3>1. job.a + 3 + 4 * Lo(v) \in Nat /\ job.k + 2 + 4 * Lo(v) \in Nat
      BY <1>0
    <3> QED
      BY <2>2, <3>1, Ends
  <2> QED
    BY <1>10, <2>1, <2>2 DEF Head2
<1>11. CASE Entry(v)
  <2>1. CASE job.left > 1
    <3>1. job' = [job EXCEPT !.a = (job.a + 4) % Space, !.k = job.k + 4, !.left = job.left - 1]
      BY <1>11, <2>1 DEF Entry
    <3>2. (job.a + 4) % Space \in Nat /\ job.k + 4 \in Nat /\ job.left - 1 \in Nat /\ job.k + 4 > 0
      BY <1>0, <1>1, <2>1
    <3> QED
      BY <3>1, <3>2 DEF JobKept, WalkJobs
  <2>2. CASE ~ (job.left > 1)
    <3>1. PdoEnds(job.a + 4, job.k + 4) /\ job.a + 4 \in Nat /\ job.k + 4 \in Nat
      BY <1>0, <1>11, <2>2 DEF Entry
    <3> QED
      BY <3>1, Ends
  <2> QED
    BY <2>1, <2>2
<1> QED
  BY <1>2, <1>3, <1>4, <1>5, <1>6, <1>7, <1>8, <1>9, <1>10, <1>11

(* The word in the cache is one of those numbers, so a walk stays one.      *)
LEMMA WalkGoesOn ==
  ASSUME JobTypes, CacheTypes, Walk
  PROVE  JobKept /\ pc' \in {"walk", "give"} /\ pc = "walk"
<1> DEFINE v == IF Wanted >= BufWords THEN Blank ELSE esibuf[Wanted]
<1>1. v \in Nat
  BY Numbers DEF Walk, CacheTypes
<1>2. job \in WalkJobs /\ (job.op \in {"count", "char"} => job.k > 0) /\ pc = "walk"
  BY DEF Walk, JobTypes, Walking
<1>3. \/ Find(v) \/ General(v) \/ Count(v) \/ Char(v) \/ SmLength(v) \/ Sm(v) \/ FmmuLength(v) \/ Fmmu(v)
      \/ PdoLength(v) \/ Index(v) \/ Head2(v) \/ Entry(v)
  BY DEF Walk
<1>4. pc' \in {"walk", "give"}
  BY DEF Walk, Find, Goto, AfterFind
<1> HIDE DEF v
<1> QED
  BY <1>1, <1>2, <1>3, <1>4, WalkSteps

----------------------------------------------------------------------------
(* Where the program is.                                                    *)

(* A step of a read goes on with it, or ends it where it was asked for.       *)
LEMMA FetchSteps ==
  ASSUME CycleTypes, Places, Fetch
  PROVE  /\ UNCHANGED <<net, owner, eep_pdi, withheld, stage, slave, job>> /\ pc \in Reads
         /\ \/ rd.for = "cache" /\ pc' = "walk"
            \/ rd.for = "collect" /\ pc' = (IF rd.field = 6 THEN "sii" ELSE "ask")
            \/ rd.for = "ask" /\ pc' = "asked"
            \/ /\ rd'.for = rd.for /\ rd'.field = rd.field /\ rd'.addr = rd.addr
               /\ \/ pc' = "command" /\ (rd.for = "cache" \/ pc \in {"wait", "command"})
                  \/ pc = "command" /\ pc' = "poll" /\ rd.for # "ask"
                  \/ pc = "poll" /\ pc' = "data"
<1> DEFINE Over == \/ rd.for = "cache" /\ pc' = "walk"
                   \/ rd.for = "collect" /\ pc' = (IF rd.field = 6 THEN "sii" ELSE "ask")
                   \/ rd.for = "ask" /\ pc' = "asked"
           Same == rd'.for = rd.for /\ rd'.field = rd.field /\ rd'.addr = rd.addr
<1>0. UNCHANGED <<net, owner, eep_pdi, withheld, stage, slave, job>> /\ pc \in Reads
  BY DEF Fetch, WaitToAsk, Command, Poll, Data, chip, Reads
<1>1. ASSUME NEW data, NEW good, EndRead(data, good)
      PROVE  Over
  BY <1>0, <1>1, ReadEnds DEF EndRead
<1>2. ASSUME NEW n, AgainOrEnd(n)
      PROVE  Over \/ (Same /\ pc' = "command")
  <2>1. CASE n \in 1 .. MaxNack - 1
    BY <1>2, <2>1 DEF AgainOrEnd, Goto, CycleTypes, Cycles
  <2>2. CASE n \notin 1 .. MaxNack - 1
    BY <1>1, <1>2, <2>2 DEF AgainOrEnd
  <2> QED
    BY <2>1, <2>2
<1>3. ASSUME NEW b, NEW c,
             \/ rd' = [rd EXCEPT !.sure = b]
             \/ rd' = [rd EXCEPT !.sure = b, !.nacks = 0, !.r64 = c]
             \/ rd' = [rd EXCEPT !.nacks = 0, !.r64 = c, !.sure = b]
             \/ rd' = [rd EXCEPT !.nacks = 0, !.r64 = c]
      PROVE  Same
  BY <1>3, ZenonT(40) DEF CycleTypes, Cycles
<1>4. CASE WaitToAsk
  <2>1. pc = "wait" /\ ((pc' = "command" /\ rd' = rd) \/ EndRead(Nothing, FALSE))
    BY <1>4 DEF WaitToAsk, Goto
  <2> QED
    BY <1>0, <1>1, <2>1
<1>5. CASE Command
  <2>1. pc = "command"
    BY <1>5 DEF Command
  <2>2. \/ EndRead(Nothing, Takes(slave)) \/ EndRead(Nothing, FALSE)
        \/ AgainOrEnd(rd.nacks)
        \/ Goto("poll") /\ rd.for # "ask" /\ rd' = [rd EXCEPT !.sure = Takes(slave)]
        \/ Goto("poll") /\ rd.for # "ask" /\ rd' = [rd EXCEPT !.sure = FALSE]
    BY <1>5, Zenon DEF Command
  <2> QED
    BY <1>0, <1>1, <1>2, <1>3, <2>1, <2>2 DEF Goto
<1>6. CASE Poll
  <2>1. pc = "poll"
    BY <1>6 DEF Poll
  <2>2. \/ EndRead(Nothing, FALSE)
        \/ rd.for = "cache" /\ (AgainOrEnd(rd.nacks) \/ AgainOrEnd(rd.nacks + 1))
        \/ Read(TRUE) \/ Read(FALSE)
        \/ Goto("data") /\ rd' = [rd EXCEPT !.nacks = 0, !.r64 = FALSE]
        \/ Goto("data") /\ rd' = [rd EXCEPT !.nacks = 0, !.r64 = FALSE, !.sure = FALSE]
    BY <1>6, Zenon DEF Poll
  <2>3. ASSUME NEW good, Read(good)
        PROVE  Same /\ pc' = "data"
    <3>1. pc' = "data" /\ rd' = [rd EXCEPT !.sure = rd.sure /\ good, !.nacks = 0, !.r64 = net[slave] \in Wide]
      BY <2>3 DEF Read, Goto
    <3> QED
      BY <1>3, <3>1
  <2>4. CASE Goto("data") /\ rd' = [rd EXCEPT !.nacks = 0, !.r64 = FALSE]
    BY <1>0, <1>3, <2>1, <2>4 DEF Goto
  <2>5. CASE Goto("data") /\ rd' = [rd EXCEPT !.nacks = 0, !.r64 = FALSE, !.sure = FALSE]
    BY <1>0, <1>3, <2>1, <2>5 DEF Goto
  <2>6. CASE EndRead(Nothing, FALSE)
    BY <1>0, <1>1, <2>6
  <2>7. CASE rd.for = "cache" /\ (AgainOrEnd(rd.nacks) \/ AgainOrEnd(rd.nacks + 1))
    BY <1>0, <1>2, <2>7
  <2>8. CASE Read(TRUE) \/ Read(FALSE)
    BY <1>0, <2>1, <2>3, <2>8
  <2> HIDE DEF Over, Same
  <2> QED
    BY <2>2, <2>4, <2>5, <2>6, <2>7, <2>8
<1>7. CASE Data
  BY <1>0, <1>1, <1>7 DEF Data
<1> QED
  BY <1>4, <1>5, <1>6, <1>7 DEF Fetch

(* The types of a walk are those of its task, through reads and sections.   *)
LEMMA JobsKept ==
  ASSUME IInv, [Next]_vars
  PROVE  JobTypes'
<1>0. JobTypes /\ ListTypes /\ CycleTypes /\ CacheTypes /\ Places
  BY DEF IInv
<1>1. ASSUME pc' \notin {"walk", "give"}, pc' \notin Reads
      PROVE  JobTypes'
  BY <1>1 DEF JobTypes, Walking, Fetching
<1>2. ASSUME job' = job, Walking' => Walking
      PROVE  JobTypes'
  BY <1>0, <1>2 DEF JobTypes
<1>3. CASE Fetch
  <2>1. job' = job
    BY <1>0, <1>3, FetchSteps
  <2>2. Walking' => Walking
    BY <1>0, <1>3, FetchSteps DEF Walking, Fetching, Reads
  <2> QED
    BY <1>2, <2>1, <2>2
<1>4. CASE Open \/ ReadWidth \/ RequestPreop \/ AskMailbox \/ EndMailbox \/ NextMapped
  <2>1. pc' \notin {"walk", "give"} /\ pc' \notin Reads
    BY <1>4 DEF Open, ReadWidth, RequestPreop, AskMailbox, EndMailbox, NextMapped, NextMailbox, Goto, Reads
  <2> QED
    BY <1>1, <2>1
<1>5. CASE ReadObject \/ ReadSingly
  <2>1. pc' \notin {"walk", "give"} /\ pc' \notin Reads
    BY <1>5 DEF ReadObject, ReadSingly, Reads
  <2> QED
    BY <1>1, <2>1
<1>6. CASE Collect \/ Ask \/ NextSlave
  <2>1. rd'.for # "cache" \/ pc' \in {"ask", "asked", "sii", "collect"}
    BY <1>6 DEF Collect, Ask, NextSlave, Begin, Goto
  <2>2. pc' \notin {"walk", "give"}
    BY <1>6 DEF Collect, Ask, NextSlave, Goto
  <2> QED
    BY <2>1, <2>2 DEF JobTypes, Walking, Fetching, Reads
<1>7. ASSUME NEW tasks, tasks = InitTasks \/ tasks = MapTasks, NEW n \in 1 .. Len(tasks), NEW eectl \in BOOLEAN,
             StartJob(tasks, n, eectl)
      PROVE  JobTypes'
  <2>1. job' \in WalkJobs /\ job'.op = "category"
    BY <1>7, Starts
  <2> QED
    BY <2>1 DEF JobTypes
<1>8. CASE Describe
  <2>1. pc' = "preop" \/ StartJob(InitTasks, 1, eep_pdi[slave])
    BY <1>8 DEF Describe, Goto
  <2>2. eep_pdi[slave] \in BOOLEAN /\ 1 \in 1 .. Len(InitTasks)
    BY <1>0 DEF ListTypes, InitTasks
  <2> QED
    BY <1>1, <1>7, <2>1, <2>2 DEF Reads
<1>9. CASE MapSlave
  <2>1. pc' = "mapped" \/ StartJob(MapTasks, 1, eep_pdi[slave])
    BY <1>9 DEF MapSlave, Goto
  <2>2. eep_pdi[slave] \in BOOLEAN /\ 1 \in 1 .. Len(MapTasks)
    BY <1>0 DEF ListTypes, MapTasks
  <2> QED
    BY <1>1, <1>7, <2>1, <2>2 DEF Reads
<1>10. CASE SwitchSlave
  <2>1. UNCHANGED <<pc, rd, job>>
    BY <1>10 DEF SwitchSlave, place
  <2> QED
    BY <1>2, <2>1 DEF Walking, Fetching
<1>11. CASE Miss \/ EndFind
  <2>1. job' = job /\ pc \in {"walk", "give"}
    BY <1>11 DEF Miss, EndFind
  <2> QED
    BY <1>2, <2>1 DEF Walking
<1>12. CASE Walk
  BY <1>0, <1>12, WalkGoesOn DEF JobTypes, JobKept
<1>13. CASE EndJob
  <2> DEFINE tasks == IF job.task \in {"txpdo", "rxpdo"} THEN MapTasks ELSE InitTasks
  <2>1. \/ job.n < Len(tasks) /\ StartJob(tasks, job.n + 1, eep_pdi'[slave])
        \/ pc' \in {"mapped", "preop"}
    BY <1>13 DEF EndJob, Goto
  <2>2. job.n \in Nat
    BY <1>0, <1>13 DEF EndJob, JobTypes, Walking, WalkJobs
  <2>3. eep_pdi'[slave] \in BOOLEAN
    <3>1. eep_pdi' \in [Slaves -> BOOLEAN] /\ slave \in Slaves
      BY <1>0, <1>13, GivenBack DEF EndJob, GiveBack, ListTypes
    <3> QED
      BY <3>1
  <2>4. tasks = InitTasks \/ tasks = MapTasks
    OBVIOUS
  <2>5. job.n < Len(tasks) => job.n + 1 \in 1 .. Len(tasks)
    BY <2>2 DEF InitTasks, MapTasks
  <2> HIDE DEF tasks
  <2> QED
    BY <1>1, <1>7, <2>1, <2>3, <2>4, <2>5 DEF Reads
<1>14. CASE UNCHANGED vars
  BY <1>2, <1>14 DEF vars, place, Walking, Fetching
<1> QED
  BY <1>3, <1>4, <1>5, <1>6, <1>8, <1>9, <1>10, <1>11, <1>12, <1>13, <1>14 DEF Next, Configure, Walker

LEMMA Disjoint == \A t : t \in MapSet => t \notin InitSet
BY DEF MapSet, InitSet

(* Which rounds a place belongs to.                                         *)
LEMMA PlacesKept ==
  ASSUME IInv, [Next]_vars
  PROVE  Places'
<1>0. /\ Places /\ ListTypes /\ CycleTypes /\ JobTypes /\ CacheTypes
      /\ stage \in Nat \ {0}
  BY DEF IInv, ListTypes
<1>1. CASE Open
  BY <1>0, <1>1, Opens DEF Places, Walking, Fetching, Reads
<1>2. CASE Fetch
  <2>1. UNCHANGED <<stage, job>> /\ pc \in Reads
    BY <1>0, <1>2, FetchSteps
  <2>2. CASE rd.for = "cache" /\ pc' = "walk"
    BY <1>0, <2>1, <2>2 DEF Places, Walking, Fetching, Reads
  <2>3. CASE rd.for = "collect" /\ pc' = (IF rd.field = 6 THEN "sii" ELSE "ask")
    BY <1>0, <2>1, <2>3 DEF Places, Walking, Fetching, Reads
  <2>4. CASE rd.for = "ask" /\ pc' = "asked"
    BY <1>0, <2>1, <2>4 DEF Places, Walking, Fetching, Reads
  <2>5. CASE /\ rd'.for = rd.for /\ rd'.field = rd.field /\ rd'.addr = rd.addr
             /\ \/ pc' = "command" /\ (rd.for = "cache" \/ pc \in {"wait", "command"})
                \/ pc = "command" /\ pc' = "poll" /\ rd.for # "ask"
                \/ pc = "poll" /\ pc' = "data"
    <3>1. rd.for = "cache" => rd.addr # None
      BY <2>1 DEF IInv, FetchIsRight, Fetching
    <3>2. pc' \in Reads
      BY <2>5 DEF Reads
    <3>3. pc' \in {"wait", "command"} => rd'.for \in {"cache", "ask"} /\ rd'.addr # None
      BY <1>0, <2>5, <3>1 DEF Places
    <3>4. pc' \in {"poll", "data"} => rd'.for \in {"cache", "collect"}
      BY <1>0, <2>5 DEF Places
    <3>5. Walking' <=> rd.for = "cache"
      BY <2>5, <3>2 DEF Walking, Fetching, Reads
    <3>6. rd.for = "cache" => Walking
      BY <2>1 DEF Walking, Fetching
    <3> QED
      BY <1>0, <2>1, <2>5, <3>2, <3>3, <3>4, <3>5, <3>6 DEF Places, Reads
  <2> QED
    BY <1>0, <1>2, <2>2, <2>3, <2>4, <2>5, FetchSteps
<1>3. CASE ReadWidth
  BY <1>0, <1>3 DEF ReadWidth, Goto, Places, Walking, Fetching, Reads
<1>4. CASE Collect
  <2>1. stage' = stage /\ stage <= 6 /\ stage - 1 # 6
    BY <1>0, <1>4 DEF Collect, Places
  <2>2. pc' = "ask" \/ (pc' = "poll" /\ rd'.for = "collect" /\ rd'.field = stage - 1)
    BY <1>4 DEF Collect, Begin, Goto
  <2> QED
    BY <2>1, <2>2 DEF Places, Walking, Fetching, Reads
<1>5. CASE Ask
  <2>1. stage' = stage /\ stage <= 6 /\ stage \in 1 .. 6
    BY <1>0, <1>5 DEF Ask, Places
  <2>2. FieldAt[stage] # None
    BY <2>1, Numbers DEF FieldAt
  <2>3. pc' = "asked" \/ (pc' = "wait" /\ rd'.for = "ask" /\ rd'.addr = FieldAt[stage])
    BY <1>5 DEF Ask, Begin, Goto
  <2> QED
    BY <2>1, <2>2, <2>3 DEF Places, Walking, Fetching, Reads
<1>6. CASE NextSlave
  <2>1. stage <= 6
    BY <1>0, <1>6 DEF NextSlave, Places
  <2>2. CASE stage < 6
    <3>1. pc' = "collect" /\ stage' <= 6
      BY <1>0, <1>6, <2>2, Advances DEF NextSlave, Goto
    <3> QED
      BY <3>1 DEF Places, Walking, Fetching, Reads
  <2>3. CASE ~ (stage < 6)
    <3>1. stage' = 6 /\ (pc' = "sii" \/ (pc' = "poll" /\ rd'.for = "collect"))
      BY <1>0, <1>6, <2>1, <2>3 DEF NextSlave, Goto, Begin
    <3> QED
      BY <3>1 DEF Places, Walking, Fetching, Reads
  <2> QED
    BY <2>2, <2>3
<1>7. CASE Describe
  <2>1. stage' = stage /\ stage = 6
    BY <1>0, <1>7 DEF Describe, Places
  <2>2. pc' = "preop" \/ (pc' = "walk" /\ StartJob(InitTasks, 1, eep_pdi[slave]))
    BY <1>7 DEF Describe, Goto
  <2>3. eep_pdi[slave] \in BOOLEAN /\ 1 \in 1 .. Len(InitTasks)
    BY <1>0 DEF ListTypes, InitTasks
  <2>4. pc' = "walk" => job'.task \in InitSet
    BY <2>2, <2>3, Starts
  <2> QED
    BY <2>1, <2>2, <2>4 DEF Places, Walking, Fetching, Reads
<1>8. CASE RequestPreop
  <2>1. stage = 6
    BY <1>0, <1>8 DEF RequestPreop, Places
  <2>2. (pc' = "collect" /\ stage' = 6) \/ (pc' = "coe" /\ stage' = 7)
    BY <1>0, <1>8, <2>1, Advances DEF RequestPreop, Goto
  <2> QED
    BY <2>2 DEF Places, Walking, Fetching, Reads
<1>9. CASE AskMailbox \/ EndMailbox \/ NextMapped
  <2>1. stage > 6
    BY <1>0, <1>9 DEF AskMailbox, EndMailbox, NextMapped, Places
  <2>2. stage' = stage \/ stage' = stage + 1
    BY <1>0, <1>9, Advances DEF AskMailbox, EndMailbox, NextMapped, NextMailbox
  <2>3. pc' \in {"objects", "coe", "map", "up"}
    BY <1>9 DEF AskMailbox, EndMailbox, NextMapped, NextMailbox, Goto
  <2> QED
    BY <1>0, <2>1, <2>2, <2>3 DEF Places, Walking, Fetching, Reads
<1>10. CASE ReadObject \/ ReadSingly
  <2>1. pc' = "objects" /\ stage' = stage /\ stage > 6
    BY <1>0, <1>10 DEF ReadObject, ReadSingly, Places
  <2> QED
    BY <1>0, <2>1 DEF Places, Walking, Fetching, Reads
<1>11. CASE MapSlave
  <2>1. stage' = stage /\ stage > 6
    BY <1>0, <1>11 DEF MapSlave, Places
  <2>2. pc' = "mapped" \/ (pc' = "walk" /\ StartJob(MapTasks, 1, eep_pdi[slave]))
    BY <1>11 DEF MapSlave, Goto
  <2>3. eep_pdi[slave] \in BOOLEAN /\ 1 \in 1 .. Len(MapTasks) /\ MapTasks # InitTasks
    BY <1>0 DEF ListTypes, MapTasks, InitTasks
  <2>4. pc' = "walk" => job'.task \in MapSet
    BY <2>2, <2>3, Starts
  <2> QED
    BY <1>0, <2>1, <2>2, <2>4 DEF Places, Walking, Fetching, Reads
<1>12. CASE SwitchSlave \/ UNCHANGED vars
  <2>1. UNCHANGED place
    BY <1>12 DEF SwitchSlave, vars
  <2> QED
    BY <1>0, <2>1 DEF place, Places, Walking, Fetching
<1>13. CASE Miss
  <2>1. /\ pc = "walk" /\ pc' = "wait" /\ rd'.for = "cache" /\ rd'.addr = Wanted
        /\ UNCHANGED <<stage, job>>
    BY <1>13 DEF Miss, Begin, Goto
  <2>2. Wanted # None
    BY <1>0, <2>1, WantedIsWord, Numbers
  <2>3. Walking
    BY <2>1 DEF Walking
  <2>4. IF stage > 6 THEN job.task \in MapSet ELSE stage = 6 /\ job.task \in InitSet
    BY <1>0, <2>3 DEF Places
  <2> QED
    BY <2>1, <2>2, <2>4 DEF Places, Reads
<1>14. CASE Walk \/ EndFind
  <2>1. pc \in {"walk", "give"} /\ pc' \in {"walk", "give"} /\ stage' = stage /\ job'.task = job.task
    BY <1>0, <1>14, WalkGoesOn DEF JobKept, Walk, EndFind, Goto
  <2>2. Walking
    BY <2>1 DEF Walking
  <2>3. IF stage > 6 THEN job.task \in MapSet ELSE stage = 6 /\ job.task \in InitSet
    BY <1>0, <2>2 DEF Places
  <2> QED
    BY <2>1, <2>3 DEF Places, Reads
<1>15. CASE EndJob
  <2> DEFINE tasks == IF job.task \in {"txpdo", "rxpdo"} THEN MapTasks ELSE InitTasks
  <2>0. pc = "walk" /\ stage' = stage /\ Walking
    BY <1>15 DEF EndJob, Walking
  <2>1. IF stage > 6 THEN job.task \in MapSet ELSE stage = 6 /\ job.task \in InitSet
    BY <1>0, <2>0 DEF Places
  <2>2. tasks = IF stage > 6 THEN MapTasks ELSE InitTasks
    BY <2>1 DEF MapSet, InitSet
  <2>3. \/ pc' = "walk" /\ job.n < Len(tasks) /\ StartJob(tasks, job.n + 1, eep_pdi'[slave])
        \/ pc' = IF tasks = MapTasks THEN "mapped" ELSE "preop"
    BY <1>15 DEF EndJob, Goto
  <2>4. job.n \in Nat
    BY <1>0, <2>0 DEF JobTypes, WalkJobs
  <2>5. eep_pdi'[slave] \in BOOLEAN
    <3>1. eep_pdi' \in [Slaves -> BOOLEAN] /\ slave \in Slaves
      BY <1>0, <1>15, GivenBack DEF EndJob, GiveBack, ListTypes
    <3> QED
      BY <3>1
  <2>6. tasks = InitTasks \/ tasks = MapTasks
    OBVIOUS
  <2>7. job.n < Len(tasks) => job.n + 1 \in 1 .. Len(tasks)
    BY <2>4 DEF InitTasks, MapTasks
  <2>8. MapTasks # InitTasks
    BY DEF MapTasks, InitTasks
  <2> HIDE DEF tasks
  <2>9. CASE pc' = "walk" /\ job.n < Len(tasks) /\ StartJob(tasks, job.n + 1, eep_pdi'[slave])
    <3>1. job'.task \in (IF tasks = InitTasks THEN InitSet ELSE MapSet)
      BY <2>5, <2>6, <2>7, <2>9, Starts
    <3> QED
      BY <1>0, <2>0, <2>1, <2>2, <2>8, <2>9, <3>1 DEF Places, Walking, Fetching, Reads
  <2>10. CASE pc' = IF tasks = MapTasks THEN "mapped" ELSE "preop"
    BY <1>0, <2>0, <2>1, <2>2, <2>8, <2>10 DEF Places, Walking, Fetching, Reads
  <2> QED
    BY <2>3, <2>9, <2>10
<1> QED
  BY <1>1, <1>2, <1>3, <1>4, <1>5, <1>6, <1>7, <1>8, <1>9, <1>10, <1>11, <1>12, <1>13, <1>14, <1>15
  DEF Next, Configure, Walker

----------------------------------------------------------------------------
(* Who has the EEPROM.                                                      *)

(* Flag and EEPROM part only by a write that got lost.                      *)
LEMMA GivenKept ==
  ASSUME IInv, [Next]_vars
  PROVE  Given'
<1>0. ListTypes /\ Given /\ slave \in Slaves /\ CycleTypes /\ Places
  BY DEF IInv, ListTypes
<1>1. CASE Open
  <2>1. \A s \in DOMAIN net' : eep_pdi'[s] = FALSE
    BY <1>1 DEF Open, Cleared
  <2> QED
    BY <1>0, <1>1, <2>1, Opens DEF Given, Slaves
<1>2. ASSUME UNCHANGED <<net, owner, eep_pdi, withheld>>
      PROVE  Given'
  BY <1>0, <1>2 DEF Given, Slaves
<1>3. ASSUME GiveControl(slave), net' = net
      PROVE  Given'
  <2>1. /\ eep_pdi' = [eep_pdi EXCEPT ![slave] = TRUE] /\ eep_pdi \in [Slaves -> BOOLEAN]
        /\ owner \in [Slaves -> {"master", "pdi"}]
    BY <1>0, <1>3, GivenBack DEF ListTypes
  <2>2. Slaves' = Slaves
    BY <1>3 DEF Slaves
  <2> SUFFICES ASSUME NEW s \in Slaves, eep_pdi'[s], s \notin withheld'
               PROVE  owner'[s] = "pdi"
    BY <2>2 DEF Given
  <2>3. CASE eep_pdi[slave] /\ UNCHANGED <<owner, withheld, events>>
    BY <1>0, <2>1, <2>3 DEF Given
  <2>4. CASE ~ eep_pdi[slave] /\ owner' = Set(owner, slave, "pdi") /\ withheld' = withheld \ {slave}
    BY <1>0, <2>1, <2>4 DEF Given, Set
  <2>5. CASE ~ eep_pdi[slave] /\ withheld' = withheld \cup {slave} /\ UNCHANGED owner
    BY <1>0, <2>1, <2>5 DEF Given
  <2> QED
    BY <1>3, <2>3, <2>4, <2>5 DEF GiveControl
<1>4. CASE Fetch
  BY <1>0, <1>2, <1>4, FetchSteps
<1>5. CASE RequestPreop \/ EndFind
  BY <1>3, <1>5 DEF RequestPreop, EndFind
<1>6. CASE EndJob
  BY <1>2, <1>3, <1>6 DEF EndJob, GiveBack
<1>7. CASE Miss
  <2>1. /\ eep_pdi' = [eep_pdi EXCEPT ![slave] = FALSE] /\ eep_pdi \in [Slaves -> BOOLEAN]
        /\ \A t \in Slaves : t # slave => owner'[t] = owner[t]
    BY <1>0, <1>7, Taken DEF Miss, ListTypes
  <2>2. net' = net /\ withheld' = withheld
    BY <1>7 DEF Miss
  <2> QED
    BY <1>0, <2>1, <2>2 DEF Given, Slaves
<1>8. CASE ReadWidth \/ Collect \/ Ask \/ NextSlave \/ Describe \/ AskMailbox \/ ReadObject \/ ReadSingly \/ EndMailbox
            \/ MapSlave \/ NextMapped \/ SwitchSlave \/ Walk \/ UNCHANGED vars
  BY <1>2, <1>8 DEF ReadWidth, Collect, Ask, NextSlave, Describe, AskMailbox, ReadObject, ReadSingly, EndMailbox,
                    MapSlave, NextMapped, SwitchSlave, Walk, vars, chip, list
<1> QED
  BY <1>1, <1>4, <1>5, <1>6, <1>7, <1>8 DEF Next, Configure, Walker

(* A flag that is up goes down in a walk and comes up at its end.           *)
LEMMA FlagsKept ==
  ASSUME IInv, [Next]_vars
  PROVE  FlagsUp'
<1>0. /\ ListTypes /\ FlagsUp /\ slave \in Slaves /\ CycleTypes /\ Places /\ JobTypes /\ CacheTypes /\ Remembered
      /\ stage \in Nat \ {0} /\ eep_pdi \in [Slaves -> BOOLEAN]
  BY DEF IInv, ListTypes
<1>1. Slaves = 1 .. Len(net) /\ Len(net) \in Nat
  BY <1>0, SiiAssumption DEF ListTypes, Slaves
<1>2. CASE Open
  BY <1>0, <1>2, Opens DEF FlagsUp, Preop
<1>3. ASSUME UNCHANGED <<net, stage, slave, eep_pdi>>, stage <= 6
      PROVE  FlagsUp'
  <2> SUFFICES ASSUME NEW s \in Slaves, Preop(s)'
               PROVE  eep_pdi'[s]
    BY <1>3 DEF FlagsUp, Slaves
  <2>1. Preop(s) /\ s # slave
    BY <1>0, <1>1, <1>3 DEF Preop
  <2> QED
    BY <1>0, <1>3, <2>1 DEF FlagsUp, Busy
<1>4. ASSUME UNCHANGED <<net, eep_pdi>>, stage > 6, pc \notin {"walk", "give"} \cup Reads
      PROVE  FlagsUp'
  <2>1. \A s \in Slaves : eep_pdi[s]
    BY <1>0, <1>4 DEF FlagsUp, Busy, Preop
  <2> QED
    BY <1>4, <2>1 DEF FlagsUp, Slaves
<1>5. ASSUME UNCHANGED <<net, stage, slave>>, pc' \in {"walk", "give"} \cup Reads,
             \A s \in Slaves : s # slave => eep_pdi'[s] = eep_pdi[s]
      PROVE  FlagsUp'
  <2> SUFFICES ASSUME NEW s \in Slaves, Preop(s)', ~ Busy(s)'
               PROVE  eep_pdi'[s]
    BY <1>5 DEF FlagsUp, Slaves
  <2>1. s # slave /\ Preop(s)
    BY <1>5 DEF Busy, Preop, Reads
  <2> QED
    BY <1>0, <1>5, <2>1 DEF FlagsUp, Busy
<1>6. CASE Fetch
  <2>1. UNCHANGED <<net, stage, slave, eep_pdi>>
    BY <1>0, <1>6, FetchSteps DEF Fetch, WaitToAsk, Command, Poll, Data
  <2>2. CASE stage <= 6
    BY <1>3, <2>1, <2>2
  <2>3. CASE ~ (stage <= 6)
    <3>1. pc \in Reads
      BY <1>0, <1>6, FetchSteps
    <3>2. rd.for = "cache"
      BY <1>0, <2>3, <3>1 DEF Places
    <3>3. pc' \in {"walk", "give"} \cup Reads
      BY <1>0, <1>6, <3>2, FetchSteps DEF Reads
    <3> QED
      BY <1>5, <2>1, <3>3
  <2> QED
    BY <2>2, <2>3
<1>7. CASE ReadWidth \/ Collect \/ Ask \/ Describe
  <2>1. UNCHANGED <<net, stage, slave, eep_pdi>>
    BY <1>7 DEF ReadWidth, Collect, Ask, Describe, chip, list
  <2>2. stage <= 6
    BY <1>0, <1>7 DEF ReadWidth, Collect, Ask, Describe, Places
  <2> QED
    BY <1>3, <2>1, <2>2
<1>8. CASE NextSlave
  <2>1. UNCHANGED <<net, eep_pdi>> /\ stage <= 6
    BY <1>0, <1>8 DEF NextSlave, chip, list, Places
  <2>2. CASE stage < 6
    <3>1. ASSUME NEW s \in Slaves
          PROVE  ~ Preop(s)'
      <4>1. s \in Nat /\ s >= 1 /\ stage' \in Nat /\ slave' \in Nat
        BY <1>0, <1>1, <1>8, <2>2, Advances DEF NextSlave
      <4>2. stage' < 6 \/ (stage' = 6 /\ slave' = 1)
        BY <1>0, <1>8, <2>2, Advances DEF NextSlave
      <4> QED
        BY <4>1, <4>2 DEF Preop
    <3> QED
      BY <2>1, <3>1 DEF FlagsUp, Slaves
  <2>3. CASE ~ (stage < 6)
    BY <1>3, <1>8, <2>1, <2>3 DEF NextSlave
  <2> QED
    BY <2>2, <2>3
<1>9. CASE RequestPreop
  <2>1. stage = 6 /\ pc = "preop" /\ net' = net
    BY <1>0, <1>9 DEF RequestPreop, Places
  <2>2. eep_pdi' = [eep_pdi EXCEPT ![slave] = TRUE]
    BY <1>0, <1>9, GivenBack DEF RequestPreop
  <2>3. ASSUME NEW s \in Slaves, Preop(s)'
        PROVE  s <= slave
    <3>1. (stage' = 6 /\ slave' = slave + 1) \/ slave = Len(net)
      BY <1>0, <1>9, <2>1, Advances DEF RequestPreop
    <3> QED
      BY <1>0, <1>1, <2>3, <3>1 DEF Preop
  <2>4. ASSUME NEW s \in Slaves, Preop(s)'
        PROVE  eep_pdi'[s]
    <3>1. CASE s = slave
      BY <1>0, <2>2, <3>1
    <3>2. CASE s # slave
      <4>1. s < slave
        BY <1>0, <1>1, <2>3, <2>4, <3>2
      <4>2. Preop(s) /\ ~ Busy(s)
        BY <2>1, <3>2, <4>1 DEF Preop, Busy
      <4> QED
        BY <1>0, <2>2, <3>2, <4>2 DEF FlagsUp
    <3> QED
      BY <3>1, <3>2
  <2> QED
    BY <2>1, <2>4 DEF FlagsUp, Slaves
<1>10. CASE AskMailbox \/ EndMailbox \/ NextMapped \/ ReadObject \/ ReadSingly \/ MapSlave
  <2>1. UNCHANGED <<net, eep_pdi>> /\ stage > 6 /\ pc \notin {"walk", "give"} \cup Reads
    BY <1>0, <1>10 DEF AskMailbox, EndMailbox, NextMapped, ReadObject, ReadSingly, MapSlave, chip, list, Places, Reads
  <2> QED
    BY <1>4, <2>1
<1>11. CASE SwitchSlave \/ UNCHANGED vars
  <2>1. UNCHANGED <<net, stage, slave, eep_pdi, pc>>
    BY <1>11 DEF SwitchSlave, vars, chip, list, place
  <2> QED
    BY <1>0, <2>1 DEF FlagsUp, Slaves, Preop, Busy
<1>12. CASE Miss
  <2>1. eep_pdi' = [eep_pdi EXCEPT ![slave] = FALSE]
    BY <1>0, <1>12, Taken DEF Miss
  <2>2. UNCHANGED <<net, stage, slave>> /\ pc' = "wait"
    BY <1>12 DEF Miss, Goto
  <2> QED
    BY <1>0, <1>5, <2>1, <2>2 DEF Reads
<1>13. CASE Walk
  <2>1. UNCHANGED <<net, stage, slave, eep_pdi>>
    BY <1>13 DEF Walk, chip
  <2> QED
    BY <1>0, <1>5, <1>13, <2>1, WalkGoesOn
<1>14. CASE EndFind
  <2>1. eep_pdi' = [eep_pdi EXCEPT ![slave] = TRUE]
    BY <1>0, <1>14, GivenBack DEF EndFind
  <2>2. UNCHANGED <<net, stage, slave>> /\ pc' = "walk"
    BY <1>14 DEF EndFind, Goto
  <2> QED
    BY <1>0, <1>5, <2>1, <2>2
<1>15. CASE EndJob
  <2>1. UNCHANGED <<net, stage, slave>> /\ pc = "walk" /\ Walking
    BY <1>15 DEF EndJob, Walking
  <2>2. CASE job.eectl
    <3>1. eep_pdi' = [eep_pdi EXCEPT ![slave] = TRUE]
      BY <1>0, <1>15, <2>2, GivenBack DEF EndJob, GiveBack
    <3>2. ASSUME NEW s \in Slaves, Preop(s)
          PROVE  eep_pdi'[s]
      BY <1>0, <3>1, <3>2 DEF FlagsUp, Busy
    <3> QED
      BY <2>1, <3>2 DEF FlagsUp, Slaves, Preop
  <2>3. CASE ~ job.eectl
    <3>1. stage <= 6
      BY <1>0, <2>1, <2>3 DEF Remembered
    <3>2. UNCHANGED eep_pdi
      BY <1>15, <2>3 DEF EndJob, GiveBack
    <3> QED
      BY <1>3, <2>1, <3>1, <3>2
  <2> QED
    BY <2>2, <2>3
<1> QED
  BY <1>2, <1>6, <1>7, <1>8, <1>9, <1>10, <1>11, <1>12, <1>13, <1>14, <1>15 DEF Next, Configure, Walker

(* The walk through the PDOs finds the flag up when it begins.              *)
LEMMA RememberedKept ==
  ASSUME IInv, [Next]_vars
  PROVE  Remembered'
<1>0. /\ ListTypes /\ FlagsUp /\ slave \in Slaves /\ CycleTypes /\ Places /\ JobTypes /\ CacheTypes /\ Remembered
      /\ stage \in Nat \ {0} /\ eep_pdi \in [Slaves -> BOOLEAN]
  BY DEF IInv, ListTypes
<1>1. ASSUME stage' = stage, job'.eectl = job.eectl, Walking' => Walking
      PROVE  Remembered'
  BY <1>0, <1>1 DEF Remembered
<1>2. ASSUME stage' <= 6, stage' \in Nat
      PROVE  Remembered'
  BY <1>2 DEF Remembered
<1>3. ASSUME pc' \notin {"walk", "give"} \cup Reads
      PROVE  Remembered'
  BY <1>3 DEF Remembered, Walking, Fetching
<1>4. CASE Open
  BY <1>0, <1>2, <1>4, Opens
<1>5. CASE Fetch
  <2>1. UNCHANGED <<stage, job>>
    BY <1>0, <1>5, FetchSteps
  <2>2. Walking' => Walking
    BY <1>0, <1>5, FetchSteps DEF Walking, Fetching, Reads
  <2> QED
    BY <1>1, <2>1, <2>2
<1>6. CASE ReadWidth \/ Collect \/ Ask \/ Describe
  <2>1. stage' = stage /\ stage <= 6
    BY <1>0, <1>6 DEF ReadWidth, Collect, Ask, Describe, Places
  <2> QED
    BY <1>0, <1>2, <2>1
<1>7. CASE NextSlave
  <2>1. stage <= 6
    BY <1>0, <1>7 DEF NextSlave, Places
  <2>2. stage' <= 6 /\ stage' \in Nat
    BY <1>0, <1>7, <2>1, Advances DEF NextSlave
  <2> QED
    BY <1>2, <2>2
<1>8. CASE RequestPreop \/ AskMailbox \/ EndMailbox \/ NextMapped \/ ReadObject \/ ReadSingly
  <2>1. pc' \notin {"walk", "give"} \cup Reads
    BY <1>8 DEF RequestPreop, AskMailbox, EndMailbox, NextMapped, NextMailbox, ReadObject, ReadSingly, Goto, Reads
  <2> QED
    BY <1>3, <2>1
<1>9. CASE MapSlave
  <2>1. stage > 6 /\ pc \notin {"walk", "give"} \cup Reads
    BY <1>0, <1>9 DEF MapSlave, Places, Reads
  <2>2. eep_pdi[slave] /\ eep_pdi[slave] \in BOOLEAN
    BY <1>0, <2>1 DEF FlagsUp, Preop, Busy
  <2>3. pc' = "mapped" \/ StartJob(MapTasks, 1, eep_pdi[slave])
    BY <1>9 DEF MapSlave, Goto
  <2>4. CASE StartJob(MapTasks, 1, eep_pdi[slave])
    <3>1. job'.eectl = eep_pdi[slave]
      <4>1. 1 \in 1 .. Len(MapTasks)
        BY DEF MapTasks
      <4> QED
        BY <2>2, <2>4, <4>1, Starts
    <3> QED
      BY <2>2, <3>1 DEF Remembered
  <2> QED
    BY <1>3, <2>3, <2>4 DEF Reads
<1>10. CASE SwitchSlave \/ UNCHANGED vars
  <2>1. UNCHANGED place
    BY <1>10 DEF SwitchSlave, vars
  <2> QED
    BY <1>1, <2>1 DEF place, Walking, Fetching
<1>11. CASE Miss \/ EndFind
  <2>1. UNCHANGED <<job, stage>> /\ Walking
    BY <1>11 DEF Miss, EndFind, Walking
  <2> QED
    BY <1>1, <2>1
<1>12. CASE Walk
  <2>1. stage' = stage /\ job'.eectl = job.eectl /\ Walking
    BY <1>0, <1>12, WalkGoesOn DEF Walk, JobKept, Walking
  <2> QED
    BY <1>1, <2>1
<1>13. CASE EndJob
  <2> DEFINE tasks == IF job.task \in {"txpdo", "rxpdo"} THEN MapTasks ELSE InitTasks
  <2>0. pc = "walk" /\ stage' = stage /\ Walking
    BY <1>13 DEF EndJob, Walking
  <2>1. CASE stage <= 6
    BY <1>0, <1>2, <2>0, <2>1
  <2>2. CASE ~ (stage <= 6)
    <3>1. job.eectl
      BY <1>0, <2>0, <2>2 DEF Remembered
    <3>2. eep_pdi'[slave] = TRUE
      <4>1. eep_pdi' = [eep_pdi EXCEPT ![slave] = TRUE]
        BY <1>0, <1>13, <3>1, GivenBack DEF EndJob, GiveBack
      <4> QED
        BY <1>0, <4>1
    <3>3. \/ job.n < Len(tasks) /\ StartJob(tasks, job.n + 1, TRUE)
          \/ pc' \in {"mapped", "preop"}
      BY <1>13, <3>2 DEF EndJob, Goto
    <3>4. job.n \in Nat
      BY <1>0, <2>0 DEF JobTypes, WalkJobs
    <3>5. tasks = InitTasks \/ tasks = MapTasks
      OBVIOUS
    <3>6. job.n < Len(tasks) => job.n + 1 \in 1 .. Len(tasks)
      BY <3>4 DEF InitTasks, MapTasks
    <3> HIDE DEF tasks
    <3>7. CASE job.n < Len(tasks) /\ StartJob(tasks, job.n + 1, TRUE)
      <4>1. job'.eectl = TRUE
        BY <3>5, <3>6, <3>7, Starts
      <4> QED
        BY <4>1 DEF Remembered
    <3> QED
      BY <1>3, <3>3, <3>7 DEF Reads
  <2> QED
    BY <2>1, <2>2
<1> QED
  BY <1>4, <1>5, <1>6, <1>7, <1>8, <1>9, <1>10, <1>11, <1>12, <1>13 DEF Next, Configure, Walker

----------------------------------------------------------------------------
(* The theorems.                                                            *)

LEMMA Starting == Init => IInv
<1> SUFFICES ASSUME Init
             PROVE  IInv
  OBVIOUS
<1>1. net \in Networks /\ net \in Seq(Images) /\ net # <<>>
  BY SiiAssumption DEF Init
<1>2. Len(net) \in Nat \ {0} /\ Slaves = 1 .. Len(net)
  BY <1>1 DEF Slaves
<1>3. ListTypes
  BY <1>1, <1>2 DEF Init, ListTypes
<1>4. ChipTypes
  BY <1>2 DEF Init, ChipTypes
<1>5. esimap = {}
  BY DEF Init, esimap
<1>6. CacheTypes /\ CacheIsTrue
  BY <1>2, <1>5 DEF Init, CacheTypes, CacheIsTrue
<1>7. CycleTypes
  BY NewRead DEF Init, CycleTypes
<1>8. JobTypes /\ Places /\ FetchIsRight /\ Remembered
  BY DEF Init, JobTypes, Places, FetchIsRight, Remembered, Walking, Fetching, Reads
<1>9. Given /\ FlagsUp
  BY <1>2 DEF Init, Given, FlagsUp, Preop
<1> QED
  BY <1>3, <1>4, <1>6, <1>7, <1>8, <1>9 DEF IInv

(* All parts together.                                                      *)
LEMMA Invariant == Spec => []IInv
<1>1. IInv /\ [Next]_vars => IInv'
  <2> SUFFICES ASSUME IInv, [Next]_vars
               PROVE  IInv'
    OBVIOUS
  <2>1. ListTypes'
    BY ListTypesKept DEF IInv
  <2> QED
    BY <2>1, ChipTypesKept, CacheKept, CycleTypesKept, JobsKept, PlacesKept, FetchKept, GivenKept, FlagsKept,
       RememberedKept DEF IInv
<1> QED
  BY Starting, <1>1, PTL DEF Spec

(* Types: no read leaves the buffer, and what is doubtful is in the cache.   *)
THEOREM TypeCorrect == Spec => []TypeOK
<1>1. IInv => TypeOK
  BY DEF IInv, ListTypes, CacheTypes, ChipTypes, TypeOK
<1> QED
  BY <1>1, Invariant, PTL

(* ecx_siigetbyte() answers with the EEPROM of the slave it was asked for,    *)
(* whichever slaves and networks the cache was used for before.               *)
THEOREM CacheShowsItsSlave == Spec => []CacheIsTrue
<1>1. IInv => CacheIsTrue
  BY DEF IInv
<1> QED
  BY <1>1, Invariant, PTL

(* After ecx_config_init() has asked a slave for PRE_OP, its EEPROM is its own *)
(* again whenever no section is being read.                                   *)
THEOREM EepromIsGivenBack == Spec => []EepromIsReturned
<1>1. IInv => EepromIsReturned
  <2> SUFFICES ASSUME IInv, NEW s \in Slaves, Preop(s),
                      ~ (s = slave /\ pc \in {"walk", "wait", "command", "poll", "data", "give"})
               PROVE  eep_pdi[s] /\ (s \notin withheld => owner[s] = "pdi")
    BY DEF EepromIsReturned
  <2>1. ~ Busy(s)
    BY DEF Busy, Reads
  <2>2. eep_pdi[s]
    BY <2>1 DEF IInv, FlagsUp
  <2> QED
    BY <2>2 DEF IInv, Given
<1> QED
  BY <1>1, Invariant, PTL
=============================================================================
