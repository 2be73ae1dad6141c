-------------------------- MODULE SlaveInformation --------------------------
(***************************************************************************)
(* What the master finds out about its slaves from their EEPROMs (the slave *)
(* information, SII): the part of ecx_config_init() that reads the identity *)
(* of all slaves side by side, copies the data of an equal slave or walks   *)
(* the sections, the cache behind ecx_siigetbyte(), the read cycle over the *)
(* slave's registers, and who controls the EEPROM; and what                 *)
(* ecx_config_find_mappings() makes of it: the sizes of the process data    *)
(* come from the mailbox (PdoMapping), from an equal slave, or from the PDO *)
(* sections, read with the EEPROM in the hands of the slave.                *)
(*                                                                         *)
(* The cache is kept in words: a fill is aligned to words and both bytes of *)
(* a word are there or not.  A loop that repeats one datagram until it is   *)
(* answered is a step; it is answered in the end, or given up.  What makes  *)
(* a read doubtful is kept with the word; nothing is claimed of it, nor of  *)
(* what was concluded from it.                                             *)
(***************************************************************************)
EXTENDS PdoMapping, FiniteSets

CONSTANTS
  Images,    \* the EEPROMs there are, each a record (see Words)
  Networks,  \* the networks the program may find: sequences of images
  Wide,      \* the images whose chip answers with 8 bytes
  Base,      \* values of a byte (256)
  BufWords,  \* EC_MAXEEPBUF, in words
  MaxPDO,    \* EC_MAXEEPDO
  MaxName,   \* EC_MAXNAME
  MaxNack,   \* NACKs until a read is given up (3)
  MaxEvents  \* bound: times the network is opened, datagrams and SDO reads
             \* given up, NACKs and waits that time out, together

Blank == Base * Base - 1       \* 0xffff
Space == (Base * Base) \div 2  \* a byte address has 16 bits
Word(lo, hi) == lo + Base * hi
Lo(w) == w % Base
Hi(w) == w \div Base

\* The fields read before the sections and where they are; then the sections
\* begin.  ECT_SII_MANUF ... ECT_SII_MBXPROTO, ECT_SII_START, moved together.
FieldAt == <<0, 2, 4, 6, 8, 10>>
Fields == DOMAIN FieldAt
SiiStart == 12
Category == [general |-> 30, string |-> 10, sm |-> 41, fmmu |-> 40, txpdo |-> 50, rxpdo |-> 51]
InitTasks == <<"general", "string", "sm", "fmmu">>
MapTasks == <<"txpdo", "rxpdo">>

----------------------------------------------------------------------------
(* External: what an EEPROM holds, as the code reads it.  A PDO is [sm, bits],*)
(* bits being the lengths of its entries.                                   *)
Concat(ss) == LET f[i \in 0 .. Len(ss)] == IF i = 0 THEN <<>> ELSE f[i - 1] \o ss[i] IN f[Len(ss)]
PdoWords(p) ==
  <<1, Word(Len(p.bits), p.sm), 0, 0>>
    \o Concat([k \in 1 .. Len(p.bits) |-> <<1, 0, Word(0, p.bits[k]), 0>>])
StringWords(name) ==
  IF name = <<>> THEN <<>>
  ELSE <<Word(1, Len(name))>>
         \o [k \in 1 .. (Len(name) + 1) \div 2 |->
               Word(name[2 * k - 1], IF 2 * k <= Len(name) THEN name[2 * k] ELSE 0)]
Section(cat, data) == IF data = <<>> THEN <<>> ELSE <<Category[cat], Len(data)>> \o data
SiiWords(img) ==
  Concat(img.fields) \o Section("string", StringWords(img.name)) \o Section("general", img.general)
    \o Section("fmmu", img.fmmu) \o Section("sm", Concat(img.sm))
    \o Section("txpdo", Concat([k \in DOMAIN img.txpdo |-> PdoWords(img.txpdo[k])]))
    \o Section("rxpdo", Concat([k \in DOMAIN img.rxpdo |-> PdoWords(img.rxpdo[k])]))
Eeprom == [img \in Images |->
  LET w == SiiWords(img) IN [a \in 0 .. BufWords + 3 |-> IF a < Len(w) THEN w[a + 1] ELSE Blank]]

\* What a slave's description should be.
Bits(pdos) ==
  [m \in Managers |->
     Sum([i \in DOMAIN pdos |-> IF pdos[i].sm = m THEN Sum(pdos[i].bits) ELSE 0])]
NoDesc == [general |-> <<>>, string |-> <<>>, sm |-> <<>>, fmmu |-> <<>>, txpdo |-> NoBits, rxpdo |-> NoBits]

\* An image is well formed when every section has data or is not there, and a
\* network, which has slaves when it is configured, is when equal identities
\* mean equal EEPROMs.
Identity(img) == <<img.fields[1], img.fields[2], img.fields[3]>>
ASSUME SiiAssumption ==
  /\ \A net \in Networks : net \in Seq(Images) /\ net # <<>>
  /\ \A net \in Networks : \A i, j \in DOMAIN net : Identity(net[i]) = Identity(net[j]) => net[i] = net[j]
  /\ \A img \in Images : SiiWords(img) \in Seq(0 .. Blank) /\ Len(SiiWords(img)) < BufWords
  /\ Base \in Nat \ {0, 1} /\ BufWords \in Nat /\ BufWords > SiiStart
  /\ MaxSM \in Nat /\ MaxName \in Nat /\ MaxNack \in Nat \ {0}

----------------------------------------------------------------------------
VARIABLES
  net,       \* external: the slaves' EEPROMs
  owner,     \* external: who may use the EEPROM, "master" or "pdi"
  loaded,    \* external: the address whose words the chip's data register has
  pending,   \* external: the address of the read the chip is busy with
  eep_pdi,   \* slavelist[].eep_pdi
  eep_8byte, \* slavelist[].eep_8byte
  field,     \* slavelist[]: what was read as the six fields, as pairs of words
  desc,      \* slavelist[]: what was found in the sections
  esislave,  \* the slave the cache is of
  esibuf,    \* the cache: the words that esimap has, as esibuf has them
  estat,     \* estat & EC_ESTAT_R64, the local of ecx_config_init
  pc, stage, slave,  \* where ecx_config_init, or the mapping, is
  job,       \* the section walk: its task and where it is; or the map of the objects
  rd,        \* the read of one address
  events,
  doubt,     \* history: words of the cache that come from a read that failed
  withheld,  \* history: slaves whose EEPROM was given back by a write that got lost
  untold,    \* history: slaves whose mailbox told no sizes because a read failed
  sure       \* history: slaves described by nothing doubtful

chip == <<net, owner, loaded, pending>>
cache == <<esislave, esibuf, doubt>>
esimap == DOMAIN esibuf
list == <<eep_pdi, eep_8byte, field, desc, sure, untold, withheld>>
place == <<pc, stage, slave, job, rd>>
vars == <<chip, cache, list, place, estat, events>>

None == -1
Slaves == 1 .. Len(net)
NoJob == [task |-> "none", n |-> 0, op |-> "end", a |-> 0, k |-> 0, len |-> 0, sm |-> 0,
          pdos |-> 0, left |-> 0, eectl |-> FALSE]
NoRead == [for |-> "none", field |-> 0, addr |-> 0, nacks |-> 0, r64 |-> FALSE, sure |-> TRUE]
Event == events < MaxEvents /\ events' = events + 1
Goto(p) == pc' = p
Set(f, s, v) == [f EXCEPT ![s] = v]

\* The lists and the cache map are zero at the start of the program, and are
\* cleared by ecx_init_context() whenever it opens the network.
Cleared ==
  /\ eep_pdi' = [s \in DOMAIN net' |-> FALSE]
  /\ eep_8byte' = [s \in DOMAIN net' |-> FALSE]
  /\ field' = [s \in DOMAIN net' |-> [k \in Fields |-> <<0, 0>>]]
  /\ desc' = [s \in DOMAIN net' |-> NoDesc]
  /\ sure' = [s \in DOMAIN net' |-> TRUE] /\ withheld' = {} /\ untold' = {}

Init ==
  /\ net \in Networks
  /\ owner = [s \in Slaves |-> "pdi"] /\ loaded = [s \in Slaves |-> None] /\ pending = loaded
  /\ eep_pdi = [s \in Slaves |-> FALSE] /\ eep_8byte = eep_pdi
  /\ field = [s \in Slaves |-> [k \in Fields |-> <<0, 0>>]]
  /\ desc = [s \in Slaves |-> NoDesc] /\ sure = [s \in Slaves |-> TRUE]
  /\ withheld = {} /\ untold = {}
  /\ esislave = 0 /\ esibuf = <<>> /\ doubt = {}
  /\ estat \in BOOLEAN  \* not initialised
  /\ pc = "closed" /\ stage = 1 /\ slave = 1 /\ job = NoJob /\ rd = NoRead
  /\ events = 0

\* ecx_init_context() asks for a byte of slave 0 behind the end of the buffer
\* and so empties the cache.
EmptyCache ==
  /\ esislave' = 0
  /\ IF esislave = 0 THEN UNCHANGED <<esibuf, doubt>> ELSE esibuf' = <<>> /\ doubt' = {}

\* The network is initialised, for the first time or again; it may have been
\* rebuilt.  The EEPROMs are taken from the slaves by two broadcasts,
\* which may be lost.
Open ==
  /\ pc \in {"closed", "up"}
  /\ Event
  /\ net' \in Networks
  /\ loaded' = [s \in DOMAIN net' |-> None] /\ pending' = loaded'
  /\ \E who \in {"master", "pdi"} : owner' = [s \in DOMAIN net' |-> who]
  /\ Cleared /\ EmptyCache
  /\ stage' = 1 /\ slave' = 1 /\ Goto("collect")
  /\ UNCHANGED <<estat, job, rd>>

----------------------------------------------------------------------------
(* The read of one address: ecx_readeepromFP(), and its two halves in        *)
(* ecx_readeeprom1() and ecx_readeeprom2().                                  *)

Begin(use, k, addr) == rd' = [for |-> use, field |-> k, addr |-> addr, nacks |-> 0, r64 |-> FALSE, sure |-> TRUE]

\* The words of the answer, and whether they are beyond doubt.
Width(r64) == IF r64 THEN 4 ELSE 2
Answered(s, r64) ==
  [i \in 0 .. 3 |-> IF i < Width(r64) /\ loaded[s] # None /\ loaded[s] + i \in DOMAIN Eeprom[net[s]]
                    THEN Eeprom[net[s]][loaded[s] + i] ELSE 0]
Nothing == [i \in 0 .. 3 |-> 0]

\* ecx_siigetbyte() puts four or eight bytes in the cache, whatever was read.
FillWidth(s) == Width(eep_8byte[s])

Fill(data, good) ==
  LET new == rd.addr .. rd.addr + FillWidth(slave) - 1 IN
  /\ esibuf' = [w \in esimap \cup new |-> IF w \in new THEN data[w - rd.addr] ELSE esibuf[w]]
  /\ doubt' = IF good THEN doubt \ new ELSE doubt \cup new
  /\ Goto("walk")
  /\ UNCHANGED <<esislave, field, sure>>
Collected(data, good) ==
  /\ field' = [field EXCEPT ![slave][rd.field] = <<data[0], data[1]>>]
  /\ sure' = Set(sure, slave, sure[slave] /\ good)
  /\ Goto(IF rd.field = 6 THEN "sii" ELSE "ask")
  /\ UNCHANGED cache
Asked(good) ==
  /\ sure' = Set(sure, slave, sure[slave] /\ good)
  /\ Goto("asked")
  /\ UNCHANGED <<cache, field>>
EndRead(data, good) ==
  /\ \/ rd.for = "cache" /\ Fill(data, good)
     \/ rd.for = "collect" /\ Collected(data, good)
     \/ rd.for = "ask" /\ Asked(good)
  /\ rd' = NoRead
Stay == UNCHANGED <<cache, field, sure>>

\* The chip is done with what it was asked for, or refuses it.
Done(s) ==
  /\ loaded' = IF pending[s] = None THEN loaded ELSE Set(loaded, s, pending[s])
  /\ pending' = Set(pending, s, None)
Refuses(s) == /\ pending[s] # None
              /\ pending' = Set(pending, s, None)
              /\ UNCHANGED loaded

\* ecx_eeprom_waitnotbusyFP() before the command.  When the timer runs out
\* after a poll that was lost, the status is 0: not busy.
WaitToAsk ==
  /\ pc = "wait"
  /\ \/ Done(slave) /\ Goto("command") /\ Stay /\ UNCHANGED <<rd, events>>
     \/ Event /\ Goto("command") /\ Stay /\ UNCHANGED <<rd, loaded, pending>>
     \/ Event /\ EndRead(Nothing, FALSE) /\ UNCHANGED <<loaded, pending>>
  /\ UNCHANGED <<net, owner, eep_pdi, eep_8byte, withheld, untold, desc, estat, stage, slave, job>>

\* A chip that is busy, or not the master's, does not take a command.
Takes(s) == owner[s] = "master" /\ pending[s] = None
Execute(s) == pending' = IF Takes(s) THEN Set(pending, s, rd.addr) ELSE pending

\* do ... while ((nackcnt > 0) && (nackcnt < 3))
AgainOrEnd(nacks) ==
  IF nacks \in 1 .. MaxNack - 1
  THEN Goto("command") /\ rd' = [rd EXCEPT !.nacks = nacks] /\ Stay
  ELSE EndRead(Nothing, FALSE)

\* After the command the one who asks is done; the reader waits and reads.
\* Every attempt may be lost (wkc = -1 is true in "if (wkc)"), before or after
\* the slave has seen it, or pass by a slave that does not answer (wkc = 0).
Command ==
  /\ pc = "command"
  /\ LET next(good) == IF rd.for = "ask" THEN EndRead(Nothing, good)
                       ELSE Goto("poll") /\ rd' = [rd EXCEPT !.sure = good] /\ Stay
     IN \/ Execute(slave) /\ next(Takes(slave)) /\ UNCHANGED events
        \/ Event /\ Execute(slave) /\ next(FALSE)
        \/ Event /\ UNCHANGED pending /\ next(FALSE)
        \/ /\ Event /\ UNCHANGED pending
           /\ IF rd.for = "ask" THEN EndRead(Nothing, FALSE) ELSE AgainOrEnd(rd.nacks)
  /\ UNCHANGED <<net, owner, loaded, eep_pdi, eep_8byte, withheld, untold, desc, estat, stage, slave, job>>

\* ecx_eeprom_waitnotbusyFP() after the command.  Only the whole cycle looks
\* at a NACK; ecx_readeeprom2() reads what the register has.
Read(good) == Goto("data") /\ rd' = [rd EXCEPT !.sure = @ /\ good, !.nacks = 0, !.r64 = net[slave] \in Wide] /\ Stay
Poll ==
  /\ pc = "poll"
  /\ \/ Done(slave) /\ Read(TRUE) /\ UNCHANGED events
     \/ /\ Event /\ Refuses(slave)
        /\ IF rd.for = "cache" THEN AgainOrEnd(rd.nacks + 1) ELSE Read(FALSE)
     \/ /\ Event /\ Goto("data") /\ Stay
        /\ \/ Done(slave) /\ rd' = [rd EXCEPT !.nacks = 0, !.r64 = FALSE]
           \/ UNCHANGED <<loaded, pending>> /\ rd' = [rd EXCEPT !.nacks = 0, !.r64 = FALSE, !.sure = FALSE]
     \/ /\ Event /\ UNCHANGED <<loaded, pending>>
        /\ IF rd.for = "cache" THEN AgainOrEnd(rd.nacks) ELSE EndRead(Nothing, FALSE)
  /\ UNCHANGED <<net, owner, eep_pdi, eep_8byte, withheld, untold, desc, estat, stage, slave, job>>

\* The upper half of an answer that is kept with eight bytes and came with
\* four is zero.
Data ==
  /\ pc = "data"
  /\ \/ /\ EndRead(Answered(slave, rd.r64), rd.sure /\ (rd.for = "cache" /\ eep_8byte[slave] => rd.r64))
        /\ UNCHANGED events
     \/ Event /\ EndRead(Nothing, FALSE)
  /\ UNCHANGED <<chip, eep_pdi, eep_8byte, withheld, untold, desc, estat, stage, slave, job>>

----------------------------------------------------------------------------
(* Who controls the EEPROM.  The flag follows the intention, not the slave.  *)

\* ecx_eeprom2master(): in the hands of the master already, taken, or not.
TakeControl(s) ==
  /\ eep_pdi' = Set(eep_pdi, s, FALSE)
  /\ \/ ~ eep_pdi[s] /\ UNCHANGED <<owner, events>>
     \/ eep_pdi[s] /\ owner' = Set(owner, s, "master") /\ UNCHANGED events
     \/ eep_pdi[s] /\ Event /\ UNCHANGED owner

\* ecx_eeprom2pdi()
GiveControl(s) ==
  /\ eep_pdi' = Set(eep_pdi, s, TRUE)
  /\ \/ eep_pdi[s] /\ UNCHANGED <<owner, withheld, events>>
     \/ ~ eep_pdi[s] /\ owner' = Set(owner, s, "pdi") /\ withheld' = withheld \ {s} /\ UNCHANGED events
     \/ ~ eep_pdi[s] /\ Event /\ withheld' = withheld \cup {s} /\ UNCHANGED owner

----------------------------------------------------------------------------
(* ecx_config_init(): all slaves are asked for a field before the first      *)
(* answer is collected.                                                      *)

\* The mailbox addresses and protocols are read if there is a mailbox.
Due(s, k) == k <= 4 \/ field[s][4][2] > 0
Advance ==
  /\ slave' = IF slave < Len(net) THEN slave + 1 ELSE 1
  /\ stage' = IF slave < Len(net) THEN stage ELSE stage + 1

\* In the first round the width of the answers is read; when that is lost,
\* estat still has the status of the slave before.
ReadWidth ==
  /\ pc = "collect" /\ stage = 1
  /\ \/ estat' = (net[slave] \in Wide) /\ UNCHANGED events
     \/ Event /\ UNCHANGED estat
  /\ eep_8byte' = Set(eep_8byte, slave, estat')
  /\ Goto("ask")
  /\ UNCHANGED <<chip, cache, eep_pdi, withheld, untold, field, desc, sure, stage, slave, job, rd>>

Collect ==
  /\ pc = "collect" /\ stage > 1
  /\ IF Due(slave, stage - 1) THEN Begin("collect", stage - 1, None) /\ Goto("poll") ELSE Goto("ask") /\ UNCHANGED rd
  /\ UNCHANGED <<chip, cache, list, estat, events, stage, slave, job>>

Ask ==
  /\ pc = "ask"
  /\ IF Due(slave, stage) THEN Begin("ask", stage, FieldAt[stage]) /\ Goto("wait") ELSE Goto("asked") /\ UNCHANGED rd
  /\ UNCHANGED <<chip, cache, list, estat, events, stage, slave, job>>

NextSlave ==
  /\ pc = "asked"
  /\ IF stage < 6
     THEN Advance /\ Goto("collect") /\ UNCHANGED rd
     ELSE /\ UNCHANGED <<stage, slave>>
          /\ IF Due(slave, 6) THEN Begin("collect", 6, None) /\ Goto("poll") ELSE Goto("sii") /\ UNCHANGED rd
  /\ UNCHANGED <<chip, cache, list, estat, events, job>>

\* Variant of SameKind: the revision is not compared.
SameKindAnyRevision(i, s) == \A k \in 1 .. 2 : field[i][k] = field[s][k]

\* ecx_lookup_prev_sii(): the first slave before this one with its identity.
SameKind(i, s) == \A k \in 1 .. 3 : field[i][k] = field[s][k]

Previous(s) == {i \in 1 .. s - 1 : SameKind(i, s)}
FirstOf(set) == CHOOSE i \in set : \A j \in set : i <= j

StartJob(tasks, n, eectl) ==
  job' = [NoJob EXCEPT !.task = tasks[n], !.n = n, !.op = "category", !.a = SiiStart, !.eectl = eectl]

Describe ==
  /\ pc = "sii"
  /\ \/ /\ Previous(slave) # {}
        /\ LET i == FirstOf(Previous(slave)) IN
             /\ desc' = Set(desc, slave, [desc[i] EXCEPT !.txpdo = NoBits, !.rxpdo = NoBits])
             /\ sure' = Set(sure, slave, sure[slave] /\ sure[i])
        /\ Goto("preop") /\ UNCHANGED job
     \/ /\ Previous(slave) = {}
        /\ StartJob(InitTasks, 1, eep_pdi[slave]) /\ Goto("walk")
        /\ UNCHANGED <<desc, sure>>
  /\ UNCHANGED <<chip, cache, eep_pdi, eep_8byte, withheld, untold, field, estat, events, stage, slave, rd>>

\* The EEPROM is given to the slave; then PRE_OP is asked for.
RequestPreop ==
  /\ pc = "preop"
  /\ GiveControl(slave)
  /\ Advance /\ Goto(IF slave < Len(net) THEN "collect" ELSE "coe")
  /\ UNCHANGED <<net, loaded, pending, cache, eep_8byte, untold, field, desc, sure, estat, job, rd>>

----------------------------------------------------------------------------
(* ecx_config_find_mappings(): the mailboxes of all slaves first, then what  *)
(* they did not tell.  Slaves with SoE only are not modelled.               *)

Bit(v, b) == (v \div b) % 2 = 1
HasCoE(s) == Due(s, 6) /\ Bit(field[s][6][1], 4)
HasCA(s) == desc[s].general # <<>> /\ Bit(Hi(desc[s].general[1]), 32)
NextMailbox == Advance /\ Goto(IF slave < Len(net) THEN "coe" ELSE "map")

AskMailbox ==
  /\ pc = "coe"
  /\ \/ HasCoE(slave) /\ job' = StartMap(HasCA(slave)) /\ Goto("objects") /\ UNCHANGED <<stage, slave>>
     \/ ~ HasCoE(slave) /\ NextMailbox /\ UNCHANGED job
  /\ UNCHANGED <<chip, cache, list, estat, events, rd>>

\* An SDO read is answered, refused, or given up.
ReadObject ==
  /\ pc = "objects" /\ job.op # "end"
  /\ LET objects == net[slave].objects IN
       \/ (job.ca => objects.ca) /\ job' = After(job, Value(objects, job)) /\ UNCHANGED events
       \/ (job.ca /\ ~ objects.ca) /\ job' = AfterFailure(job) /\ UNCHANGED events
       \/ IsRead(job) /\ Event /\ job' = AfterFailure(job)
  /\ UNCHANGED <<chip, cache, list, estat, pc, stage, slave, rd>>

\* "CA not available or not succeeded": the objects are read one by one.
ReadSingly ==
  /\ pc = "objects" /\ job.op = "end" /\ job.ca /\ ~ Found(job)
  /\ job' = StartMap(FALSE)
  /\ UNCHANGED <<chip, cache, list, estat, events, pc, stage, slave, rd>>

EndMailbox ==
  /\ pc = "objects" /\ job.op = "end" /\ (job.ca => Found(job))
  /\ desc' = [desc EXCEPT ![slave].txpdo = job.txpdo, ![slave].rxpdo = job.rxpdo]
  /\ sure' = Set(sure, slave, sure[slave] /\ (Found(job) => job.good))
  /\ untold' = IF Found(job) \/ job.good THEN untold ELSE untold \cup {slave}
  /\ NextMailbox /\ job' = NoJob
  /\ UNCHANGED <<chip, cache, eep_pdi, eep_8byte, withheld, field, estat, events, rd>>

\* ecx_map_sii(): the mailbox, an equal slave or the PDO sections.
HasSizes(d) == d.txpdo # NoBits \/ d.rxpdo # NoBits
MapSlave ==
  /\ pc = "map"
  /\ LET twins == Previous(slave)
         like == IF twins = {} THEN NoDesc ELSE desc[FirstOf(twins)]
     IN \/ /\ HasSizes(desc[slave])
           /\ Goto("mapped") /\ UNCHANGED <<desc, sure, job>>
        \/ /\ ~ HasSizes(desc[slave]) /\ HasSizes(like)
           /\ desc' = [desc EXCEPT ![slave].txpdo = like.txpdo, ![slave].rxpdo = like.rxpdo]
           /\ sure' = Set(sure, slave, sure[slave] /\ sure[FirstOf(twins)])
           /\ Goto("mapped") /\ UNCHANGED job
        \/ /\ ~ HasSizes(desc[slave]) /\ ~ HasSizes(like)
           /\ StartJob(MapTasks, 1, eep_pdi[slave]) /\ Goto("walk")
           /\ sure' = Set(sure, slave, sure[slave] /\ slave \notin untold)
           /\ UNCHANGED desc
  /\ UNCHANGED <<chip, cache, eep_pdi, eep_8byte, withheld, untold, field, estat, events, stage, slave, rd>>

NextMapped ==
  /\ pc = "mapped"
  /\ Advance /\ Goto(IF slave < Len(net) THEN "map" ELSE "up")
  /\ UNCHANGED <<chip, cache, list, estat, events, job, rd>>

----------------------------------------------------------------------------
(* ecx_siigetbyte() and those who walk the sections with it.                 *)

\* Variant of Switched: the map is not cleared.
SwitchedOnly == esislave' = slave /\ UNCHANGED <<esibuf, doubt>>

\* Another slave's cache is emptied, at an address behind the buffer too.
Switched == esislave' = slave /\ esibuf' = <<>> /\ doubt' = {}
SwitchSlave ==
  /\ pc = "walk" /\ job.op # "end" /\ esislave # slave
  /\ Switched
  /\ UNCHANGED <<chip, list, place, estat, events>>

\* The address of the word a walk needs next.
Wanted == CASE job.op = "count" -> job.a + 1
            [] job.op = "char" -> job.a + 2 + (job.k - 1) \div 2
            [] job.op \in {"general", "sm", "fmmu"} -> job.a + job.k
            [] job.op = "entry" -> (job.a + 2) % Space
            [] OTHER -> job.a

\* A byte that is not in the cache is fetched from the slave.
Miss ==
  /\ pc = "walk" /\ job.op # "end" /\ esislave = slave
  /\ Wanted < BufWords /\ Wanted \notin esimap
  /\ TakeControl(slave)
  /\ Begin("cache", 0, Wanted) /\ Goto("wait")
  /\ UNCHANGED <<net, loaded, pending, cache, eep_8byte, withheld, untold, field, desc, sure, estat, stage, slave, job>>

To(op, a) == job' = [job EXCEPT !.op = op, !.a = a % Space]

\* ecx_siifind(): by the lengths from category to category, until it is found
\* or there is none; the result is where the section's length is.  Control is
\* given back when it was the slave's.
AfterFind == IF job.eectl THEN "give" ELSE "walk"
BodyOf == [general |-> "general", string |-> "count", sm |-> "smlen", fmmu |-> "fmmulen",
           txpdo |-> "pdolen", rxpdo |-> "pdolen"]
FirstK == [general |-> 3, string |-> 1, sm |-> 1, fmmu |-> 1, txpdo |-> 1, rxpdo |-> 1]

\* Variant of NextSection: the length counts the header.
NextSectionWithHeader(len) == job.a - 1 + len

NextSection(len) == job.a + 1 + len

Find(v) ==
  /\ job.op \in {"category", "length"} /\ UNCHANGED desc
  /\ \/ /\ job.op = "category" /\ v = Category[job.task]
        /\ job' = [job EXCEPT !.op = BodyOf[job.task], !.a = (job.a + 1) % Space, !.k = FirstK[job.task]]
        /\ Goto(AfterFind)
     \/ job.op = "category" /\ v = Blank /\ v # Category[job.task] /\ To("end", 0) /\ Goto(AfterFind)
     \/ job.op = "category" /\ v \notin {Category[job.task], Blank} /\ To("length", job.a + 1) /\ Goto("walk")
     \/ job.op = "length" /\ To("category", NextSection(v)) /\ Goto("walk")

\* What the walkers keep of the words of a section.  k counts the words of the
\* section that are wanted, len is how many.
Keep(v) == desc' = [desc EXCEPT ![slave][job.task] = Append(@, v)]
Lots == IF job.k < job.len THEN job' = [job EXCEPT !.k = @ + 1] ELSE To("end", 0)
AtMost(n, max) == IF n <= max THEN n ELSE max

General(v) == job.op = "general" /\ Keep(v) /\ (IF job.k < 7 THEN job' = [job EXCEPT !.k = @ + 1] ELSE To("end", 0))

\* ecx_siistring() for string 1.
Count(v) ==
  /\ job.op = "count" /\ UNCHANGED desc
  /\ IF Lo(v) >= 1 /\ Hi(v) >= 1
     THEN job' = [job EXCEPT !.op = "char", !.len = AtMost(Hi(v), MaxName)] ELSE To("end", 0)
Char(v) == job.op = "char" /\ Keep(IF job.k % 2 = 1 THEN Lo(v) ELSE Hi(v)) /\ Lots

\* ecx_siiSM() reads the first manager even if there is none, ecx_siiSMnext()
\* the others.
SmLength(v) ==
  /\ job.op = "smlen" /\ UNCHANGED desc
  /\ job' = [job EXCEPT !.op = "sm", !.sm = (v \div 4) % Base,
                        !.len = 4 * AtMost(IF (v \div 4) % Base = 0 THEN 1 ELSE (v \div 4) % Base, MaxSM)]
Sm(v) == job.op = "sm" /\ (IF job.sm > 0 THEN Keep(v) ELSE UNCHANGED desc) /\ Lots

\* ecx_siiFMMU(): two bytes, or four.
FmmuLength(v) ==
  /\ job.op = "fmmulen" /\ UNCHANGED desc
  /\ job' = [job EXCEPT !.op = "fmmu", !.len = IF v > 1 THEN 2 ELSE 1]
Fmmu(v) == job.op = "fmmu" /\ Keep(v) /\ Lots

\* ecx_siiPDO(): k is its c, pdos its nPDO.
PdoLength(v) ==
  /\ job.op = "pdolen" /\ UNCHANGED desc
  /\ job' = [job EXCEPT !.op = "index", !.a = (@ + 1) % Space, !.k = 1, !.len = v, !.pdos = 0]
Index(v) ==
  /\ job.op = "index" /\ UNCHANGED desc
  /\ job' = [job EXCEPT !.op = "head", !.a = (@ + 1) % Space, !.k = @ + 1, !.pdos = @ + 1]
PdoEnds(a, k) ==
  LET c == IF job.pdos >= MaxPDO - 1 THEN job.len ELSE k + 1 IN
  IF c < job.len THEN job' = [job EXCEPT !.op = "index", !.a = a % Space, !.k = c] ELSE To("end", 0)
Head2(v) ==
  /\ job.op = "head" /\ UNCHANGED desc
  /\ IF Hi(v) < MaxSM /\ Lo(v) > 0
     THEN job' = [job EXCEPT !.op = "entry", !.a = (@ + 3) % Space, !.k = @ + 2, !.sm = Hi(v), !.left = Lo(v)]
     ELSE PdoEnds(job.a + 3 + 4 * Lo(v), job.k + 2 + 4 * Lo(v))
Entry(v) ==
  /\ job.op = "entry"
  /\ desc' = [desc EXCEPT ![slave][job.task][job.sm] = @ + Hi(v)]
  /\ IF job.left > 1
     THEN job' = [job EXCEPT !.a = (@ + 4) % Space, !.k = @ + 4, !.left = @ - 1]
     ELSE PdoEnds(job.a + 4, job.k + 4)

\* Step of a walk: a word that is in the cache, or 0xffff behind its end.
Walk ==
  /\ pc = "walk" /\ job.op # "end" /\ esislave = slave
  /\ Wanted >= BufWords \/ Wanted \in esimap
  /\ LET v == IF Wanted >= BufWords THEN Blank ELSE esibuf[Wanted] IN
       \/ Find(v)
       \/ /\ \/ General(v) \/ Count(v) \/ Char(v) \/ SmLength(v) \/ Sm(v) \/ FmmuLength(v) \/ Fmmu(v)
             \/ PdoLength(v) \/ Index(v) \/ Head2(v) \/ Entry(v)
          /\ Goto("walk")
  /\ sure' = Set(sure, slave, sure[slave] /\ Wanted \notin doubt)
  /\ UNCHANGED <<chip, cache, eep_pdi, eep_8byte, withheld, untold, field, estat, events, stage, slave, rd>>

\* Variant of GiveBack: it is forgotten.
KeepControl(s) == UNCHANGED <<owner, eep_pdi, withheld, events>>

\* A function that found the slave in control of the EEPROM gives it back.
GiveBack(s) == IF job.eectl THEN GiveControl(s) ELSE UNCHANGED <<owner, eep_pdi, withheld, events>>

EndFind ==
  /\ pc = "give" /\ GiveControl(slave) /\ Goto("walk")
  /\ UNCHANGED <<net, loaded, pending, cache, eep_8byte, untold, field, desc, sure, estat, stage, slave, job, rd>>

EndJob ==
  /\ pc = "walk" /\ job.op = "end"
  /\ GiveBack(slave)
  /\ LET tasks == IF job.task \in {"txpdo", "rxpdo"} THEN MapTasks ELSE InitTasks IN
       IF job.n < Len(tasks)
       THEN StartJob(tasks, job.n + 1, eep_pdi'[slave]) /\ Goto("walk")
       ELSE Goto(IF tasks = MapTasks THEN "mapped" ELSE "preop") /\ job' = NoJob
  /\ UNCHANGED <<net, loaded, pending, cache, eep_8byte, untold, field, desc, sure, estat, stage, slave, rd>>

----------------------------------------------------------------------------
Fetch == WaitToAsk \/ Command \/ Poll \/ Data
Configure == ReadWidth \/ Collect \/ Ask \/ NextSlave \/ Describe \/ RequestPreop
             \/ AskMailbox \/ ReadObject \/ ReadSingly \/ EndMailbox \/ MapSlave \/ NextMapped
Walker == SwitchSlave \/ Miss \/ Walk \/ EndFind \/ EndJob

Next == Open \/ Fetch \/ Configure \/ Walker

Spec == Init /\ [][Next]_vars

\* The configuration runs in one thread, to its end.
FairSpec == Spec /\ WF_vars(Fetch \/ Configure \/ Walker)

TypeOK ==
  /\ net \in Networks
  /\ DOMAIN field = Slaves
  /\ esimap \subseteq 0 .. BufWords + 3 /\ doubt \subseteq esimap
  /\ loaded \in [Slaves -> {None} \cup (0 .. BufWords - 1)]

\* What the cache holds is what the EEPROM of its slave holds: whichever slaves
\* it was used for, in whatever order, whatever was lost and asked for again,
\* and in a network that was rebuilt and opened anew.
CacheIsTrue ==
  \A w \in esimap \ doubt : esislave # 0 /\ esibuf[w] = Eeprom[net[esislave]][w]

\* A slave is described as its EEPROM has it, or as that of the slave it is
\* taken to be equal to, and its process data have the sizes that are assigned
\* in its objects or, without any, listed in its EEPROM: whichever reads
\* failed, as long as they were made good by another way to ask.
SizesOf(img, role, pdos) ==
  IF \A r \in {Inputs, Outputs} : TrueBits(img.objects, r) = NoBits THEN Bits(pdos) ELSE TrueBits(img.objects, role)
Truth(img) ==
  [general |-> SubSeq(img.general, 3, 7), string |-> img.name, sm |-> Concat(img.sm),
   fmmu |-> IF Len(img.fmmu) > 1 THEN SubSeq(img.fmmu, 1, 2) ELSE img.fmmu,
   txpdo |-> SizesOf(img, Inputs, img.txpdo), rxpdo |-> SizesOf(img, Outputs, img.rxpdo)]
DescriptionIsTrue ==
  pc = "up" => \A s \in Slaves : sure[s] =>
    /\ \A k \in Fields : Due(s, k) => field[s][k] = net[s].fields[k]
    /\ desc[s] = Truth(net[s])

\* Outside the functions that read it the EEPROM of a slave that was asked to
\* go to PRE_OP is the slave's, and the slave has it unless the last write that
\* gave it back was lost.
Preop(s) == stage > 6 \/ (stage = 6 /\ s < slave)
EepromIsReturned ==
  \A s \in Slaves : Preop(s) /\ ~ (s = slave /\ pc \in {"walk", "wait", "command", "poll", "data", "give"}) =>
    eep_pdi[s] /\ (s \notin withheld => owner[s] = "pdi")

\* The configuration ends, whatever is lost or refused.
ConfigurationEnds == [](pc \in {"collect"} => <>(pc = "up"))
=============================================================================
