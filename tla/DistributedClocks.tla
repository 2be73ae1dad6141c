-------------------------- MODULE DistributedClocks --------------------------
(***************************************************************************)
(* The shape of the bus and the delays on it: how ecx_config_init()        *)
(* (ethercatconfig.c) finds the parent of each slave from the number of    *)
(* links each has, and how ecx_configdc() (ethercatdc.c) computes the time *)
(* a frame takes to each slave with a clock, from the times at which one   *)
(* broadcast came by its ports.                                            *)
(*                                                                         *)
(* A frame enters a slave at port 0, leaves it at 3, 1 and 2 in this order *)
(* (where there is a link) and goes back at 0; slaves are numbered in the  *)
(* order in which it meets them.  A link takes a frame as long in either   *)
(* direction, passing a slave takes no time.  The datagrams that read the  *)
(* registers are answered.  The list of the slaves with a clock (DCnext,   *)
(* DCprevious) is left out.                                                *)
(***************************************************************************)
EXTENDS Integers, Sequences, FiniteSets, FiniteSetsExt

CONSTANTS
  N,        \* number of slaves
  Delays,   \* of the links, one in front of each slave
  Clocks,   \* local times at which the broadcast meets the first slave
  Half      \* 2^31: the times of the ports are int32

ClocksAssumption ==
  /\ N \in Nat \ {0}
  /\ Delays \subseteq [1 .. N -> Nat] /\ Clocks \subseteq [1 .. N -> Int]
  /\ Half \in Nat \ {0}

ASSUME ClocksAssumption

VARIABLES
  up, port, delay, clock,          \* the bus: tree, port of each slave's link, ...
  hasdc,                           \* ec_slave[].hasdc
  at, slave,                       \* where the program is
  activeports, parent,             \* found by config_init
  consumedports, DCrt, entryport,  \* found by configdc
  parentport, pdelay,
  parenthold                       \* local of configdc

bus == <<up, port, delay, clock, hasdc>>
found == <<activeports, parent>>
busVars == <<bus, at, slave, found, consumedports, DCrt, entryport, parentport, pdelay, parenthold>>

Slaves == 1 .. N
Ports == 0 .. 3
Order == <<0, 3, 1, 2>>  \* of a frame through a slave

Place(p) == CHOOSE k \in DOMAIN Order : Order[k] = p

BusTypeOK ==
  /\ at \in {"init", "dc", "done"} /\ slave \in 1 .. N + 1
  /\ activeports \in [Slaves -> SUBSET Ports] /\ parent \in [Slaves -> 0 .. N - 1]
  /\ consumedports \in [Slaves -> SUBSET Ports] /\ DCrt \in [Slaves -> [Ports -> - Half .. Half - 1]]
  /\ entryport \in [Slaves -> Ports] /\ parentport \in [Slaves -> Ports]
  /\ pdelay \in [Slaves -> Int] /\ parenthold \in 0 .. N

----------------------------------------------------------------------------
(* The bus.                                                                 *)

Above[s \in 0 .. N] == IF s = 0 THEN {} ELSE {s} \cup Above[up[s]]

\* Slaves are numbered in the order of the frame.
Numbered ==
  /\ up[1] = 0 /\ \A s \in 2 .. N : up[s] \in 1 .. s - 1
  /\ \A s \in 2 .. N : up[s] \in Above[s - 1]
  /\ \A s, t \in 2 .. N : s < t /\ up[s] = up[t] => Place(port[s]) < Place(port[t])

Children(s) == {c \in Slaves : up[c] = s}

Total(w) == LET sum[n \in 0 .. N] == IF n = 0 THEN 0 ELSE sum[n - 1] + w[n] IN sum[N]

\* The links a frame passes twice between meeting s and coming back at port p,
Behind(s, p) ==
  {t \in Slaves : t # s /\ s \in Above[t]
                   /\ \E c \in Above[t] : up[c] = s /\ Place(port[c]) <= Place(p)}
Stay(s, p) == Total([t \in Slaves |-> IF t \in Behind(s, p) THEN 2 * delay[t] ELSE 0])

\* and those it passes, once or twice, from the first slave to s.
Arrival(s) ==
  Total([t \in Slaves |-> IF t \notin 2 .. s THEN 0 ELSE IF t \in Above[s] THEN delay[t] ELSE 2 * delay[t]])

\* int32
Signed(n) == ((n + Half) % (2 * Half)) - Half

\* The registers DCTIME0 .. 3 after the broadcast.
Latched(s) == [p \in Ports |-> Signed(clock[s] + Arrival(s) + (IF p = 0 THEN 0 ELSE Stay(s, p)))]

BusInit ==
  /\ delay \in Delays /\ clock \in Clocks /\ hasdc \in [Slaves -> BOOLEAN]
  /\ up \in [Slaves -> 0 .. N - 1] /\ port \in [Slaves -> 1 .. 3] /\ port[1] = 1
  /\ Numbered
  /\ at = "init" /\ slave = 1
  /\ activeports = [s \in Slaves |-> {}] /\ parent = [s \in Slaves |-> 0]
  /\ consumedports = [s \in Slaves |-> {}] /\ DCrt = [s \in Slaves |-> [p \in Ports |-> 0]]
  /\ entryport = [s \in Slaves |-> 0] /\ parentport = [s \in Slaves |-> 0]
  /\ pdelay = [s \in Slaves |-> 0] /\ parenthold = 0

----------------------------------------------------------------------------
(* The topology.                                                            *)

Topology(s) == Cardinality(activeports[s])

\* Variant of Balance: a cross is taken for a split.
BalanceOfSplit(s) ==
  LET topoc[n \in 0 .. s - 1] ==
        IF n = 0 THEN 0 ELSE topoc[n - 1] + (IF Topology(s - n) > 2 THEN 1 ELSE Topology(s - n) - 2)
  IN  topoc

\* topoc when the search from s has gone back over n slaves: an end counts
\* against it, and each branch of a slave beyond the first for it.
Balance(s) ==
  LET topoc[n \in 0 .. s - 1] == IF n = 0 THEN 0 ELSE topoc[n - 1] + Topology(s - n) - 2 IN topoc

\* The first slave, going back, that has a link left for s.
ParentOf(s) ==
  LET topoc == Balance(s)
  IN  IF s = 1 THEN 0 ELSE Max({1} \cup {k \in 1 .. s - 1 : topoc[s - k] >= 0 /\ Topology(k) > 1})

FindParent ==
  /\ at = "init" /\ slave <= N
  /\ activeports' = [activeports EXCEPT ![slave] = {0} \cup {port[c] : c \in Children(slave)}]
  /\ parent' = [parent EXCEPT ![slave] = ParentOf(slave)]
  /\ slave' = slave + 1
  /\ UNCHANGED <<bus, at, consumedports, DCrt, entryport, parentport, pdelay, parenthold>>

AllFound ==
  /\ at = "init" /\ slave = N + 1
  /\ at' = "dc" /\ slave' = 1
  /\ UNCHANGED <<bus, found, consumedports, DCrt, entryport, parentport, pdelay, parenthold>>

----------------------------------------------------------------------------
(* The delays.                                                              *)

FirstOf(seq, ports, otherwise) ==
  LET open == {k \in DOMAIN seq : seq[k] \in ports}
  IN  IF open = {} THEN otherwise ELSE seq[Min(open)]

\* The active port a frame was at before port p.
PrevPort(s, p) ==
  FirstOf(CASE p = 0 -> <<2, 1, 3>> [] p = 1 -> <<3, 0, 2>> [] p = 2 -> <<1, 3, 0>> [] p = 3 -> <<0, 2, 1>>,
          activeports[s], p)

\* The port of slave s that the next of its branches with a clock is at.
ParentPort(s) == FirstOf(<<3, 1, 2>>, consumedports[s], 0)

\* The port with the lowest time, the first of them in the order of the frame.
EntryPort(s, rt) ==
  CHOOSE p \in activeports[s] : \A q \in activeports[s] :
    rt[p] < rt[q] \/ (rt[p] = rt[q] /\ Place(p) <= Place(q))

\* The next slave with a clock on the way to the master, 0 if there is none,
\* and the slave before it.
DCParent[s \in 0 .. N] == IF s = 0 \/ hasdc[s] THEN s ELSE DCParent[parent[s]]
Child[s \in Slaves] == IF parent[s] = 0 \/ hasdc[parent[s]] THEN s ELSE Child[parent[s]]

Abs(n) == IF n < 0 THEN - n ELSE n
Halved(n) == IF n < 0 THEN - ((- n) \div 2) ELSE n \div 2

\* Variant of Delay: what the branches before this one took is not added.
DelayOfLink(dp, pport, rt, entry) ==
  LET dt3 == Signed(DCrt[dp][pport] - DCrt[dp][PrevPort(dp, pport)])
      below == IF Topology(slave) > 1 THEN Signed(rt[PrevPort(slave, entry)] - rt[entry]) ELSE 0
      dt1 == IF below > dt3 THEN - below ELSE below
  IN  Halved(dt3 - dt1) + pdelay[dp]

\* From the times of this slave and of its parent dp with a clock, which has it
\* at pport.
Delay(dp, pport, rt, entry) ==
  LET dt3 == Signed(DCrt[dp][pport] - DCrt[dp][PrevPort(dp, pport)])
      below == IF Topology(slave) > 1 THEN Signed(rt[PrevPort(slave, entry)] - rt[entry]) ELSE 0
      dt1 == IF below > dt3 THEN - below ELSE below
      dt2 == IF Child[slave] - dp > 1
               THEN Abs(Signed(DCrt[dp][PrevPort(dp, pport)] - DCrt[dp][entryport[dp]]))
               ELSE 0
  IN  Halved(dt3 - dt1) + dt2 + pdelay[dp]

WithClock ==
  LET rt == Latched(slave)
      entry == EntryPort(slave, rt)
      dp == DCParent[parent[slave]]
      pport == IF Topology(dp) = 1 THEN entryport[dp] ELSE ParentPort(dp)
  IN  /\ at = "dc" /\ slave <= N /\ hasdc[slave]
      /\ DCrt' = [DCrt EXCEPT ![slave] = rt]
      /\ entryport' = [entryport EXCEPT ![slave] = entry]
      /\ IF dp = 0
           THEN /\ consumedports' = [consumedports EXCEPT ![slave] = activeports[slave] \ {entry}]
                /\ UNCHANGED <<parentport, pdelay>>
           ELSE /\ consumedports' = [consumedports EXCEPT ![slave] = activeports[slave] \ {entry},
                                                          ![dp] = @ \ {ParentPort(dp)}]
                /\ parentport' = [parentport EXCEPT ![slave] = pport]
                /\ pdelay' = [pdelay EXCEPT ![slave] = Delay(dp, pport, rt, entry)]
      /\ parenthold' = 0
      /\ slave' = slave + 1
      /\ UNCHANGED <<bus, at, found>>

\* Variant of WithoutClock: a branch without clocks keeps its port.
WithoutClockKept ==
  /\ at = "dc" /\ slave <= N /\ ~ hasdc[slave]
  /\ consumedports' = [consumedports EXCEPT ![slave] = activeports[slave]]
  /\ slave' = slave + 1
  /\ UNCHANGED <<bus, at, found, DCrt, entryport, parentport, pdelay, parenthold>>

\* At the end of a branch that has no clock its port is consumed.
WithoutClock ==
  LET p == parent[slave]
      hold == IF p > 0 /\ Topology(p) > 2 THEN p ELSE parenthold
      reset == [consumedports EXCEPT ![slave] = activeports[slave]]
  IN  /\ at = "dc" /\ slave <= N /\ ~ hasdc[slave]
      /\ IF hold > 0 /\ Topology(slave) = 1
           THEN /\ consumedports' = [reset EXCEPT ![hold] = @ \ {FirstOf(<<3, 1, 2>>, @, 0)}]
                /\ parenthold' = 0
           ELSE /\ consumedports' = reset
                /\ parenthold' = hold
      /\ slave' = slave + 1
      /\ UNCHANGED <<bus, at, found, DCrt, entryport, parentport, pdelay>>

Configured ==
  /\ at = "dc" /\ slave = N + 1
  /\ at' = "done"
  /\ UNCHANGED <<bus, slave, found, consumedports, DCrt, entryport, parentport, pdelay, parenthold>>

BusNext == FindParent \/ AllFound \/ WithClock \/ WithoutClock \/ Configured
BusSpec == BusInit /\ [][BusNext]_busVars

----------------------------------------------------------------------------
\* Counting links back from a slave gives its parent, on every bus
\* (ethercatconfig.c:440).
ParentIsUp == at # "init" => parent = up

\* The next clock above s, and the first slave from there to s.
Nearest(s) == Max({a \in Above[s] \ {s} : hasdc[a]} \cup {0})
Branch(s) == CHOOSE c \in Above[s] : up[c] = Nearest(s)

\* What is in between passes frames on to one slave.
Plain == \A s \in Slaves : ~ hasdc[s] => Cardinality(Children(s)) <= 1

\* No clock passes the end of its range while the broadcast is under way, which
\* takes less than half of it.
Unwrapped == \A s \in Slaves : Stay(s, 2) < Half /\ Signed(clock[s] + Arrival(s)) + Stay(s, 2) < Half

Sound == at = "done" /\ Plain /\ Unwrapped
Clocked == {s \in Slaves : hasdc[s] /\ Nearest(s) > 0}

\* Every clock is put at the port of the clock above it that it really is at,
\* although branches without clocks have used ports of that one too
\* (ethercatdc.c:420-426).
PortIsTrue == Sound => \A s \in Clocked : parentport[s] = port[Branch(s)]

\* From times that each slave took on a clock of its own, the computed delay is
\* how much later the broadcast met a slave than it met the clock above it.
DelayIsTrue ==
  Sound => \A s \in Clocked :
    pdelay[s] - pdelay[Nearest(s)] = Arrival(s) - Arrival(Nearest(s))
=============================================================================
