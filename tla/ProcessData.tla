----------------------------- MODULE ProcessData -----------------------------
(***************************************************************************)
(* The process data of a group of slaves: where                            *)
(* ecx_main_config_map_group() (ethercatconfig.c) puts their outputs and   *)
(* inputs and how it cuts them into segments; how                          *)
(* ecx_main_send_processdata() (ethercatmain.c) makes datagrams of the     *)
(* segments; what ecx_receive_processdata_group() makes of those that come *)
(* back.                                                                   *)
(*                                                                         *)
(* A place is counted in bits: 8 * LogAddr + BitPos.  What the data are is *)
(* left out (EthercatLoop has them), and so is the second datagram of the  *)
(* first frame, which reads the DC time: the work counter is the same.     *)
(***************************************************************************)
EXTENDS Integers, Sequences, FiniteSets

CONSTANTS
  N,            \* number of slaves
  Kinds,        \* of slaves: bits of the outputs and the inputs, and the bytes
                \* of the sync managers for them, adjacent ones as one
  MaxSegment,   \* EC_MAXLRWDATA - EC_FIRSTDCDATAGRAM
  MaxSegments,  \* EC_MAXIOSEGMENTS
  MaxStack      \* EC_MAXBUF, the size of the index stack

\* The sum of the first numbers of a sequence.
Sums(seq) ==
  LET sum[k \in 0 .. Len(seq)] == IF k = 0 THEN 0 ELSE sum[k - 1] + seq[k] IN sum
UpTo(seq, k) == Sums(seq)[k]
Total(seq) == UpTo(seq, Len(seq))

BytesOf(bits) == (bits + 7) \div 8

\* The sync managers of a slave have room for its bits: the lengths of the ones
\* and the number of the others come from the same PDOs (ethercatconfig.c:700-727).
DataAssumption ==
  /\ N \in Nat \ {0}
  /\ Kinds \subseteq [obits : Nat, oruns : Seq(Nat), ibits : Nat, iruns : Seq(Nat)]
  /\ \A kind \in Kinds : Total(kind.oruns) >= BytesOf(kind.obits) /\ Total(kind.iruns) >= BytesOf(kind.ibits)
  /\ MaxSegment \in Nat \ {0} /\ MaxSegments \in Nat \ {0} /\ MaxStack \in Nat \ {0}

ASSUME DataAssumption

VARIABLES
  slaves, blockLRW,           \* what is on the bus
  at, next,                   \* where the program is; the slave to map
  pos,                        \* next free bit
  ofmmu, ifmmu,               \* the FMMUs of each slave
  closed, segmentsize,        \* IOsegment[] before currentsegment, and at it
  Obytes, Isegment, Ioffset,  \* fields of the group
  stack, pulled,              \* the index stack
  wkc, valid,                 \* locals of the receive
  stale                       \* history: a slave did not take part in this exchange

layout == <<pos, ofmmu, ifmmu, closed, segmentsize, Obytes, Isegment, Ioffset>>
exchange == <<stack, pulled, wkc, valid, stale>>
vars == <<slaves, blockLRW, at, next, layout, exchange>>

Slaves == 1 .. N
Fmmus == [from : Nat, to : Nat]
Datagrams == [cmd : {"LRW", "LRD", "LWR"}, from : Nat, to : Nat]

TypeOK ==
  /\ slaves \in [Slaves -> Kinds] /\ blockLRW \in BOOLEAN
  /\ at \in {"outputs", "inputs", "mapped", "sent"} /\ next \in 1 .. N + 1
  /\ pos \in Nat
  /\ ofmmu \in [Slaves -> SUBSET Fmmus] /\ ifmmu \in [Slaves -> SUBSET Fmmus]
  /\ closed \in Seq(Nat) /\ Len(closed) < MaxSegments /\ segmentsize \in Nat
  /\ Obytes \in Nat /\ Isegment \in 0 .. Len(closed) /\ Ioffset \in Nat
  /\ stack \in Seq(Datagrams) /\ Len(stack) <= MaxStack /\ pulled \in 0 .. Len(stack)
  /\ wkc \in Nat /\ valid \in BOOLEAN /\ stale \in BOOLEAN

Init ==
  /\ slaves \in [Slaves -> Kinds] /\ blockLRW \in BOOLEAN
  /\ at = "outputs" /\ next = 1
  /\ pos = 0
  /\ ofmmu = [s \in Slaves |-> {}] /\ ifmmu = [s \in Slaves |-> {}]
  /\ closed = <<>> /\ segmentsize = 0
  /\ Obytes = 0 /\ Isegment = 0 /\ Ioffset = 0
  /\ stack = <<>> /\ pulled = 0
  /\ wkc = 0 /\ valid = FALSE /\ stale = FALSE

----------------------------------------------------------------------------
(* The layout.                                                              *)

Smaller(a, b) == IF a < b THEN a ELSE b
BitOriented(bits) == bits < 8

\* How many of a slave's bytes are in FMMUs after each of its runs of adjacent
\* sync managers.  The bytes of the runs are counted up and never reset; the
\* FMMU is cut where the slave's bytes end.
Done(bytes, runs) ==
  LET done[k \in 0 .. Len(runs)] ==
        IF k = 0 THEN 0 ELSE done[k - 1] + Smaller(UpTo(runs, k), bytes - done[k - 1])
  IN  done

BitFmmu(p, bits) == {[from |-> p, to |-> p + bits - 1]}

\* One FMMU for each run that has some.
ByteFmmus(p, bytes, runs) ==
  LET done == Done(bytes, runs)
  IN  {[from |-> p + 8 * done[k - 1], to |-> p + 8 * done[k] - 1] :
         k \in {i \in 1 .. Len(runs) : done[i - 1] < done[i]}}

AtByte(p) == 8 * BytesOf(p)

FmmusFor(p, bits, runs) ==
  IF BitOriented(bits) THEN BitFmmu(p, bits) ELSE ByteFmmus(AtByte(p), BytesOf(bits), runs)

\* The place behind them.
PlaceBehind(p, bits, runs) ==
  IF BitOriented(bits) THEN p + bits ELSE AtByte(p) + 8 * Done(BytesOf(bits), runs)[Len(runs)]

\* What does not fit starts a new segment, if there is one left.
AddToSegment(bytes) ==
  IF segmentsize + bytes <= MaxSegment
    THEN segmentsize' = segmentsize + bytes /\ UNCHANGED closed
    ELSE IF Len(closed) < MaxSegments - 1
      THEN closed' = Append(closed, segmentsize) /\ segmentsize' = bytes
      ELSE UNCHANGED <<closed, segmentsize>>

\* The segment gets the whole bytes the place went over.
Advance(p) == pos' = p /\ AddToSegment(p \div 8 - pos \div 8)

\* The rest of a byte that was begun is left free.
RoundUp == IF pos % 8 = 0 THEN UNCHANGED <<pos, closed, segmentsize>> ELSE Advance(AtByte(pos))

\* Variant of MapSlave: the next place is the last bit, not the one behind it.
MapSlaveOnto(fmmu, bits, runs) ==
  IF bits = 0
    THEN UNCHANGED <<fmmu, pos, closed, segmentsize>>
    ELSE /\ fmmu' = [fmmu EXCEPT ![next] = FmmusFor(pos, bits, runs)]
         /\ Advance(PlaceBehind(pos, bits, runs) - 1)

MapSlave(fmmu, bits, runs) ==
  IF bits = 0
    THEN UNCHANGED <<fmmu, pos, closed, segmentsize>>
    ELSE /\ fmmu' = [fmmu EXCEPT ![next] = FmmusFor(pos, bits, runs)]
         /\ Advance(PlaceBehind(pos, bits, runs))

MapOutputs ==
  /\ at = "outputs" /\ next <= N
  /\ MapSlave(ofmmu, slaves[next].obits, slaves[next].oruns)
  /\ next' = next + 1
  /\ UNCHANGED <<slaves, blockLRW, at, ifmmu, Obytes, Isegment, Ioffset, exchange>>

OutputsMapped ==
  /\ at = "outputs" /\ next = N + 1
  /\ RoundUp
  /\ Obytes' = pos' \div 8
  /\ Isegment' = Len(closed') /\ Ioffset' = segmentsize'
  /\ at' = "inputs" /\ next' = 1
  /\ UNCHANGED <<slaves, blockLRW, ofmmu, ifmmu, exchange>>

MapInputs ==
  /\ at = "inputs" /\ next <= N
  /\ MapSlave(ifmmu, slaves[next].ibits, slaves[next].iruns)
  /\ next' = next + 1
  /\ UNCHANGED <<slaves, blockLRW, at, ofmmu, Obytes, Isegment, Ioffset, exchange>>

InputsMapped ==
  /\ at = "inputs" /\ next = N + 1
  /\ RoundUp
  /\ at' = "mapped"
  /\ UNCHANGED <<slaves, blockLRW, next, ofmmu, ifmmu, Obytes, Isegment, Ioffset, exchange>>

----------------------------------------------------------------------------
(* The exchange.                                                            *)

IOsegment == Append(closed, segmentsize)
Bytes == pos \div 8  \* Obytes + Ibytes

Datagram(cmd, from, to) == [cmd |-> cmd, from |-> from, to |-> to]

\* LRW goes on until all bytes are in a datagram or the segments end.
LRW == LET start(k) == UpTo(IOsegment, k - 1)
           used == {k \in 1 .. Len(IOsegment) : k = 1 \/ start(k) < Bytes}
       IN  [k \in 1 .. Cardinality(used) |-> Datagram("LRW", start(k), start(k + 1))]

\* Variant of LRD: the first segment is sent from its beginning.
LRDNoOffset ==
  LET first == UpTo(IOsegment, Isegment)
      start(k) == Obytes + UpTo(IOsegment, Isegment + k - 1) - first
  IN  [k \in 1 .. Len(IOsegment) - Isegment |-> Datagram("LRD", start(k), start(k + 1))]

\* Variant of LRD: the outputs are not skipped.
LRDFromStart ==
  LET first == UpTo(IOsegment, Isegment) + Ioffset
      start(k) == IF k = 1 THEN 0 ELSE UpTo(IOsegment, Isegment + k - 1) - first
  IN  [k \in 1 .. Len(IOsegment) - Isegment |-> Datagram("LRD", start(k), start(k + 1))]

\* LRD starts behind the outputs, inside the segment that has the last of them.
LRD ==
  LET first == UpTo(IOsegment, Isegment) + Ioffset
      start(k) == IF k = 1 THEN Obytes ELSE Obytes + UpTo(IOsegment, Isegment + k - 1) - first
  IN  [k \in 1 .. Len(IOsegment) - Isegment |-> Datagram("LRD", start(k), start(k + 1))]

LWR == LET start(k) == UpTo(IOsegment, k - 1)
           used == {k \in 1 .. Len(IOsegment) : start(k) < Obytes}
       IN  [k \in 1 .. Cardinality(used) |->
              Datagram("LWR", start(k), Smaller(start(k + 1), Obytes))]

\* What one send puts on the line.
Sent ==
  IF Bytes = 0 THEN <<>>
  ELSE IF ~ blockLRW THEN LRW
  ELSE (IF Obytes < Bytes THEN LRD ELSE <<>>) \o (IF Obytes > 0 THEN LWR ELSE <<>>)

\* Bits of a slave that a datagram covers.
Meets(d, fmmus) == \E f \in fmmus : f.from < 8 * d.to /\ f.to >= 8 * d.from
Writes(d) == IF d.cmd = "LRD" THEN {} ELSE {s \in Slaves : Meets(d, ofmmu[s])}
Reads(d) == IF d.cmd = "LWR" THEN {} ELSE {s \in Slaves : Meets(d, ifmmu[s])}
Concerns(d) == Writes(d) \cup Reads(d)

\* A datagram that finds the index stack full is sent but not received.
Send ==
  /\ at = "mapped"
  /\ stack' = SubSeq(Sent, 1, Smaller(Len(Sent), MaxStack))
  /\ pulled' = 0 /\ wkc' = 0 /\ valid' = FALSE
  /\ stale' = (\E k \in DOMAIN Sent : k > MaxStack /\ Concerns(Sent[k]) # {})
  /\ at' = "sent"
  /\ UNCHANGED <<slaves, blockLRW, next, layout>>

\* The slaves count a write of LRW as 2, one of LWR as 1.
Counter(d, up) ==
  (IF d.cmd = "LRW" THEN 2 ELSE 1) * Cardinality(Writes(d) \cap up) + Cardinality(Reads(d) \cap up)

\* Variant of Counted: every counter is doubled when LRW is blocked.
CountedTwice(d, c) == IF d.cmd = "LRW" THEN c ELSE 2 * c

\* The counter of LWR is doubled, so that it is the one of LRW.
Counted(d, c) == IF d.cmd = "LWR" THEN 2 * c ELSE c

Pulled == stack[pulled + 1]

\* The frame comes back; the slaves in up have taken part.
ReceiveFrame ==
  /\ at = "sent" /\ pulled < Len(stack)
  /\ \E up \in SUBSET Slaves :
       /\ wkc' = wkc + Counted(Pulled, Counter(Pulled, up))
       /\ stale' = (stale \/ ~ (Concerns(Pulled) \subseteq up))
  /\ valid' = TRUE
  /\ pulled' = pulled + 1
  /\ UNCHANGED <<slaves, blockLRW, at, next, layout, stack>>

\* It does not, in time.
NoFrame ==
  /\ at = "sent" /\ pulled < Len(stack)
  /\ stale' = (stale \/ Concerns(Pulled) # {})
  /\ pulled' = pulled + 1
  /\ UNCHANGED <<slaves, blockLRW, at, next, layout, stack, wkc, valid>>

Received == at = "sent" /\ pulled = Len(stack)
Result == IF valid THEN wkc ELSE -1

\* The stack is cleared for the next exchange.
Clear ==
  /\ Received
  /\ stack' = <<>> /\ pulled' = 0
  /\ at' = "mapped"
  /\ UNCHANGED <<slaves, blockLRW, next, layout, wkc, valid, stale>>

Mapping == MapOutputs \/ OutputsMapped \/ MapInputs \/ InputsMapped
Exchange == Send \/ ReceiveFrame \/ NoFrame \/ Clear
Next == Mapping \/ Exchange

Spec == Init /\ [][Next]_vars

----------------------------------------------------------------------------
Places == {<<s, dir>> : s \in Slaves, dir \in {"out", "in"}}
FmmusOf(x) == IF x[2] = "out" THEN ofmmu[x[1]] ELSE ifmmu[x[1]]
BitsOf(x) == IF x[2] = "out" THEN slaves[x[1]].obits ELSE slaves[x[1]].ibits
Commands(x) == IF x[2] = "out" THEN {"LRW", "LWR"} ELSE {"LRW", "LRD"}
Mapped == at \in {"mapped", "sent"}

\* No bit of the process data belongs to two slaves, nor to the outputs and the
\* inputs of one, whatever mix of bit and byte oriented slaves is on the bus.
FmmusDisjoint ==
  \A x, y \in Places : \A f \in FmmusOf(x), g \in FmmusOf(y) :
    f.to < g.from \/ g.to < f.from \/ (x = y /\ f = g)

\* All bits of every slave are mapped, one after the other, inside the process
\* data, outputs first.
AllMapped ==
  Mapped => \A x \in Places :
    /\ \E p \in 0 .. pos : \A b \in p .. p + BitsOf(x) - 1 :
         \E f \in FmmusOf(x) : f.from <= b /\ b <= f.to
    /\ \A f \in FmmusOf(x) :
         f.from >= (IF x[2] = "in" THEN 8 * Obytes ELSE 0)
           /\ f.to < (IF x[2] = "in" THEN 8 * Bytes ELSE 8 * Obytes)

\* ecx_config_create_output_mappings() and its twin: the layout is sound.
FmmusFit == FmmusDisjoint /\ AllMapped

\* A segment was left for everything that did not fit.
SegmentsSuffice == Total(IOsegment) = Bytes

\* Every byte of a slave is carried by one datagram of an exchange, with LRW or
\* without.
CarriedOnce ==
  Mapped /\ SegmentsSuffice => \A x \in Places : \A f \in FmmusOf(x) :
    \A b \in f.from .. f.to :
      Cardinality({k \in DOMAIN Sent : Sent[k].cmd \in Commands(x)
                                         /\ b >= 8 * Sent[k].from /\ b < 8 * Sent[k].to}) = 1

\* Are the outputs, or the inputs, of a slave cut by the end of a datagram?
Broken(x) ==
  \E f, g \in FmmusOf(x) :
    \E k \in DOMAIN Sent : Sent[k].cmd \in Commands(x)
                             /\ f.from < 8 * Sent[k].to /\ g.to >= 8 * Sent[k].to

\* Unless the segments ran out no datagram ends inside a byte oriented slave ...
BytesUnbroken == Mapped /\ SegmentsSuffice => \A x \in Places : BitsOf(x) > 7 => ~ Broken(x)

\* ... or inside any: "Datagrams must not break SM in two".
Unbroken == Mapped => \A x \in Places : ~ Broken(x)

\* The work counter ethercat_loop expects.
Expected ==
  2 * Cardinality({s \in Slaves : ofmmu[s] # {}}) + Cardinality({s \in Slaves : ifmmu[s] # {}})

\* When the work counter is the expected one, every slave took part in every
\* datagram that is meant for it: no lost segment is made up for by another,
\* even if segments or the index stack ran out.
FullWkcIsFresh == Received /\ Unbroken /\ Result >= Expected => ~ stale
=============================================================================
