------------------------------ MODULE NicPort ------------------------------
(***************************************************************************)
(* The Ethernet port of the SOEM master on Linux (oshw/linux/nicdrv.c):    *)
(* the frame index allocator, the receive buffers and the receive loop     *)
(* that several threads run at once over one raw socket.                   *)
(*                                                                         *)
(* A transaction of a thread is: take an index, build the datagram, send   *)
(* it, poll until the answer with that index is in, copy the answer out of *)
(* the receive buffer, mark the buffer EMPTY.  It is the life of every     *)
(* ecx_FPRD/BWR/... of ethercatbase.c (send, wait, resend until a timer    *)
(* ends: ecx_srconfirm) and of every process data frame (send once, wait   *)
(* once).  A thread that polls takes whatever frame comes first and stores *)
(* it for the thread it belongs to.                                        *)
(*                                                                         *)
(* The single (non redundant) port is modelled: the program never opens a  *)
(* second one.                                                             *)
(***************************************************************************)
EXTENDS Naturals, Sequences, FiniteSets

CONSTANTS
  Threads,     \* the threads that use the port
  Nobody,      \* not a thread: the sender of a frame whose transaction ended
  MaxBuf,      \* EC_MAXBUF: number of indices and of receive buffers
  WireCap,     \* frames the ring and the socket hold; a further one is lost
  LateFrames,  \* may a receive timer end while the answer is still under way?
  SendFails    \* may send() on the raw socket fail?

ASSUME PortAssumption ==
  /\ Nobody \notin Threads
  /\ IsFiniteSet(Threads)
  /\ MaxBuf \in Nat \ {0}
  /\ Cardinality(Threads) <= MaxBuf
  /\ WireCap \in Nat
  /\ LateFrames \in BOOLEAN
  /\ SendFails \in BOOLEAN

VARIABLES
  rxbufstat,  \* status of every receive buffer
  rxbuf,      \* the frame last copied into every receive buffer
  lastidx,    \* the index handed out last
  wire,       \* frames sent and not yet read from the socket, oldest first
  pc,         \* where every thread is in its transaction
  idx,        \* the index of its transaction
  hand,       \* the foreign frame a thread is about to store, under rx_mutex
  exhausted   \* history: some getindex found no EMPTY buffer

vars == <<rxbufstat, rxbuf, lastidx, wire, pc, idx, hand, exhausted>>

Buf == 0 .. MaxBuf - 1

\* What a frame carries: the index in its EtherCAT header and, as history, the
\* thread whose running transaction sent it (Nobody once that one has ended).
Frame == [idx : Buf, by : Threads \cup {Nobody}]
NoFrame == [idx |-> MaxBuf, by |-> Nobody]

BufStat == {"EMPTY", "ALLOC", "TX", "RCVD", "COMPLETE"}
Step == {"idle", "built", "check", "lock", "store", "timer", "got", "failed"}

TypeOK ==
  /\ rxbufstat \in [Buf -> BufStat]
  /\ rxbuf \in [Buf -> Frame \cup {NoFrame}]
  /\ lastidx \in Buf
  /\ wire \in Seq(Frame)
  /\ pc \in [Threads -> Step]
  /\ idx \in [Threads -> Buf]
  /\ hand \in [Threads -> Frame \cup {NoFrame}]
  /\ exhausted \in BOOLEAN

\* Variant of Init: an allocator that starts one past the last buffer.
InitPastEnd ==
  /\ rxbufstat = [i \in Buf |-> "EMPTY"]
  /\ rxbuf = [i \in Buf |-> NoFrame]
  /\ lastidx = MaxBuf
  /\ wire = << >>
  /\ pc = [t \in Threads |-> "idle"]
  /\ idx = [t \in Threads |-> 0]
  /\ hand = [t \in Threads |-> NoFrame]
  /\ exhausted = FALSE

\* ecx_setupnic: every buffer EMPTY, lastidx 0.
Init ==
  /\ rxbufstat = [i \in Buf |-> "EMPTY"]
  /\ rxbuf = [i \in Buf |-> NoFrame]
  /\ lastidx = 0
  /\ wire = << >>
  /\ pc = [t \in Threads |-> "idle"]
  /\ idx = [t \in Threads |-> 0]
  /\ hand = [t \in Threads |-> NoFrame]
  /\ exhausted = FALSE

Goto(t, where) == pc' = [pc EXCEPT ![t] = where]
SetStat(i, stat) == rxbufstat' = [rxbufstat EXCEPT ![i] = stat]
Own(t) == [idx |-> idx[t], by |-> t]

----------------------------------------------------------------------------
(* ecx_getindex, under getindex_mutex: the first EMPTY buffer after lastidx *)
(* in circular order; the one after lastidx itself when none is EMPTY.      *)

Scan(k) == LET i == lastidx + 1 + k IN IF i < MaxBuf THEN i ELSE i - MaxBuf

FreeAt(k) == rxbufstat[Scan(k)] = "EMPTY"

\* Variant of Picked: round robin that never looks at the status.
PickedBlindly(i) == i = Scan(0)

Picked(i) ==
  \/ \E k \in Buf : /\ FreeAt(k)
                    /\ \A j \in 0 .. k - 1 : ~ FreeAt(j)
                    /\ i = Scan(k)
  \/ /\ \A k \in Buf : ~ FreeAt(k)
     /\ i = Scan(0)

GetIndex(t) ==
  /\ pc[t] = "idle"
  /\ \E i \in Buf :
       /\ Picked(i)
       /\ SetStat(i, "ALLOC")
       /\ lastidx' = i
       /\ idx' = [idx EXCEPT ![t] = i]
  /\ exhausted' = (exhausted \/ \A k \in Buf : ~ FreeAt(k))
  /\ Goto(t, "built")
  /\ UNCHANGED <<rxbuf, wire, hand>>

----------------------------------------------------------------------------
(* ecx_outframe: TX first, then send(); EMPTY again when send() fails.      *)
(* Its callers go on to wait for the answer in both cases.                  *)

Transmit(t) ==
  /\ pc[t] = "built"
  /\ SetStat(idx[t], "TX")
  /\ wire' = IF Len(wire) < WireCap THEN Append(wire, Own(t)) ELSE wire
  /\ Goto(t, "check")
  /\ UNCHANGED <<rxbuf, lastidx, idx, hand, exhausted>>

TransmitFails(t) ==
  /\ SendFails
  /\ pc[t] = "built"
  /\ SetStat(idx[t], "EMPTY")
  /\ Goto(t, "check")
  /\ UNCHANGED <<rxbuf, lastidx, wire, idx, hand, exhausted>>

----------------------------------------------------------------------------
(* One round of ecx_inframe.  The buffer is looked at without the mutex;    *)
(* the socket is read, and the frame stored, under rx_mutex.  A thread in   *)
(* "store" is the only one that holds rx_mutex from one action to the next. *)

\* Variant of TakeStored: takes rxbuf for the answer while still in TX.
TakeStoredEarly(t) ==
  /\ pc[t] = "check"
  /\ rxbufstat[idx[t]] \in {"TX", "RCVD"}
  /\ SetStat(idx[t], "COMPLETE")
  /\ Goto(t, "got")
  /\ UNCHANGED <<rxbuf, lastidx, wire, idx, hand, exhausted>>

TakeStored(t) ==
  /\ pc[t] = "check"
  /\ rxbufstat[idx[t]] = "RCVD"
  /\ SetStat(idx[t], "COMPLETE")
  /\ Goto(t, "got")
  /\ UNCHANGED <<rxbuf, lastidx, wire, idx, hand, exhausted>>

NotStored(t) ==
  /\ pc[t] = "check"
  /\ rxbufstat[idx[t]] # "RCVD"
  /\ Goto(t, "lock")
  /\ UNCHANGED <<rxbufstat, rxbuf, lastidx, wire, idx, hand, exhausted>>

RxMutexFree == \A u \in Threads : pc[u] # "store"

\* Nothing on the wire, or nothing that has arrived yet.
RecvNothing(t) ==
  /\ pc[t] = "lock"
  /\ RxMutexFree
  /\ Goto(t, "timer")
  /\ UNCHANGED <<rxbufstat, rxbuf, lastidx, wire, idx, hand, exhausted>>

RecvOwn(t) ==
  /\ pc[t] = "lock"
  /\ RxMutexFree
  /\ wire # << >>
  /\ Head(wire).idx = idx[t]
  /\ wire' = Tail(wire)
  /\ rxbuf' = [rxbuf EXCEPT ![idx[t]] = Head(wire)]
  /\ SetStat(idx[t], "COMPLETE")
  /\ Goto(t, "got")
  /\ UNCHANGED <<lastidx, idx, hand, exhausted>>

\* A frame for another index: kept when its buffer is in TX, else dropped.
RecvOther(t) ==
  /\ pc[t] = "lock"
  /\ RxMutexFree
  /\ wire # << >>
  /\ Head(wire).idx # idx[t]
  /\ wire' = Tail(wire)
  /\ IF rxbufstat[Head(wire).idx] = "TX"
       THEN /\ hand' = [hand EXCEPT ![t] = Head(wire)]
            /\ Goto(t, "store")
       ELSE /\ Goto(t, "timer")
            /\ UNCHANGED hand
  /\ UNCHANGED <<rxbufstat, rxbuf, lastidx, idx, exhausted>>

Store(t) ==
  /\ pc[t] = "store"
  /\ rxbuf' = [rxbuf EXCEPT ![hand[t].idx] = hand[t]]
  /\ SetStat(hand[t].idx, "RCVD")
  /\ hand' = [hand EXCEPT ![t] = NoFrame]
  /\ Goto(t, "timer")
  /\ UNCHANGED <<lastidx, wire, idx, exhausted>>

----------------------------------------------------------------------------
(* The loops of ecx_waitinframe_red (poll until the receive timer ends) and *)
(* ecx_srconfirm (send again until the transaction timer ends).             *)

PollAgain(t) ==
  /\ pc[t] = "timer"
  /\ Goto(t, "check")
  /\ UNCHANGED <<rxbufstat, rxbuf, lastidx, wire, idx, hand, exhausted>>

UnderWay(t) ==
  \/ \E k \in DOMAIN wire : wire[k].by = t
  \/ \E u \in Threads : hand[u].by = t

\* The receive timer: its end is free when frames may be late, and otherwise
\* comes only when the thread's frame is no longer under way.
TimerEnds(t) == pc[t] = "timer" /\ (LateFrames \/ ~ UnderWay(t))

Resend(t) ==
  /\ TimerEnds(t)
  /\ Goto(t, "built")
  /\ UNCHANGED <<rxbufstat, rxbuf, lastidx, wire, idx, hand, exhausted>>

\* Variant of GiveUp: the timer runs only while the frame counts as sent.
GiveUpIfSent(t) ==
  /\ TimerEnds(t)
  /\ rxbufstat[idx[t]] = "TX"
  /\ Goto(t, "failed")
  /\ UNCHANGED <<rxbufstat, rxbuf, lastidx, wire, idx, hand, exhausted>>

GiveUp(t) ==
  /\ TimerEnds(t)
  /\ Goto(t, "failed")
  /\ UNCHANGED <<rxbufstat, rxbuf, lastidx, wire, idx, hand, exhausted>>

----------------------------------------------------------------------------
(* The caller copies the answer out of rxbuf and calls                      *)
(* ecx_setbufstat(idx, EC_BUF_EMPTY); what it sent is nobody's from then on.*)

Orphan(f, t) == IF f.by = t THEN [idx |-> f.idx, by |-> Nobody] ELSE f

\* Variant of Release: the buffer is freed only after an answer.
ReleaseIfAnswered(t) ==
  /\ pc[t] \in {"got", "failed"}
  /\ IF pc[t] = "got" THEN SetStat(idx[t], "EMPTY") ELSE UNCHANGED rxbufstat
  /\ Goto(t, "idle")
  /\ rxbuf' = [i \in Buf |-> Orphan(rxbuf[i], t)]
  /\ wire' = [k \in DOMAIN wire |-> Orphan(wire[k], t)]
  /\ hand' = [u \in Threads |-> Orphan(hand[u], t)]
  /\ idx' = [idx EXCEPT ![t] = 0]
  /\ UNCHANGED <<lastidx, exhausted>>

Release(t) ==
  /\ pc[t] \in {"got", "failed"}
  /\ SetStat(idx[t], "EMPTY")
  /\ Goto(t, "idle")
  /\ rxbuf' = [i \in Buf |-> Orphan(rxbuf[i], t)]
  /\ wire' = [k \in DOMAIN wire |-> Orphan(wire[k], t)]
  /\ hand' = [u \in Threads |-> Orphan(hand[u], t)]
  /\ idx' = [idx EXCEPT ![t] = 0]
  /\ UNCHANGED <<lastidx, exhausted>>

----------------------------------------------------------------------------
(* The ring and the socket: a frame is lost, or two change places.          *)

Lose(k) ==
  /\ wire' = [j \in 1 .. Len(wire) - 1 |-> IF j < k THEN wire[j] ELSE wire[j + 1]]
  /\ UNCHANGED <<rxbufstat, rxbuf, lastidx, pc, idx, hand, exhausted>>

Reverse(k) ==
  /\ k < Len(wire)
  /\ wire' = [wire EXCEPT ![k] = wire[k + 1], ![k + 1] = wire[k]]
  /\ UNCHANGED <<rxbufstat, rxbuf, lastidx, pc, idx, hand, exhausted>>

----------------------------------------------------------------------------

Recv(t) == RecvNothing(t) \/ RecvOwn(t) \/ RecvOther(t)

ThreadNext(t) ==
  \/ GetIndex(t)
  \/ Transmit(t) \/ TransmitFails(t)
  \/ TakeStored(t) \/ NotStored(t)
  \/ Recv(t) \/ Store(t)
  \/ PollAgain(t) \/ Resend(t) \/ GiveUp(t)
  \/ Release(t)

WireNext == \E k \in DOMAIN wire : Lose(k) \/ Reverse(k)

Next == (\E t \in Threads : ThreadNext(t)) \/ WireNext

Spec == Init /\ [][Next]_vars

\* Threads run (weak fairness of every step that does not wait), rx_mutex is
\* granted to a thread that keeps asking for it, and a timer that is started
\* ends: a thread that looks at it for ever finds it ended.
Fairness ==
  \A t \in Threads :
    /\ WF_vars(Transmit(t)) /\ WF_vars(TakeStored(t) \/ NotStored(t))
    /\ SF_vars(Recv(t)) /\ WF_vars(Store(t))
    /\ WF_vars(PollAgain(t) \/ Resend(t) \/ GiveUp(t)) /\ SF_vars(GiveUp(t))
    /\ WF_vars(Release(t))

FairSpec == Spec /\ Fairness

----------------------------------------------------------------------------
Holds(t) == pc[t] # "idle"
Shared == \E t, u \in Threads : t # u /\ Holds(t) /\ Holds(u) /\ idx[t] = idx[u]

\* No two transactions run under one index: a receive buffer has one owner
\* from ecx_getindex to ecx_setbufstat(EMPTY).
UniqueOwner == ~ Shared

\* With frames as late as they like, two transactions share an index only
\* after ecx_getindex has run out of EMPTY buffers (its while loop gives up
\* after EC_MAXBUF looks and hands out a buffer in use).
UniqueUntilExhausted == Shared => exhausted

\* The answer a caller copies out of rxbuf[idx] answers the datagram it sent
\* in this transaction, not one sent earlier or by another thread under the
\* same index.
AnswerMatches == \A t \in Threads : pc[t] = "got" => rxbuf[idx[t]] = Own(t)

\* A buffer that is not EMPTY belongs to a running transaction: ecx_setbufstat
\* at the end of a transaction gives the index back for good.
NoBufferLeak ==
  \A i \in Buf : rxbufstat[i] # "EMPTY" => \E t \in Threads : Holds(t) /\ idx[t] = i

\* Every transaction that takes an index ends and gives it back, however
\* frames are lost, delayed or stored by other threads (no thread is left
\* waiting on rx_mutex or in the two timer loops).
TransactionEnds == \A t \in Threads : pc[t] = "built" ~> pc[t] = "idle"
============================================================================
