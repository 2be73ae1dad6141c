----------------------------- MODULE SdoTransfer -----------------------------
(***************************************************************************)
(* Access to the objects of a slave: ecx_SDOread() and ecx_SDOwrite()      *)
(* (ethercatcoe.c) over ecx_mbxsend() and ecx_mbxreceive()                 *)
(* (ethercatmain.c).  A call empties the out mailbox of the slave, puts a  *)
(* request into its in mailbox and waits for the answer; a long value is   *)
(* read or written in segments, one exchange each.                         *)
(*                                                                         *)
(* Datagrams are lost on the way to the slave or on the way back, and sent *)
(* again by ecx_srconfirm() until its timer ends.  A mailbox read whose    *)
(* answer was lost is asked for again with the repeat toggle.  Every timer *)
(* may end at any time.                                                    *)
(*                                                                         *)
(* The slave is external.  It ignores a message with the count of the last *)
(* one, checks the toggle of segments, repeats its last message when it is *)
(* asked to, may send an emergency, and may refuse a request.  The data    *)
(* bytes of a segment never look like an index, and a slave fills unused   *)
(* bytes with zeros.                                                       *)
(***************************************************************************)
EXTENDS Naturals, Sequences

CONSTANTS
  Objects,        \* pairs of an index and a subindex
  Long,           \* the objects whose values take segments
  Parts,          \* messages a long value takes
  Values,         \* values of objects
  MaxCnt,         \* 7: the mailbox count runs from 1 to MaxCnt
  MaxEmcy,        \* bound: emergencies
  MaxFails        \* bound: exchanges that fail

ASSUME SdoAssumption ==
  /\ Long \subseteq Objects
  /\ Parts \in Nat /\ Parts > 1
  /\ MaxCnt \in Nat /\ MaxCnt > 1
  /\ MaxEmcy \in Nat /\ MaxFails \in Nat
  /\ Values # {}

VARIABLES
  pc, phase,    \* where the call is; the exchange it is in
  job,          \* the call
  toggle, cnt,  \* toggle bit of the segments, mailbox count
  part,         \* the part of a written value that is sent
  data, ok,     \* what was read so far; did the call return a work counter > 0?
  fails,        \* history: exchanges that failed so far
  smooth,       \* history: none of this call did, and no message was overtaken
  inbox, busy, outbox,      \* external: mailboxes, and the request in work
  lastcnt, lastout,         \* external: last count taken, last message put
  session, stored, emcy     \* external: the upload in progress, values, emergencies

call == <<pc, phase, job, toggle, cnt, part, data, ok, fails>>
master == <<call, smooth>>
slave == <<busy, lastcnt, session, stored, emcy>>
vars == <<master, slave, inbox, outbox, lastout>>

Part(o, n, v) == [obj |-> o, n |-> n, v |-> v]

Jobs == [op : {"read"}, obj : Objects, v : {"none"}, room : BOOLEAN]
          \cup [op : {"write"}, obj : Objects, v : Values, room : {TRUE}]
Count == 1 .. MaxCnt
Empty == [kind |-> "empty"]
Requests == [kind : {"read", "segment"}, obj : Objects, n : 1 .. Parts, v : {"none"}, toggle : 0 .. 1, cnt : Count]
              \cup [kind : {"write", "part"}, obj : Objects, n : 1 .. Parts, v : Values, toggle : 0 .. 1, cnt : Count]
Messages == [kind : {"whole", "first", "segment"}, obj : Objects, n : 1 .. Parts,
             v : Values, last : BOOLEAN]
              \cup [kind : {"written", "abort"}, obj : Objects]
              \cup [kind : {"emergency", "taken"}]

TypeOK ==
  /\ pc \in {"done", "avail", "fetch", "repeat", "empty", "write"}
  /\ phase \in {"drain", "init", "segment"}
  /\ job \in Jobs
  /\ toggle \in 0 .. 1 /\ cnt \in {0} \cup Count /\ part \in 1 .. Parts
  /\ data \in Seq([obj : Objects, n : 1 .. Parts, v : Values])
  /\ ok \in BOOLEAN /\ smooth \in BOOLEAN /\ fails \in 0 .. MaxFails
  /\ pc \in {"empty", "write"} => phase # "drain" /\ cnt \in Count
  /\ inbox \in Requests \cup {Empty} /\ busy \in Requests \cup {Empty}
  /\ outbox \in Messages \cup {Empty} /\ lastout \in Messages \cup {Empty}
  /\ lastcnt \in {0} \cup Count
  /\ session \in [op : {"read", "write"}, obj : Long, n : 2 .. Parts, toggle : 0 .. 1, v : Values]
                   \cup {Empty}
  /\ stored \in [Objects -> Values]
  /\ emcy \in 0 .. MaxEmcy

Init ==
  /\ pc = "avail" /\ phase = "drain"
  /\ job \in Jobs
  /\ toggle = 0 /\ cnt = 0 /\ part = 1
  /\ data = <<>> /\ ok = FALSE /\ fails = 0 /\ smooth = TRUE
  /\ inbox = Empty /\ busy = Empty /\ outbox = Empty
  /\ lastcnt = 0 /\ lastout = Empty
  /\ session = Empty
  /\ stored \in [Objects -> Values]
  /\ emcy = 0

----------------------------------------------------------------------------
(* The call.                                                                *)

\* ec_nextmbxcnt: 0 is not a count.
NextCnt == IF cnt + 1 > MaxCnt THEN 1 ELSE cnt + 1

Call ==
  /\ pc = "done"
  /\ job' \in Jobs
  /\ smooth' = TRUE
  /\ data' = <<>> /\ ok' = FALSE /\ toggle' = 0 /\ part' = 1
  /\ pc' = "avail" /\ phase' = "drain"
  /\ UNCHANGED <<cnt, fails, slave, inbox, outbox, lastout>>

Return(success) ==
  /\ pc' = "done"
  /\ ok' = success
  /\ UNCHANGED <<phase, toggle, cnt, part>>

\* On to a request.
Ask(ph, t, n) ==
  /\ pc' = "empty" /\ phase' = ph /\ toggle' = t /\ part' = n /\ cnt' = NextCnt
  /\ UNCHANGED ok

\* On to the next segment of a read, or to the next part of a write.
AskNext == Ask("segment", 1 - toggle, IF job.op = "write" THEN part + 1 ELSE part)

LastSent == job.op = "write" /\ part = Parts

\* Nothing came of the exchange.  While segments are read or written the next
\* one follows all the same.
Fails ==
  /\ CASE phase = "drain"   -> Ask("init", 0, 1)
       [] phase = "init"    -> Return(FALSE)
       [] phase = "segment" -> IF LastSent THEN Return(FALSE) ELSE AskNext
  /\ IF phase = "drain" THEN UNCHANGED <<fails, smooth>>
       ELSE fails < MaxFails /\ fails' = fails + 1 /\ smooth' = FALSE
  /\ UNCHANGED <<job, data>>

\* Does an answer carry the index, does it carry index and subindex?
HasIndex(m) == m.kind \in {"whole", "first", "written"} /\ m.obj[1] = job.obj[1]
HasObject(m) == m.kind \in {"whole", "first", "written"} /\ m.obj = job.obj

DataOf(m) == Part(m.obj, m.n, m.v)

\* A confirmation of a write reads as a value of no bytes.
TakeFirst(m) ==
  /\ \/ HasIndex(m) /\ m.kind = "written" /\ data' = <<>> /\ Return(TRUE)
     \/ HasIndex(m) /\ m.kind = "whole" /\ job.room /\ data' = <<DataOf(m)>> /\ Return(TRUE)
     \/ HasIndex(m) /\ m.kind = "first" /\ job.room /\ data' = <<DataOf(m)>>
          /\ Ask("segment", 0, part)
     \/ ~HasIndex(m) /\ Return(FALSE) /\ UNCHANGED data
     \/ m.kind \in {"whole", "first"} /\ ~job.room /\ Return(FALSE) /\ UNCHANGED data
  /\ UNCHANGED <<job, fails, smooth>>

\* Variant of TakeConfirmation: any answer confirms.
TakeConfirmationAny(m) ==
  /\ IF job.obj \in Long THEN Ask("segment", 0, 2) ELSE Return(TRUE)
  /\ UNCHANGED <<job, data, fails, smooth>>

\* The command of the answer is not looked at.
TakeConfirmation(m) ==
  /\ IF HasObject(m) /\ job.obj \in Long THEN Ask("segment", 0, 2) ELSE Return(HasObject(m))
  /\ UNCHANGED <<job, data, fails, smooth>>

\* Variant of TakeSegment: the command of the answer is not looked at.
TakeSegmentAny(m) ==
  /\ IF m.kind \in {"segment", "first", "whole"}
       THEN /\ data' = Append(data, DataOf(m))
            /\ IF m.last THEN Return(TRUE) ELSE AskNext
       ELSE Return(FALSE) /\ UNCHANGED data
  /\ UNCHANGED <<job, fails, smooth>>

TakeSegment(m) ==
  /\ IF m.kind = "segment"
       THEN /\ data' = Append(data, DataOf(m))
            /\ IF m.last THEN Return(TRUE) ELSE AskNext
       ELSE Return(FALSE) /\ UNCHANGED data
  /\ UNCHANGED <<job, fails, smooth>>

TakeTaken(m) ==
  /\ IF m.kind = "taken" /\ ~LastSent THEN AskNext ELSE Return(m.kind = "taken")
  /\ UNCHANGED <<job, data, fails, smooth>>

Take(m) ==
  CASE phase = "drain" -> Ask("init", 0, 1) /\ UNCHANGED <<job, data, fails, smooth>>
    [] phase = "init" /\ job.op = "read" -> TakeFirst(m)
    [] phase = "init" /\ job.op = "write" -> TakeConfirmation(m)
    [] phase = "segment" /\ job.op = "read" -> TakeSegment(m)
    [] phase = "segment" /\ job.op = "write" -> TakeTaken(m)

----------------------------------------------------------------------------
(* ecx_mbxsend().                                                           *)

Request ==
  [kind |-> IF phase = "init" THEN job.op ELSE IF job.op = "read" THEN "segment" ELSE "part",
   obj |-> job.obj, n |-> part, v |-> job.v, toggle |-> toggle, cnt |-> cnt]

\* ecx_mbxempty: polled until the mailbox is empty or the timer ends.
InboxEmpty ==
  /\ pc = "empty"
  /\ inbox = Empty
  /\ pc' = "write"
  /\ UNCHANGED <<phase, job, toggle, cnt, part, data, ok, fails, smooth, slave, inbox, outbox, lastout>>

InboxFull ==
  /\ pc = "empty"
  /\ Fails
  /\ UNCHANGED <<slave, inbox, outbox, lastout>>

Written ==
  /\ pc = "write"
  /\ inbox = Empty
  /\ inbox' = Request
  /\ pc' = "avail"
  /\ UNCHANGED <<phase, job, toggle, cnt, part, data, ok, fails, smooth, slave, outbox, lastout>>

\* The mailbox is full (of this very request, when its answer was lost), or
\* the datagram did not get through.
NotWritten ==
  /\ pc = "write"
  /\ Fails
  /\ UNCHANGED <<slave, inbox, outbox, lastout>>

\* Written, but the answer is lost: sent again, or given up.
WriteAnswerLost ==
  /\ pc = "write"
  /\ inbox = Empty
  /\ inbox' = Request
  /\ \/ UNCHANGED master
     \/ Fails
  /\ UNCHANGED <<slave, outbox, lastout>>

----------------------------------------------------------------------------
(* ecx_mbxreceive().                                                        *)

OutboxFull ==
  /\ pc = "avail"
  /\ outbox # Empty
  /\ pc' = "fetch"
  /\ UNCHANGED <<phase, job, toggle, cnt, part, data, ok, fails, smooth, slave, inbox, outbox, lastout>>

\* No mail until the timer ended.
NoMail ==
  /\ pc = "avail"
  /\ Fails
  /\ UNCHANGED <<slave, inbox, outbox, lastout>>

Fetch ==
  /\ pc = "fetch"
  /\ outbox \notin {Empty, [kind |-> "emergency"]}
  /\ outbox' = Empty
  /\ Take(outbox)
  /\ UNCHANGED <<slave, inbox, lastout>>

\* An emergency is reported and the mailbox read again while there is time:
\* there is none when the mailbox is drained.
FetchEmergency ==
  /\ pc = "fetch"
  /\ outbox = [kind |-> "emergency"]
  /\ outbox' = Empty
  /\ \/ phase # "drain" /\ UNCHANGED master
     \/ Fails
  /\ UNCHANGED <<slave, inbox, lastout>>

\* The mailbox is empty, or the datagram is lost on the way there, or on the
\* way back when it has emptied the mailbox: sent again, then repeated.
FetchLost ==
  /\ pc = "fetch"
  /\ outbox' \in {outbox, Empty}
  /\ pc' \in {"fetch", "repeat"}
  /\ UNCHANGED <<phase, job, toggle, cnt, part, data, ok, fails, smooth, slave, inbox, lastout>>

\* The slave acknowledges the toggle and puts its last message again; the
\* mailbox is read again while there is time.
Repeat ==
  /\ pc = "repeat"
  /\ outbox' = IF outbox = Empty THEN lastout ELSE outbox
  /\ \/ /\ phase # "drain"
        /\ pc' = "fetch"
        /\ UNCHANGED <<phase, job, toggle, cnt, part, data, ok, fails, smooth>>
     \/ Fails
  /\ UNCHANGED <<slave, inbox, lastout>>

\* The timer ends before the toggle is acknowledged.
NoRepeat ==
  /\ pc = "repeat"
  /\ Fails
  /\ UNCHANGED <<slave, inbox, outbox, lastout>>

----------------------------------------------------------------------------
(* The slave.                                                               *)

SlaveTakes ==
  /\ inbox # Empty
  /\ busy = Empty
  /\ inbox' = Empty
  /\ lastcnt' = inbox.cnt
  /\ busy' = IF inbox.cnt = lastcnt THEN Empty ELSE inbox
  /\ UNCHANGED <<master, outbox, lastout, session, stored, emcy>>

\* The next message comes while the last one, read by a datagram that was lost
\* on its way back, is still to be asked for again: nobody will see that one.
Overtakes == pc \in {"fetch", "repeat"} /\ phase = "segment" /\ lastout # [kind |-> "emergency"]

Puts(m) == outbox' = m /\ lastout' = m /\ smooth' = (smooth /\ ~ Overtakes)

Value(kind, o, n) ==
  [kind |-> kind, obj |-> o, n |-> n, v |-> stored[o], last |-> o \notin Long \/ n = Parts]

Session(op, n, t) ==
  [op |-> op, obj |-> busy.obj, n |-> n, toggle |-> t,
   v |-> IF op = "write" THEN busy.v ELSE stored[busy.obj]]

SlaveReads ==
  /\ busy.kind = "read"
  /\ IF busy.obj \in Long
       THEN Puts(Value("first", busy.obj, 1)) /\ session' = Session("read", 2, 0)
       ELSE Puts(Value("whole", busy.obj, 1)) /\ session' = Empty
  /\ UNCHANGED stored

SlaveWrites ==
  /\ busy.kind = "write"
  /\ Puts([kind |-> "written", obj |-> busy.obj])
  /\ IF busy.obj \in Long
       THEN session' = Session("write", 2, 0) /\ UNCHANGED stored
       ELSE session' = Empty /\ stored' = [stored EXCEPT ![busy.obj] = busy.v]

Continues(op) == session # Empty /\ session.op = op /\ busy.toggle = session.toggle

NextInSession ==
  session' = IF session.n = Parts THEN Empty
             ELSE [session EXCEPT !.n = @ + 1, !.toggle = 1 - @]

SlaveSegments ==
  /\ busy.kind = "segment"
  /\ Continues("read")
  /\ Puts(Value("segment", session.obj, session.n))
  /\ NextInSession
  /\ UNCHANGED stored

\* The last part must come when all others have.
SlaveParts ==
  /\ busy.kind = "part"
  /\ Continues("write")
  /\ (busy.n = Parts) = (session.n = Parts)
  /\ Puts([kind |-> "taken"])
  /\ NextInSession
  /\ stored' = IF session.n = Parts THEN [stored EXCEPT ![session.obj] = session.v] ELSE stored

SlaveAborts ==
  /\ Puts([kind |-> "abort", obj |-> busy.obj])
  /\ session' = Empty
  /\ UNCHANGED stored

SlaveAnswers ==
  /\ busy # Empty
  /\ outbox = Empty
  /\ SlaveReads \/ SlaveWrites \/ SlaveSegments \/ SlaveParts \/ SlaveAborts
  /\ busy' = Empty
  /\ UNCHANGED <<call, inbox, lastcnt, emcy>>

SlaveEmergency ==
  /\ emcy < MaxEmcy
  /\ outbox = Empty
  /\ emcy' = emcy + 1
  /\ Puts([kind |-> "emergency"])
  /\ UNCHANGED <<call, inbox, busy, lastcnt, session, stored>>

----------------------------------------------------------------------------
MailSend == InboxEmpty \/ InboxFull \/ Written \/ NotWritten \/ WriteAnswerLost
MailReceive == OutboxFull \/ NoMail \/ Fetch \/ FetchEmergency \/ FetchLost
                 \/ Repeat \/ NoRepeat
Master == MailSend \/ MailReceive
Slave == SlaveTakes \/ SlaveAnswers \/ SlaveEmergency

Next == Call \/ Master \/ Slave

Spec == Init /\ [][Next]_vars

----------------------------------------------------------------------------
\* A value read in segments is put together in order, without a gap and
\* without a part twice, whatever was lost, repeated, or left over by calls
\* that failed, as long as every exchange of this call succeeds.  Once
\* exchanges have failed, so that requests of theirs may still be answered, the
\* slave's next message must not come in the place of a lost one.
PartsInOrder == smooth \/ fails = 0 => \A k \in DOMAIN data : data[k].n = k

\* As long as no exchange failed, a call that succeeds has read the object it
\* was asked for, whole, and a write that succeeds is in the slave.
ValueOf(o) == [n \in 1 .. IF o \in Long THEN Parts ELSE 1 |-> Part(o, n, stored[o])]
Exact == IF job.op = "read" THEN data = ValueOf(job.obj) ELSE stored[job.obj] = job.v
ExactTillFailure == pc = "done" /\ ok /\ fails = 0 => Exact
=============================================================================
