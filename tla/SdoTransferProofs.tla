-------------------------- MODULE SdoTransferProofs --------------------------
(***************************************************************************)
(* Theorems about SdoTransfer, for any objects and values, any number of   *)
(* parts of a value, and any number of emergencies and of exchanges that   *)
(* fail: what is read and written is right as long as no exchange fails,   *)
(* and after failures segments are still put together in order.  The last  *)
(* section is about ErrorList.                                             *)
(***************************************************************************)
EXTENDS SdoTransfer, ErrorList, SequenceTheorems, TLAPS

----------------------------------------------------------------------------
(* The inductive invariant.                                                 *)

Emergency == [kind |-> "emergency"]

\* The message the master has not had yet: it is in the mailbox, or it was read
\* by a datagram that was lost, and can be asked for again.
Unread == IF outbox = Empty /\ pc \in {"fetch", "repeat"} THEN lastout ELSE outbox
Calm == Unread \in {Empty, Emergency}

LastIsOut == outbox # Empty => lastout = outbox

\* An upload goes on behind the last message, unless that is an emergency.
SessionFollows ==
  /\ lastout.kind \in {"whole", "first"} => lastout.n = 1
  /\ lastout.kind = "first" => session # Empty /\ session.op = "read" /\ session.n = 2
  /\ lastout.kind = "segment" /\ session # Empty => session.op = "read" /\ session.n = lastout.n + 1

\* The next segment that comes, or the next one that is made, is the next part.
NextFollows ==
  smooth /\ job.op = "read" /\ phase = "segment" /\ pc # "done" =>
    /\ Calm /\ session # Empty /\ session.op = "read" => session.n = Len(data) + 1
    /\ Unread.kind = "segment" => Unread.n = Len(data) + 1

\* As long as no exchange failed there is one request at a time: it is not sent
\* yet, in the mailbox, in work, or answered.  A copy of the last one may be in
\* the mailbox, and the answer may have got lost for good.
Obj == job.obj
NextPart == IF job.op = "read" THEN Len(data) + 1 ELSE part
TheValue == IF job.op = "read" THEN stored[Obj] ELSE job.v
SessionAt(n, t) == session = [op |-> job.op, obj |-> Obj, n |-> n, toggle |-> t, v |-> TheValue]
InSession == phase = "segment" => SessionAt(NextPart, toggle)

AnswersFirst(m) ==
  /\ phase = "init" /\ job.op = "read"
  /\ IF Obj \in Long THEN m = Value("first", Obj, 1) /\ SessionAt(2, 0) ELSE m = Value("whole", Obj, 1)
AnswersWrite(m) ==
  /\ phase = "init" /\ job.op = "write"
  /\ m = [kind |-> "written", obj |-> Obj]
  /\ IF Obj \in Long THEN SessionAt(2, 0) ELSE stored[Obj] = job.v
AnswersSegment(m) ==
  /\ phase = "segment" /\ job.op = "read"
  /\ m = Value("segment", Obj, NextPart)
  /\ NextPart < Parts => SessionAt(NextPart + 1, 1 - toggle)
AnswersPart(m) ==
  /\ phase = "segment" /\ job.op = "write"
  /\ m = [kind |-> "taken"]
  /\ IF NextPart < Parts THEN SessionAt(NextPart + 1, 1 - toggle) ELSE stored[Obj] = job.v
Answers(m) ==
  \/ m = [kind |-> "abort", obj |-> Obj]
  \/ AnswersFirst(m) \/ AnswersWrite(m) \/ AnswersSegment(m) \/ AnswersPart(m)

Between == pc = "done" \/ phase = "drain"
Settled == busy = Empty /\ lastcnt = cnt /\ Calm /\ (inbox = Empty \/ inbox.cnt = cnt)
Unsent ==
  /\ pc \in {"empty", "write"} /\ busy = Empty /\ lastcnt # cnt /\ Calm /\ InSession
  /\ inbox = Empty \/ (pc = "empty" /\ inbox.cnt = lastcnt)
Sent == pc # "empty" /\ inbox = Request /\ busy = Empty /\ lastcnt # cnt /\ Calm /\ InSession
InWork == pc # "empty" /\ inbox \in {Empty, Request} /\ busy = Request /\ lastcnt = cnt /\ Calm /\ InSession
Answered == pc # "empty" /\ inbox \in {Empty, Request} /\ busy = Empty /\ lastcnt = cnt /\ (Calm \/ Answers(Unread))
Exchange == Unsent \/ Sent \/ InWork \/ Answered
OneRequest == IF Between THEN Settled ELSE Exchange

ReadSoFar ==
  phase = "segment" /\ pc # "done" =>
    /\ Obj \in Long
    /\ job.op = "read" => Len(data) \in 1 .. Parts - 1 /\ \A k \in 1 .. Len(data) : data[k] = Part(Obj, k, stored[Obj])

TillFailure == fails = 0 => OneRequest /\ ReadSoFar

InOrder == \A k \in DOMAIN data : data[k].n = k

IInv == TypeOK /\ LastIsOut /\ SessionFollows /\ NextFollows /\ PartsInOrder /\ TillFailure /\ ExactTillFailure

----------------------------------------------------------------------------
(* Types.                                                                   *)

\* The parts of a value.
PartsRead == [obj : Objects, n : 1 .. Parts, v : Values]

\* The variables of the call, as the parts of an exchange change them.
CallType ==
  /\ pc \in {"done", "avail", "fetch", "repeat", "empty", "write"}
  /\ phase \in {"drain", "init", "segment"}
  /\ toggle \in 0 .. 1 /\ cnt \in {0} \cup Count /\ part \in 1 .. Parts
  /\ ok \in BOOLEAN
  /\ pc \in {"empty", "write"} => phase # "drain" /\ cnt \in Count

LEMMA NextCntType ==
  ASSUME TypeOK
  PROVE  NextCnt \in Count /\ NextCnt # cnt
BY SdoAssumption DEF TypeOK, NextCnt, Count

LEMMA AskType ==
  ASSUME TypeOK, NEW ph \in {"init", "segment"}, NEW t \in 0 .. 1, NEW n \in 1 .. Parts, Ask(ph, t, n)
  PROVE  CallType'
BY NextCntType DEF Ask, CallType, TypeOK, Count

LEMMA ReturnType ==
  ASSUME TypeOK, NEW success \in BOOLEAN, Return(success)
  PROVE  CallType'
BY DEF Return, CallType, TypeOK

LEMMA AskNextType ==
  ASSUME TypeOK, AskNext, ~ LastSent
  PROVE  CallType'
<1>1. 1 - toggle \in 0 .. 1 /\ (job.op = "write" => part + 1 \in 1 .. Parts) /\ part \in 1 .. Parts
  BY SdoAssumption DEF TypeOK, LastSent
<1> QED  BY <1>1, AskType DEF AskNext

LEMMA FailsType ==
  ASSUME TypeOK, Fails
  PROVE  /\ CallType' /\ job' = job /\ data' = data
         /\ fails' \in 0 .. MaxFails /\ smooth' \in BOOLEAN
<1>1. CASE phase = "drain"
  <2>1. Ask("init", 0, 1) /\ fails' = fails /\ smooth' = smooth /\ job' = job /\ data' = data
    BY <1>1 DEF Fails
  <2>2. 1 \in 1 .. Parts /\ 0 \in 0 .. 1
    BY SdoAssumption
  <2>3. CallType'
    BY <2>1, <2>2, AskType
  <2> QED  BY <2>1, <2>3 DEF TypeOK
<1>2. CASE phase # "drain"
  <2>1. fails < MaxFails /\ fails' = fails + 1 /\ smooth' = FALSE /\ job' = job /\ data' = data
    BY <1>2 DEF Fails
  <2>2. Return(FALSE) \/ (AskNext /\ ~ LastSent)
    BY <1>2 DEF Fails, TypeOK
  <2>3. CallType'
    BY <2>2, ReturnType, AskNextType
  <2>4. fails + 1 \in 0 .. MaxFails
    BY <2>1, SdoAssumption DEF TypeOK
  <2> QED  BY <2>1, <2>3, <2>4
<1> QED  BY <1>1, <1>2

LEMMA DataType ==
  ASSUME TypeOK
  PROVE  /\ data \in Seq(PartsRead) /\ <<>> \in Seq(PartsRead)
         /\ \A p \in PartsRead : <<p>> \in Seq(PartsRead) /\ Append(data, p) \in Seq(PartsRead)
<1>1. data \in Seq(PartsRead)
  BY DEF TypeOK, PartsRead
<1> QED  BY <1>1

LEMMA PartType ==
  ASSUME NEW m \in Messages, m.kind \in {"whole", "first", "segment"}
  PROVE  /\ m \in [kind : {"whole", "first", "segment"}, obj : Objects, n : 1 .. Parts, v : Values, last : BOOLEAN]
         /\ DataOf(m) \in PartsRead
BY DEF Messages, DataOf, Part, PartsRead

LEMMA TakeType ==
  ASSUME TypeOK, NEW m \in Messages, Take(m)
  PROVE  /\ CallType' /\ job' = job /\ fails' = fails /\ smooth' = smooth
         /\ data' \in Seq(PartsRead)
<1>1. job.op \in {"read", "write"} /\ part \in 1 .. Parts /\ 1 \in 1 .. Parts /\ 2 \in 1 .. Parts /\ 0 \in 0 .. 1
  <2>1. 1 \in 1 .. Parts /\ 2 \in 1 .. Parts /\ 0 \in 0 .. 1
    BY SdoAssumption
  <2> QED  BY <2>1 DEF TypeOK, Jobs
<1>2. data \in Seq(PartsRead) /\ <<>> \in Seq(PartsRead)
  BY DataType
<1>3. CASE phase = "drain"
  <2>1. Ask("init", 0, 1) /\ UNCHANGED <<job, data, fails, smooth>>
    BY <1>3 DEF Take
  <2> QED  BY <2>1, <1>1, <1>2, AskType
<1>4. CASE phase = "init" /\ job.op = "read"
  <2>1. TakeFirst(m)
    BY <1>4 DEF Take
  <2>2. UNCHANGED <<job, fails, smooth>> /\ (Return(FALSE) \/ Return(TRUE) \/ Ask("segment", 0, part))
    BY <2>1 DEF TakeFirst
  <2>3. data' \in {<<>>, data} \/ (m.kind \in {"whole", "first"} /\ data' = <<DataOf(m)>>)
    BY <2>1 DEF TakeFirst
  <2>4. data' \in Seq(PartsRead)
    BY <2>3, <1>2, PartType, DataType
  <2>5. CallType'
    BY <2>2, <1>1, ReturnType, AskType
  <2> QED  BY <2>2, <2>4, <2>5
<1>5. CASE phase = "init" /\ job.op = "write"
  <2>1. UNCHANGED <<job, data, fails, smooth>> /\ (Ask("segment", 0, 2) \/ Return(HasObject(m)))
    BY <1>5 DEF Take, TakeConfirmation
  <2>2. HasObject(m) \in BOOLEAN
    BY DEF HasObject
  <2>3. CallType'
    BY <2>1, <2>2, <1>1, ReturnType, AskType
  <2> QED  BY <2>1, <2>3, <1>2
<1>6. CASE phase = "segment" /\ job.op = "read"
  <2>1. UNCHANGED <<job, fails, smooth>> /\ (Return(FALSE) \/ Return(TRUE) \/ AskNext) /\ ~ LastSent
    BY <1>6 DEF Take, TakeSegment, LastSent
  <2>2. data' = data \/ (m.kind = "segment" /\ data' = Append(data, DataOf(m)))
    BY <1>6 DEF Take, TakeSegment
  <2>3. data' \in Seq(PartsRead)
    BY <2>2, <1>2, PartType, DataType
  <2>4. CallType'
    BY <2>1, ReturnType, AskNextType
  <2> QED  BY <2>1, <2>3, <2>4
<1>7. CASE phase = "segment" /\ job.op = "write"
  <2>1. UNCHANGED <<job, data, fails, smooth>> /\ (Return(m.kind = "taken") \/ (AskNext /\ ~ LastSent))
    BY <1>7 DEF Take, TakeTaken
  <2>2. (m.kind = "taken") \in BOOLEAN
    OBVIOUS
  <2>3. CallType'
    BY <2>1, <2>2, ReturnType, AskNextType
  <2> QED  BY <2>1, <2>3, <1>2
<1> QED  BY <1>1, <1>3, <1>4, <1>5, <1>6, <1>7 DEF TypeOK

\* The rest of the types: the slave and the mailboxes.
SlaveType ==
  /\ inbox \in Requests \cup {Empty} /\ busy \in Requests \cup {Empty}
  /\ outbox \in Messages \cup {Empty} /\ lastout \in Messages \cup {Empty}
  /\ lastcnt \in {0} \cup Count
  /\ session \in [op : {"read", "write"}, obj : Long, n : 2 .. Parts, toggle : 0 .. 1, v : Values] \cup {Empty}
  /\ stored \in [Objects -> Values]
  /\ emcy \in 0 .. MaxEmcy

LEMMA TypeParts ==
  TypeOK <=> /\ CallType /\ SlaveType
             /\ job \in Jobs /\ data \in Seq(PartsRead)
             /\ fails \in 0 .. MaxFails /\ smooth \in BOOLEAN
BY DEF TypeOK, CallType, SlaveType, PartsRead

LEMMA RequestType ==
  ASSUME TypeOK, pc = "write"
  PROVE  Request \in Requests
<1>1. phase \in {"init", "segment"} /\ cnt \in Count /\ job \in Jobs /\ part \in 1 .. Parts /\ toggle \in 0 .. 1
  BY DEF TypeOK
<1>2. CASE job.op = "read"
  <2>1. job.obj \in Objects /\ job.v = "none"
    BY <1>1, <1>2 DEF Jobs
  <2> QED  BY <1>1, <1>2, <2>1 DEF Request, Requests
<1>3. CASE job.op = "write"
  <2>1. job.obj \in Objects /\ job.v \in Values
    BY <1>1, <1>3 DEF Jobs
  <2> QED  BY <1>1, <1>3, <2>1 DEF Request, Requests
<1> QED  BY <1>1, <1>2, <1>3 DEF Jobs

LEMMA ValueType ==
  ASSUME TypeOK, NEW kind \in {"whole", "first", "segment"}, NEW o \in Objects, NEW n \in 1 .. Parts
  PROVE  Value(kind, o, n) \in Messages
BY DEF TypeOK, Value, Messages

LEMMA SessionType ==
  ASSUME TypeOK, NextInSession, session # Empty
  PROVE  session' \in [op : {"read", "write"}, obj : Long, n : 2 .. Parts, toggle : 0 .. 1, v : Values] \cup {Empty}
<1> DEFINE S == [op : {"read", "write"}, obj : Long, n : 2 .. Parts, toggle : 0 .. 1, v : Values]
<1>1. session \in S
  BY DEF TypeOK
<1>2. CASE session.n = Parts
  BY <1>2 DEF NextInSession
<1>3. CASE session.n # Parts
  <2>1. session' = [session EXCEPT !.n = session.n + 1, !.toggle = 1 - session.toggle]
    BY <1>3 DEF NextInSession
  <2>2. session.n + 1 \in 2 .. Parts /\ 1 - session.toggle \in 0 .. 1
    BY <1>1, <1>3, SdoAssumption
  <2> QED  BY <1>1, <2>1, <2>2
<1> QED  BY <1>2, <1>3

\* What the slave's answer is made of, whichever it is.
LEMMA AnswerType ==
  ASSUME TypeOK, SlaveAnswers
  PROVE  SlaveType' /\ smooth' \in BOOLEAN
<1> DEFINE S == [op : {"read", "write"}, obj : Long, n : 2 .. Parts, toggle : 0 .. 1, v : Values]
<1>1. busy \in Requests /\ busy.obj \in Objects /\ busy.kind \in {"read", "write", "segment", "part"}
      /\ (busy.kind \in {"write", "part"} => busy.v \in Values)
  BY DEF SlaveAnswers, TypeOK, Requests
<1>2. busy' = Empty /\ UNCHANGED <<inbox, lastcnt, emcy>>
  BY DEF SlaveAnswers
<1>3. stored \in [Objects -> Values] /\ Long \subseteq Objects /\ 1 \in 1 .. Parts /\ 2 \in 2 .. Parts /\ 0 \in 0 .. 1
  BY SdoAssumption DEF TypeOK
<1>4. \A m : Puts(m) => outbox' = m /\ lastout' = m /\ smooth' \in BOOLEAN
  BY DEF Puts, Overtakes, TypeOK
<1>5. CASE SlaveReads
  <2>1. (busy.obj \in Long /\ Puts(Value("first", busy.obj, 1)) /\ session' = Session("read", 2, 0))
        \/ (Puts(Value("whole", busy.obj, 1)) /\ session' = Empty)
    BY <1>5 DEF SlaveReads
  <2>2. busy.obj \in Long => Session("read", 2, 0) \in S
    BY <1>1, <1>3 DEF Session
  <2>3. stored' = stored
    BY <1>5 DEF SlaveReads
  <2> QED  BY <1>1, <1>2, <1>3, <1>4, <2>1, <2>2, <2>3, ValueType DEF TypeOK, SlaveType
<1>6. CASE SlaveWrites
  <2>1. Puts([kind |-> "written", obj |-> busy.obj]) /\ [kind |-> "written", obj |-> busy.obj] \in Messages
    BY <1>1, <1>6 DEF SlaveWrites, Messages
  <2>2. session' \in S \cup {Empty} /\ stored' \in [Objects -> Values]
    BY <1>1, <1>3, <1>6 DEF SlaveWrites, Session
  <2> QED  BY <1>2, <1>4, <2>1, <2>2 DEF TypeOK, SlaveType
<1>7. CASE SlaveSegments
  <2>1. session # Empty /\ Puts(Value("segment", session.obj, session.n)) /\ NextInSession /\ stored' = stored
    BY <1>7 DEF SlaveSegments, Continues
  <2>2. session.obj \in Objects /\ session.n \in 1 .. Parts
    BY <1>3, <2>1 DEF TypeOK
  <2> QED  BY <1>2, <1>4, <2>1, <2>2, ValueType, SessionType DEF TypeOK, SlaveType
<1>8. CASE SlaveParts
  <2>1. session # Empty /\ Puts([kind |-> "taken"]) /\ [kind |-> "taken"] \in Messages /\ NextInSession
    BY <1>8 DEF SlaveParts, Continues, Messages
  <2>2. stored' \in [Objects -> Values]
    BY <1>3, <1>8, <2>1 DEF SlaveParts, TypeOK
  <2> QED  BY <1>2, <1>4, <2>1, <2>2, SessionType DEF TypeOK, SlaveType
<1>9. CASE SlaveAborts
  <2>1. Puts([kind |-> "abort", obj |-> busy.obj]) /\ [kind |-> "abort", obj |-> busy.obj] \in Messages
    BY <1>1, <1>9 DEF SlaveAborts, Messages
  <2> QED  BY <1>2, <1>4, <1>9, <2>1 DEF SlaveAborts, TypeOK, SlaveType
<1> QED  BY <1>5, <1>6, <1>7, <1>8, <1>9 DEF SlaveAnswers

LEMMA TypeStep ==
  ASSUME TypeOK, [Next]_vars
  PROVE  TypeOK'
<1>1. CallType /\ SlaveType /\ job \in Jobs /\ data \in Seq(PartsRead) /\ fails \in 0 .. MaxFails /\ smooth \in BOOLEAN
  BY TypeParts
<1>2. (CallType /\ SlaveType /\ job \in Jobs /\ data \in Seq(PartsRead) /\ fails \in 0 .. MaxFails /\ smooth \in BOOLEAN)'
      => TypeOK'
  BY DEF TypeOK, CallType, SlaveType, PartsRead
<1>3. Fails => (CallType /\ job \in Jobs /\ data \in Seq(PartsRead) /\ fails \in 0 .. MaxFails /\ smooth \in BOOLEAN)'
  BY <1>1, FailsType
<1>4. UNCHANGED master => (CallType /\ job \in Jobs /\ data \in Seq(PartsRead) /\ fails \in 0 .. MaxFails /\ smooth \in BOOLEAN)'
  BY <1>1 DEF master, call, CallType
<1>5. UNCHANGED <<slave, outbox, lastout>> /\ inbox' \in Requests \cup {Empty} => SlaveType'
  BY <1>1 DEF slave, SlaveType
<1>6. UNCHANGED <<slave, inbox, lastout>> /\ outbox' \in Messages \cup {Empty} => SlaveType'
  BY <1>1 DEF slave, SlaveType
<1>7. inbox \in Requests \cup {Empty} /\ outbox \in Messages \cup {Empty} /\ lastout \in Messages \cup {Empty}
  BY <1>1 DEF SlaveType
<1>8. CASE Call
  <2>1. (CallType /\ job \in Jobs /\ data \in Seq(PartsRead) /\ fails \in 0 .. MaxFails /\ smooth \in BOOLEAN)'
    <3>1. 0 \in 0 .. 1 /\ 1 \in 1 .. Parts
      BY SdoAssumption
    <3> QED  BY <1>1, <1>8, <3>1, DataType DEF Call, CallType
  <2> QED  BY <1>2, <1>5, <1>7, <1>8, <2>1 DEF Call
<1>9. CASE InboxEmpty
  BY <1>1, <1>2, <1>5, <1>7, <1>9 DEF InboxEmpty, CallType
<1>10. CASE InboxFull
  BY <1>2, <1>3, <1>5, <1>7, <1>10 DEF InboxFull
<1>11. CASE Written
  BY <1>1, <1>2, <1>5, <1>7, <1>11, RequestType DEF Written, CallType
<1>12. CASE NotWritten
  BY <1>2, <1>3, <1>5, <1>7, <1>12 DEF NotWritten
<1>13. CASE WriteAnswerLost
  BY <1>2, <1>3, <1>4, <1>5, <1>7, <1>13, RequestType DEF WriteAnswerLost
<1>14. CASE OutboxFull
  BY <1>1, <1>2, <1>5, <1>7, <1>14 DEF OutboxFull, CallType
<1>15. CASE NoMail
  BY <1>2, <1>3, <1>5, <1>7, <1>15 DEF NoMail
<1>16. CASE Fetch
  <2>1. outbox \in Messages /\ Take(outbox)
    BY <1>7, <1>16 DEF Fetch
  <2>2. (CallType /\ job \in Jobs /\ data \in Seq(PartsRead) /\ fails \in 0 .. MaxFails /\ smooth \in BOOLEAN)'
    BY <1>1, <2>1, TakeType
  <2> QED  BY <1>2, <1>6, <1>16, <2>2 DEF Fetch
<1>17. CASE FetchEmergency
  BY <1>2, <1>3, <1>4, <1>6, <1>17 DEF FetchEmergency
<1>18. CASE FetchLost
  BY <1>1, <1>2, <1>6, <1>7, <1>18 DEF FetchLost, CallType
<1>19. CASE Repeat
  <2>1. SlaveType'
    BY <1>6, <1>7, <1>19 DEF Repeat
  <2>2. CASE Fails
    BY <1>2, <1>3, <2>1, <2>2
  <2>3. CASE pc' = "fetch" /\ UNCHANGED <<phase, job, toggle, cnt, part, data, ok, fails, smooth>>
    BY <1>1, <1>2, <2>1, <2>3 DEF CallType
  <2> QED  BY <1>19, <2>2, <2>3 DEF Repeat
<1>20. CASE NoRepeat
  BY <1>2, <1>3, <1>5, <1>7, <1>20 DEF NoRepeat
<1>21. CASE SlaveTakes
  <2>1. inbox \in Requests /\ inbox.cnt \in Count
    BY <1>7, <1>21 DEF SlaveTakes, Requests
  <2>2. SlaveType'
    BY <1>1, <1>21, <2>1 DEF SlaveTakes, SlaveType
  <2> QED  BY <1>2, <1>4, <1>21, <2>2 DEF SlaveTakes
<1>22. CASE SlaveAnswers
  <2>1. UNCHANGED call /\ SlaveType' /\ smooth' \in BOOLEAN
    BY <1>22, AnswerType DEF SlaveAnswers
  <2> QED  BY <1>1, <1>2, <2>1 DEF call, CallType
<1>23. CASE SlaveEmergency
  <2>1. emcy + 1 \in 0 .. MaxEmcy
    BY <1>1, <1>23, SdoAssumption DEF SlaveEmergency, SlaveType
  <2>2. [kind |-> "emergency"] \in Messages
    BY DEF Messages
  <2>3. SlaveType'
    BY <1>1, <1>23, <2>1, <2>2 DEF SlaveEmergency, SlaveType, Puts
  <2>4. UNCHANGED call /\ smooth' \in BOOLEAN
    BY <1>1, <1>23 DEF SlaveEmergency, Puts, Overtakes
  <2> QED  BY <1>1, <1>2, <2>3, <2>4 DEF call, CallType
<1>24. CASE UNCHANGED vars
  BY <1>1, <1>2, <1>4, <1>24 DEF vars, slave, SlaveType
<1> QED
  BY <1>8, <1>9, <1>10, <1>11, <1>12, <1>13, <1>14, <1>15, <1>16, <1>17, <1>18, <1>19, <1>20, <1>21, <1>22, <1>23, <1>24
  DEF Next, Master, MailSend, MailReceive, Slave

LEMMA TypeInit == Init => TypeOK
<1> SUFFICES ASSUME Init PROVE TypeOK
  OBVIOUS
<1>1. 0 \in 0 .. 1 /\ 1 \in 1 .. Parts /\ 0 \in 0 .. MaxFails /\ 0 \in 0 .. MaxEmcy
  BY SdoAssumption
<1>2. CallType /\ SlaveType
  BY <1>1 DEF Init, CallType, SlaveType
<1>3. data \in Seq(PartsRead)
  BY DEF Init
<1> QED  BY <1>1, <1>2, <1>3, TypeParts DEF Init

\* The call, the slave and their mailboxes have their types.
THEOREM TypeCorrect == Spec => []TypeOK
<1>1. Init => TypeOK
  BY TypeInit
<1>2. TypeOK /\ [Next]_vars => TypeOK'
  BY TypeStep
<1> QED  BY <1>1, <1>2, PTL DEF Spec

----------------------------------------------------------------------------
(* The order of the messages.                                               *)

\* The messages a slave answers with, and where its upload is then.
LEMMA AnswerShape ==
  ASSUME TypeOK, SlaveAnswers
  PROVE  /\ outbox = Empty /\ outbox' = lastout' /\ outbox' # Empty /\ outbox' # Emergency
         /\ smooth' = (smooth /\ ~ Overtakes)
         /\ \/ lastout'.kind = "first" /\ lastout'.n = 1 /\ session' # Empty /\ session'.op = "read" /\ session'.n = 2
            \/ lastout'.kind = "whole" /\ lastout'.n = 1
            \/ lastout'.kind \in {"written", "taken", "abort"}
            \/ /\ session # Empty /\ session.op = "read"
               /\ lastout'.kind = "segment" /\ lastout'.n = session.n
               /\ session' = Empty \/ (session' # Empty /\ session'.op = "read" /\ session'.n = session.n + 1)
<1>1. outbox = Empty
  BY DEF SlaveAnswers
<1>2. \A m : Puts(m) => outbox' = m /\ lastout' = m /\ smooth' = (smooth /\ ~ Overtakes)
  BY DEF Puts
<1>3. \A m : m.kind \notin {"empty", "emergency"} => m # Empty /\ m # Emergency
  BY DEF Empty, Emergency
<1>4. CASE SlaveReads
  <2>1. CASE busy.obj \in Long
    <3>1. Puts(Value("first", busy.obj, 1)) /\ session' = Session("read", 2, 0)
      BY <1>4, <2>1 DEF SlaveReads
    <3>2. Value("first", busy.obj, 1).kind = "first" /\ Value("first", busy.obj, 1).n = 1
      BY DEF Value
    <3>3. Session("read", 2, 0).op = "read" /\ Session("read", 2, 0).n = 2 /\ Session("read", 2, 0) # Empty
      BY DEF Session, Empty
    <3> QED  BY <1>1, <1>2, <1>3, <3>1, <3>2, <3>3
  <2>2. CASE busy.obj \notin Long
    <3>1. Puts(Value("whole", busy.obj, 1))
      BY <1>4, <2>2 DEF SlaveReads
    <3>2. Value("whole", busy.obj, 1).kind = "whole" /\ Value("whole", busy.obj, 1).n = 1
      BY DEF Value
    <3> QED  BY <1>1, <1>2, <1>3, <3>1, <3>2
  <2> QED  BY <2>1, <2>2
<1>5. CASE SlaveWrites
  BY <1>1, <1>2, <1>3, <1>5 DEF SlaveWrites
<1>6. CASE SlaveSegments
  <2>1. session # Empty /\ session.op = "read" /\ Puts(Value("segment", session.obj, session.n)) /\ NextInSession
    BY <1>6 DEF SlaveSegments, Continues
  <2>2. Value("segment", session.obj, session.n).kind = "segment" /\ Value("segment", session.obj, session.n).n = session.n
    BY DEF Value
  <2>3. session' = Empty \/ (session' # Empty /\ session'.op = "read" /\ session'.n = session.n + 1)
    <3>1. CASE session.n = Parts
      BY <2>1, <3>1 DEF NextInSession
    <3>2. CASE session.n # Parts
      <4>1. session' = [session EXCEPT !.n = session.n + 1, !.toggle = 1 - session.toggle]
        BY <2>1, <3>2 DEF NextInSession
      <4>2. session \in [op : {"read", "write"}, obj : Long, n : 2 .. Parts, toggle : 0 .. 1, v : Values]
        BY <2>1 DEF TypeOK
      <4> QED  BY <2>1, <4>1, <4>2 DEF Empty
    <3> QED  BY <3>1, <3>2
  <2> QED  BY <1>1, <1>2, <1>3, <2>1, <2>2, <2>3
<1>7. CASE SlaveParts
  BY <1>1, <1>2, <1>3, <1>7 DEF SlaveParts
<1>8. CASE SlaveAborts
  BY <1>1, <1>2, <1>3, <1>8 DEF SlaveAborts
<1> QED  BY <1>4, <1>5, <1>6, <1>7, <1>8 DEF SlaveAnswers

\* The steps of the master by which it neither takes a message nor fails leave
\* the message it has not had as it is.
Passes ==
  /\ UNCHANGED <<phase, job, toggle, cnt, part, data, ok, fails, smooth, slave, lastout>>
  /\ pc # "done" /\ pc' # "done"

LEMMA PassOrNot ==
  ASSUME TypeOK, LastIsOut, Master
  PROVE  \/ Fails /\ UNCHANGED <<slave, lastout>> /\ outbox' \in {Empty, Unread} /\ (inbox' = inbox \/ pc = "write")
         \/ Fetch
         \/ Passes /\ Unread' = Unread
         \/ Passes /\ outbox = Emergency /\ outbox' = Empty /\ pc = "fetch" /\ pc' = "fetch"
<1>1. CASE InboxEmpty
  BY <1>1 DEF InboxEmpty, Passes, Unread
<1>2. CASE InboxFull \/ NotWritten \/ NoMail \/ NoRepeat
  BY <1>2 DEF InboxFull, NotWritten, NoMail, NoRepeat, Unread
<1>3. CASE Written
  BY <1>3 DEF Written, Passes, Unread
<1>4. CASE WriteAnswerLost
  BY <1>4 DEF WriteAnswerLost, Passes, Unread, master, call
<1>5. CASE OutboxFull
  BY <1>5 DEF OutboxFull, Passes, Unread
<1>6. CASE FetchEmergency
  BY <1>6 DEF FetchEmergency, Passes, Emergency, master, call
<1>7. CASE FetchLost
  BY <1>7 DEF FetchLost, Passes, Unread, LastIsOut
<1>8. CASE Repeat
  BY <1>8 DEF Repeat, Passes, Unread, LastIsOut
<1>9. CASE Fetch
  BY <1>9
<1> QED
  BY <1>1, <1>2, <1>3, <1>4, <1>5, <1>6, <1>7, <1>8, <1>9 DEF Master, MailSend, MailReceive

LEMMA LastIsOutStep ==
  ASSUME TypeOK, LastIsOut, [Next]_vars
  PROVE  LastIsOut'
<1>1. CASE Call
  BY <1>1 DEF Call, LastIsOut
<1>2. CASE MailSend
  BY <1>2 DEF MailSend, InboxEmpty, InboxFull, Written, NotWritten, WriteAnswerLost, LastIsOut
<1>3. CASE MailReceive
  BY <1>3 DEF MailReceive, OutboxFull, NoMail, Fetch, FetchEmergency, FetchLost, Repeat, NoRepeat, LastIsOut
<1>4. CASE Slave
  BY <1>4, AnswerShape DEF Slave, SlaveTakes, SlaveEmergency, Puts, LastIsOut
<1>5. CASE UNCHANGED vars
  BY <1>5 DEF vars, LastIsOut
<1> QED  BY <1>1, <1>2, <1>3, <1>4, <1>5 DEF Next, Master

LEMMA SessionFollowsStep ==
  ASSUME TypeOK, SessionFollows, [Next]_vars
  PROVE  SessionFollows'
<1>1. CASE UNCHANGED <<lastout, session>>
  BY <1>1 DEF SessionFollows
<1>2. CASE SlaveAnswers
  <2>1. (lastout'.kind = "first" /\ lastout'.n = 1 /\ session' # Empty /\ session'.op = "read" /\ session'.n = 2)
        \/ (lastout'.kind = "whole" /\ lastout'.n = 1)
        \/ lastout'.kind \in {"written", "taken", "abort"}
        \/ (lastout'.kind = "segment" /\ lastout'.n = session.n
             /\ (session' = Empty \/ (session' # Empty /\ session'.op = "read" /\ session'.n = session.n + 1)))
    BY <1>2, AnswerShape
  <2> QED  BY <2>1 DEF SessionFollows
<1>3. CASE SlaveEmergency
  <2>1. lastout'.kind = "emergency"
    BY <1>3 DEF SlaveEmergency, Puts
  <2> QED  BY <2>1 DEF SessionFollows
<1>4. CASE Call \/ SlaveTakes \/ UNCHANGED vars
  BY <1>1, <1>4 DEF Call, SlaveTakes, slave, vars
<1>5. CASE Master
  <2>1. UNCHANGED <<slave, lastout>>
    BY <1>5 DEF Master, MailSend, MailReceive, InboxEmpty, InboxFull, Written, NotWritten, WriteAnswerLost,
                OutboxFull, NoMail, Fetch, FetchEmergency, FetchLost, Repeat, NoRepeat
  <2> QED  BY <1>1, <2>1 DEF slave
<1> QED  BY <1>2, <1>3, <1>4, <1>5 DEF Next, Slave

\* What an exchange that fails, and one that succeeds, leaves of the call.
LEMMA FailsEnds ==
  ASSUME TypeOK, Fails
  PROVE  data' = data /\ (phase = "drain" \/ (smooth' = FALSE /\ fails' # 0)) /\ (phase = "drain" => phase' = "init")
<1>1. CASE phase = "drain"
  BY <1>1 DEF Fails, Ask
<1>2. CASE phase # "drain"
  <2>1. data' = data /\ fails' = fails + 1 /\ smooth' = FALSE /\ fails \in Nat
    BY <1>2, SdoAssumption DEF Fails, TypeOK
  <2> QED  BY <1>2, <2>1
<1> QED  BY <1>1, <1>2

\* What was read stays in order when the message that is taken is the next.
LEMMA TakeOrder ==
  ASSUME TypeOK, NEW m \in Messages, Take(m), InOrder,
         m.kind \in {"whole", "first"} => m.n = 1,
         m.kind = "segment" /\ phase = "segment" /\ job.op = "read" => m.n = Len(data) + 1
  PROVE  InOrder'
<1>1. data \in Seq(PartsRead) /\ job.op \in {"read", "write"}
  BY DataType DEF TypeOK, Jobs
<1>2. CASE data' = data
  BY <1>2 DEF InOrder
<1>3. CASE data' = <<>>
  BY <1>3 DEF InOrder
<1>4. CASE data' = <<DataOf(m)>> /\ m.kind \in {"whole", "first"}
  <2>1. DOMAIN data' = {1} /\ data'[1] = DataOf(m) /\ DataOf(m).n = 1
    BY <1>4 DEF DataOf, Part
  <2> QED  BY <2>1 DEF InOrder
<1>5. CASE data' = Append(data, DataOf(m)) /\ m.n = Len(data) + 1
  <2>1. DataOf(m).n = Len(data) + 1
    BY <1>5 DEF DataOf, Part
  <2>2. DOMAIN data = 1 .. Len(data) /\ DOMAIN data' = 1 .. Len(data) + 1 /\ Len(data) \in Nat
    BY <1>1, <1>5
  <2>3. \A k \in 1 .. Len(data) : data'[k] = data[k]
    BY <1>1, <1>5
  <2>4. data'[Len(data) + 1] = DataOf(m)
    BY <1>1, <1>5
  <2>5. \A k \in 1 .. Len(data) : data'[k].n = k
    BY <2>2, <2>3 DEF InOrder
  <2>6. ASSUME NEW k \in 1 .. Len(data) + 1 PROVE data'[k].n = k
    <3>1. CASE k = Len(data) + 1
      BY <2>1, <2>4, <3>1
    <3>2. CASE k \in 1 .. Len(data)
      BY <2>5, <3>2
    <3> QED  BY <2>2, <3>1, <3>2
  <2> QED  BY <2>2, <2>6 DEF InOrder
<1>6. CASE phase = "segment" /\ job.op = "read"
  <2>1. data' = data \/ (m.kind = "segment" /\ data' = Append(data, DataOf(m)))
    BY <1>6 DEF Take, TakeSegment
  <2> QED  BY <1>2, <1>5, <1>6, <2>1
<1>7. CASE phase = "init" /\ job.op = "read"
  <2>1. data' \in {<<>>, data} \/ (m.kind \in {"whole", "first"} /\ data' = <<DataOf(m)>>)
    BY <1>7 DEF Take, TakeFirst
  <2> QED  BY <1>2, <1>3, <1>4, <2>1
<1>8. CASE phase = "drain" \/ job.op = "write"
  <2>1. data' = data
    BY <1>1, <1>8 DEF Take, TakeConfirmation, TakeTaken, TypeOK
  <2> QED  BY <1>2, <2>1
<1> QED  BY <1>1, <1>6, <1>7, <1>8 DEF TypeOK

\* What a taken answer does to a read that goes on.
LEMMA TakeGoesOn ==
  ASSUME TypeOK, NEW m \in Messages, Take(m), phase' = "segment", pc' # "done", job.op = "read"
  PROVE  \/ phase = "init" /\ m.kind = "first" /\ data' = <<DataOf(m)>> /\ job.room
         \/ phase = "segment" /\ m.kind = "segment" /\ data' = Append(data, DataOf(m)) /\ ~ m.last
<1>1. CASE phase = "drain"
  BY <1>1 DEF Take, Ask
<1>2. CASE phase = "init"
  <2>1. TakeFirst(m)
    BY <1>2 DEF Take
  <2>2. Return(TRUE) \/ Return(FALSE) => pc' = "done"
    BY DEF Return
  <2> QED  BY <1>2, <2>1, <2>2 DEF TakeFirst
<1>3. CASE phase = "segment"
  <2>1. TakeSegment(m)
    BY <1>3 DEF Take
  <2>2. Return(TRUE) \/ Return(FALSE) => pc' = "done"
    BY DEF Return
  <2> QED  BY <1>3, <2>1, <2>2 DEF TakeSegment
<1> QED  BY <1>1, <1>2, <1>3 DEF TypeOK

LEMMA TakeLeaves ==
  ASSUME TypeOK, NEW m, Take(m)
  PROVE  pc' \in {"empty", "done"}
BY DEF Take, TakeFirst, TakeConfirmation, TakeSegment, TakeTaken, Ask, AskNext, Return, TypeOK, Jobs

LEMMA NextFollowsStep ==
  ASSUME TypeOK, TypeOK', LastIsOut, SessionFollows, NextFollows, [Next]_vars
  PROVE  NextFollows'
<1> SUFFICES ASSUME smooth', job'.op = "read", phase' = "segment", pc' # "done"
             PROVE  /\ Calm' /\ session' # Empty /\ session'.op = "read" => session'.n = Len(data') + 1
                    /\ Unread'.kind = "segment" => Unread'.n = Len(data') + 1
  BY DEF NextFollows
<1>1. CASE Call
  BY <1>1 DEF Call
<1>2. CASE UNCHANGED vars
  BY <1>2 DEF vars, master, call, slave, NextFollows, Calm, Unread, Emergency
<1>3. CASE SlaveTakes
  BY <1>3 DEF SlaveTakes, master, call, NextFollows, Calm, Unread
<1>4. CASE Master /\ ~ Fetch
  <2>1. CASE Fails
    BY <2>1, FailsEnds
  <2>2. CASE Passes /\ Unread' = Unread
    <3>1. NextFollows /\ Calm' = Calm
      BY <2>2 DEF Calm, Emergency
    <3> QED  BY <2>2, <3>1 DEF Passes, slave, NextFollows
  <2>3. CASE Passes /\ outbox = Emergency /\ outbox' = Empty /\ pc = "fetch" /\ pc' = "fetch"
    <3>1. Calm /\ Emergency # Empty
      BY <2>3 DEF Calm, Unread, Emergency, Empty
    <3>2. Unread' = Emergency
      BY <2>3, <3>1 DEF Unread, LastIsOut, Passes, Emergency
    <3>3. Unread'.kind # "segment"
      BY <3>2 DEF Emergency
    <3> QED  BY <2>3, <3>1, <3>3 DEF Passes, slave, NextFollows
  <2> QED  BY <1>4, <2>1, <2>2, <2>3, PassOrNot
<1>5. CASE Fetch
  <2>1. outbox \in Messages /\ outbox # Empty /\ outbox # Emergency /\ Take(outbox) /\ outbox' = Empty /\ UNCHANGED <<slave, lastout>>
    BY <1>5 DEF Fetch, TypeOK, Emergency
  <2>2. job' = job /\ smooth' = smooth /\ pc = "fetch"
    BY <1>5, <2>1, TakeType DEF Fetch
  <2>3. pc' \in {"empty", "done"}
    BY <2>1, TakeLeaves
  <2>4. Unread' = Empty /\ Unread'.kind # "segment"
    BY <2>1, <2>3 DEF Unread, Empty
  <2>5. lastout = outbox /\ Unread = outbox
    BY <2>1 DEF LastIsOut, Unread
  <2>6. session' = session
    BY <2>1 DEF slave
  <2>7. CASE phase = "init" /\ outbox.kind = "first" /\ data' = <<DataOf(outbox)>>
    <3>1. session # Empty => session.n = 2
      BY <2>5, <2>7 DEF SessionFollows
    <3>2. Len(data') = 1
      BY <2>7
    <3> QED  BY <2>4, <2>6, <3>1, <3>2
  <2>8. CASE phase = "segment" /\ outbox.kind = "segment" /\ data' = Append(data, DataOf(outbox))
    <3>1. session # Empty => session.n = outbox.n + 1
      BY <2>5, <2>8 DEF SessionFollows
    <3>2. outbox.n = Len(data) + 1
      BY <2>2, <2>5, <2>8 DEF NextFollows
    <3>3. Len(data') = Len(data) + 1
      BY <2>8, DataType
    <3> QED  BY <2>4, <2>6, <3>1, <3>2, <3>3
  <2> QED  BY <2>1, <2>2, <2>7, <2>8, TakeGoesOn
<1>6. CASE SlaveAnswers \/ SlaveEmergency
  <2>1. UNCHANGED call /\ outbox = Empty /\ smooth /\ ~ Overtakes /\ outbox' = lastout'
    BY <1>6, AnswerShape DEF SlaveAnswers, SlaveEmergency, Puts
  <2>2. pc \in {"fetch", "repeat"} => lastout = Emergency
    BY <2>1 DEF Overtakes, Emergency, call
  <2>3. Calm
    BY <2>1, <2>2 DEF Calm, Unread
  <2>4. session # Empty /\ session.op = "read" => session.n = Len(data) + 1
    BY <2>1, <2>3 DEF NextFollows, call
  <2>5. Len(data') = Len(data)
    BY <2>1 DEF call
  <2>6. CASE SlaveEmergency
    <3>1. outbox' = Emergency /\ session' = session /\ Emergency # Empty
      BY <2>6 DEF SlaveEmergency, Puts, Emergency, Empty
    <3>2. Unread'.kind = "emergency"
      BY <3>1 DEF Unread, Emergency
    <3> QED  BY <2>4, <2>5, <3>1, <3>2
  <2>7. CASE SlaveAnswers
    <3>1. outbox' # Empty /\ outbox' # Emergency /\ Unread' = lastout'
      BY <2>1, <2>7, AnswerShape DEF Unread
    <3>2. ~ Calm'
      BY <2>1, <3>1 DEF Calm, Emergency
    <3>3. lastout'.kind = "segment" => session # Empty /\ session.op = "read" /\ lastout'.n = session.n
      BY <2>7, AnswerShape
    <3> QED  BY <2>4, <2>5, <3>1, <3>2, <3>3
  <2> QED  BY <1>6, <2>6, <2>7
<1> QED  BY <1>1, <1>2, <1>3, <1>4, <1>5, <1>6 DEF Next, Slave

\* The data change where a message is taken, and where a call begins.
LEMMA DataKept ==
  ASSUME TypeOK, LastIsOut, [Next]_vars, ~ Call, ~ Fetch
  PROVE  data' = data /\ (smooth' => smooth) /\ (fails' = 0 => fails = 0)
<1>1. fails \in Nat
  BY SdoAssumption DEF TypeOK
<1>2. CASE Master
  <2>1. CASE Fails
    <3>1. data' = data
      BY <2>1, FailsEnds
    <3>2. CASE phase = "drain"
      BY <2>1, <3>1, <3>2 DEF Fails
    <3>3. CASE phase # "drain"
      BY <2>1, <3>1, <3>3, FailsEnds
    <3> QED  BY <3>2, <3>3
  <2>2. CASE Passes
    BY <2>2 DEF Passes
  <2> QED  BY <1>2, <2>1, <2>2, PassOrNot
<1>3. CASE Slave \/ UNCHANGED vars
  <2>1. UNCHANGED call /\ (smooth' => smooth)
    <3>1. CASE SlaveAnswers
      BY <3>1, AnswerShape DEF SlaveAnswers
    <3>2. CASE SlaveTakes \/ UNCHANGED vars
      BY <3>2 DEF SlaveTakes, master, vars
    <3>3. CASE SlaveEmergency
      <4>1. UNCHANGED call /\ smooth' = (smooth /\ ~ Overtakes)
        BY <3>3 DEF SlaveEmergency, Puts
      <4> QED  BY <4>1, Zenon
    <3> QED  BY <1>3, <3>1, <3>2, <3>3 DEF Slave
  <2> QED  BY <2>1 DEF call
<1> QED  BY <1>2, <1>3 DEF Next

LEMMA SmoothOrder ==
  ASSUME TypeOK, LastIsOut, SessionFollows, NextFollows, smooth => InOrder, [Next]_vars
  PROVE  smooth' => InOrder'
<1> SUFFICES ASSUME smooth' PROVE InOrder'
  OBVIOUS
<1>1. CASE Call
  BY <1>1 DEF Call, InOrder
<1>2. CASE Fetch
  <2>1. outbox \in Messages /\ outbox # Empty /\ outbox # Emergency /\ Take(outbox) /\ pc = "fetch"
    BY <1>2 DEF Fetch, TypeOK, Emergency
  <2>2. smooth /\ InOrder
    BY <2>1, TakeType
  <2>3. lastout = outbox /\ Unread = outbox
    BY <2>1 DEF LastIsOut, Unread
  <2>4. outbox.kind \in {"whole", "first"} => outbox.n = 1
    BY <2>3 DEF SessionFollows
  <2>5. outbox.kind = "segment" /\ phase = "segment" /\ job.op = "read" => outbox.n = Len(data) + 1
    BY <2>1, <2>2, <2>3 DEF NextFollows
  <2> QED  BY <2>1, <2>2, <2>4, <2>5, TakeOrder
<1>3. CASE ~ Call /\ ~ Fetch
  <2>1. data' = data /\ smooth
    BY <1>3, DataKept
  <2>2. InOrder
    BY <2>1
  <2> QED  BY <2>1, <2>2 DEF InOrder
<1> QED  BY <1>1, <1>2, <1>3

----------------------------------------------------------------------------
(* One request at a time, as long as no exchange failed.                    *)

\* A message the master takes is then the answer to its request.
LEMMA TakesAnswer ==
  ASSUME TypeOK, LastIsOut, OneRequest, Fetch
  PROVE  /\ outbox \in Messages /\ Take(outbox) /\ outbox' = Empty /\ UNCHANGED <<slave, inbox, lastout>>
         /\ phase # "drain" /\ pc = "fetch"
         /\ busy = Empty /\ lastcnt = cnt /\ (inbox = Empty \/ inbox.cnt = cnt)
         /\ Answers(outbox)
<1>1. outbox \in Messages /\ outbox # Empty /\ outbox # Emergency /\ Take(outbox) /\ outbox' = Empty
      /\ UNCHANGED <<slave, inbox, lastout>> /\ pc = "fetch"
  BY DEF Fetch, TypeOK, Emergency
<1>2. Unread = outbox /\ ~ Calm
  BY <1>1 DEF Unread, Calm
<1>3. ~ Between /\ Answered
  BY <1>1, <1>2 DEF OneRequest, Settled, Exchange, Unsent, Sent, InWork, Between
<1>4. inbox = Empty \/ inbox.cnt = cnt
  BY <1>3 DEF Answered, Request
<1> QED  BY <1>1, <1>2, <1>3, <1>4 DEF Answered, Between

\* The next request is not sent yet.
LEMMA NextUnsent ==
  ASSUME TypeOK, NEW ph \in {"init", "segment"}, NEW t, NEW n, Ask(ph, t, n),
         busy = Empty, lastcnt = cnt, inbox = Empty \/ inbox.cnt = cnt,
         UNCHANGED <<slave, inbox>>, outbox' \in {Empty, Emergency}, InSession'
  PROVE  OneRequest'
<1>1. pc' = "empty" /\ phase' = ph /\ cnt' # cnt
  BY NextCntType DEF Ask
<1>2. Calm'
  BY <1>1 DEF Calm, Unread, Emergency
<1>3. Unsent'
  BY <1>1, <1>2 DEF Unsent, slave
<1> QED  BY <1>1, <1>3 DEF OneRequest, Between, Exchange

LEMMA EndSettled ==
  ASSUME NEW success, Return(success), busy = Empty, lastcnt = cnt, inbox = Empty \/ inbox.cnt = cnt,
         UNCHANGED <<slave, inbox>>, outbox' = Empty
  PROVE  OneRequest' /\ ReadSoFar' /\ pc' = "done" /\ ok' = success
<1>1. pc' = "done" /\ ok' = success /\ cnt' = cnt
  BY DEF Return
<1>2. Calm'
  BY <1>1 DEF Calm, Unread
<1> QED  BY <1>1, <1>2 DEF Settled, slave, OneRequest, Between, ReadSoFar

\* A call begins, and a mailbox is emptied.
LEMMA CallSettles ==
  ASSUME OneRequest, Call
  PROVE  OneRequest' /\ ReadSoFar' /\ ~ ok'
<1>1. pc = "done" /\ pc' = "avail" /\ phase' = "drain" /\ ok' = FALSE /\ UNCHANGED <<cnt, slave, inbox, outbox, lastout>>
  BY DEF Call
<1>2. Settled
  BY <1>1 DEF OneRequest, Between
<1>3. Calm'
  BY <1>1, <1>2 DEF Settled, Calm, Unread, Emergency
<1> QED  BY <1>1, <1>2, <1>3 DEF Settled, slave, OneRequest, Between, ReadSoFar

LEMMA DrainEnds ==
  ASSUME TypeOK, LastIsOut, OneRequest, Fails, fails' = 0, Master, ~ Fetch, ~ Passes
  PROVE  OneRequest' /\ ReadSoFar' /\ pc' # "done"
<1>1. phase = "drain" /\ Ask("init", 0, 1)
  BY FailsEnds DEF Fails
<1>2. UNCHANGED <<slave, lastout>> /\ outbox' \in {Empty, Unread} /\ inbox' = inbox
  BY <1>1, PassOrNot DEF TypeOK
<1>3. Settled
  BY <1>1 DEF OneRequest, Between
<1>4. outbox' \in {Empty, Emergency} /\ busy = Empty /\ lastcnt = cnt /\ (inbox = Empty \/ inbox.cnt = cnt)
  BY <1>2, <1>3 DEF Settled, Calm
<1>5. pc' = "empty" /\ phase' = "init"
  BY <1>1 DEF Ask
<1>6. InSession' /\ ReadSoFar'
  BY <1>5 DEF InSession, ReadSoFar
<1> QED  BY <1>1, <1>2, <1>4, <1>5, <1>6, NextUnsent

\* What the answer to a request does to the call.
LEMMA AnswerTaken ==
  ASSUME TypeOK, LastIsOut, OneRequest, ReadSoFar, Fetch
  PROVE  OneRequest' /\ ReadSoFar' /\ (pc' = "done" /\ ok' => Exact')
<1> DEFINE m == outbox
<1>1. /\ m \in Messages /\ Take(m) /\ outbox' = Empty /\ UNCHANGED <<slave, inbox, lastout>>
      /\ phase # "drain" /\ pc = "fetch"
      /\ busy = Empty /\ lastcnt = cnt /\ (inbox = Empty \/ inbox.cnt = cnt)
      /\ Answers(m)
  BY TakesAnswer
<1>2. job' = job /\ stored' = stored /\ session' = session /\ job \in Jobs /\ job.op \in {"read", "write"} /\ Obj \in Objects
  BY <1>1, TakeType DEF slave, TypeOK, Jobs, Obj
<1>3. \A success : Return(success) => OneRequest' /\ ReadSoFar' /\ pc' = "done" /\ ok' = success
  BY <1>1, EndSettled
<1>4. \A ph \in {"init", "segment"} : \A t, n : Ask(ph, t, n) /\ InSession' => OneRequest' /\ pc' = "empty" /\ phase' = ph
  <2> SUFFICES ASSUME NEW ph \in {"init", "segment"}, NEW t, NEW n, Ask(ph, t, n), InSession'
               PROVE  OneRequest' /\ pc' = "empty" /\ phase' = ph
    OBVIOUS
  <2> QED  BY <1>1, NextUnsent DEF Ask
<1>5. Parts \in Nat /\ Parts > 1
  BY SdoAssumption
<1>6. CASE m = [kind |-> "abort", obj |-> Obj]
  <2>1. m.kind = "abort"
    BY <1>6
  <2>2. Return(FALSE)
    BY <1>1, <1>2, <2>1 DEF Take, TakeFirst, TakeConfirmation, TakeSegment, TakeTaken, HasIndex, HasObject, LastSent, TypeOK
  <2> QED  BY <1>3, <2>2
<1>7. CASE AnswersFirst(m)
  <2>1. phase = "init" /\ job.op = "read" /\ TakeFirst(m)
    BY <1>1, <1>7 DEF AnswersFirst, Take
  <2>2. CASE Obj \in Long
    <3>1. m = Value("first", Obj, 1) /\ SessionAt(2, 0)
      BY <1>7, <2>2 DEF AnswersFirst
    <3>2. m.kind = "first" /\ DataOf(m) = Part(Obj, 1, stored[Obj])
      BY <3>1 DEF Value, DataOf, Part
    <3>3. HasIndex(m)
      BY <3>1, <3>2 DEF HasIndex, Value, Obj
    <3>4. Return(FALSE) \/ (data' = <<DataOf(m)>> /\ Ask("segment", 0, part))
      BY <2>1, <3>2, <3>3 DEF TakeFirst
    <3>5. CASE data' = <<DataOf(m)>> /\ Ask("segment", 0, part)
      <4>1. Len(data') = 1 /\ data'[1] = Part(Obj, 1, stored[Obj]) /\ toggle' = 0 /\ phase' = "segment" /\ pc' = "empty"
        BY <3>2, <3>5 DEF Ask
      <4>2. InSession'
        BY <1>2, <2>1, <3>1, <4>1 DEF InSession, SessionAt, NextPart, TheValue, Obj
      <4>3. ReadSoFar'
        BY <1>2, <1>5, <2>2, <4>1 DEF ReadSoFar, Obj
      <4> QED  BY <1>4, <3>5, <4>1, <4>2, <4>3
    <3> QED  BY <1>3, <3>4, <3>5
  <2>3. CASE Obj \notin Long
    <3>1. m = Value("whole", Obj, 1)
      BY <1>7, <2>3 DEF AnswersFirst
    <3>2. m.kind = "whole" /\ DataOf(m) = Part(Obj, 1, stored[Obj])
      BY <3>1 DEF Value, DataOf, Part
    <3>3. HasIndex(m)
      BY <3>1, <3>2 DEF HasIndex, Value, Obj
    <3>4. Return(FALSE) \/ (data' = <<DataOf(m)>> /\ Return(TRUE))
      BY <2>1, <3>2, <3>3 DEF TakeFirst
    <3>5. CASE data' = <<DataOf(m)>> /\ Return(TRUE)
      <4>1. data' = [n \in 1 .. 1 |-> Part(Obj, n, stored[Obj])]
        BY <3>2, <3>5
      <4>2. Exact'
        BY <1>2, <2>1, <2>3, <4>1 DEF Exact, ValueOf, Obj
      <4> QED  BY <1>3, <3>5, <4>2
    <3> QED  BY <1>3, <3>4, <3>5
  <2> QED  BY <2>2, <2>3
<1>8. CASE AnswersWrite(m)
  <2>1. phase = "init" /\ job.op = "write" /\ TakeConfirmation(m) /\ m = [kind |-> "written", obj |-> Obj]
    BY <1>1, <1>8 DEF AnswersWrite, Take
  <2>2. HasObject(m)
    BY <2>1 DEF HasObject, Obj
  <2>3. CASE Obj \in Long
    <3>1. Ask("segment", 0, 2) /\ SessionAt(2, 0)
      BY <1>8, <2>1, <2>2, <2>3 DEF AnswersWrite, TakeConfirmation, Obj
    <3>2. part' = 2 /\ toggle' = 0 /\ phase' = "segment" /\ pc' = "empty"
      BY <3>1 DEF Ask
    <3>3. InSession'
      BY <1>2, <2>1, <3>1, <3>2 DEF InSession, SessionAt, NextPart, TheValue, Obj
    <3>4. ReadSoFar'
      BY <1>2, <2>1, <2>3 DEF ReadSoFar, Obj
    <3> QED  BY <1>4, <3>1, <3>2, <3>3, <3>4
  <2>4. CASE Obj \notin Long
    <3>1. Return(TRUE) \/ Return(FALSE)
      BY <2>1, <2>2, <2>4 DEF TakeConfirmation, Obj
    <3>2. stored[Obj] = job.v
      BY <1>8, <2>4 DEF AnswersWrite
    <3>3. Exact'
      BY <1>2, <2>1, <3>2 DEF Exact, Obj
    <3> QED  BY <1>3, <3>1, <3>3
  <2> QED  BY <2>3, <2>4
<1>9. CASE AnswersSegment(m)
  <2>1. phase = "segment" /\ job.op = "read" /\ TakeSegment(m) /\ m = Value("segment", Obj, NextPart)
    BY <1>1, <1>9 DEF AnswersSegment, Take
  <2>2. m.kind = "segment" /\ DataOf(m) = Part(Obj, NextPart, stored[Obj]) /\ (m.last <=> Obj \notin Long \/ NextPart = Parts)
    BY <2>1 DEF Value, DataOf, Part
  <2>3. Obj \in Long /\ Len(data) \in 1 .. Parts - 1 /\ (\A k \in 1 .. Len(data) : data[k] = Part(Obj, k, stored[Obj]))
        /\ NextPart = Len(data) + 1
    BY <1>1, <2>1 DEF ReadSoFar, NextPart
  <2>4. data' = Append(data, DataOf(m))
    BY <2>1, <2>2 DEF TakeSegment
  <2>5. Len(data') = NextPart /\ DOMAIN data' = 1 .. NextPart /\ (\A k \in 1 .. Len(data) : data'[k] = data[k])
        /\ data'[NextPart] = DataOf(m)
    <3>1. data \in Seq(PartsRead) /\ DataOf(m) \in PartsRead
      BY <1>1, <2>2, DataType, PartType
    <3> QED  BY <2>3, <2>4, <3>1
  <2>6. ASSUME NEW k \in 1 .. NextPart PROVE data'[k] = Part(Obj, k, stored[Obj])
    <3>1. CASE k = NextPart
      BY <2>2, <2>5, <3>1
    <3>2. CASE k \in 1 .. Len(data)
      BY <2>3, <2>5, <3>2
    <3> QED  BY <2>3, <3>1, <3>2
  <2>7. CASE NextPart # Parts
    <3>1. AskNext
      BY <2>1, <2>2, <2>3, <2>7 DEF TakeSegment
    <3>2. Ask("segment", 1 - toggle, part)
      BY <2>1, <3>1 DEF AskNext
    <3>3. toggle' = 1 - toggle /\ phase' = "segment" /\ pc' = "empty"
      BY <3>2 DEF Ask
    <3>4. SessionAt(NextPart + 1, 1 - toggle)
      BY <1>5, <1>9, <2>3, <2>7 DEF AnswersSegment
    <3>5. InSession'
      BY <1>2, <2>1, <2>5, <3>3, <3>4 DEF InSession, SessionAt, NextPart, TheValue, Obj
    <3>6. NextPart \in 1 .. Parts - 1
      BY <1>5, <2>3, <2>7
    <3>7. ReadSoFar'
      BY <1>2, <2>3, <2>5, <2>6, <3>6 DEF ReadSoFar, Obj
    <3> QED  BY <1>4, <3>2, <3>3, <3>5, <3>7
  <2>8. CASE NextPart = Parts
    <3>1. Return(TRUE)
      BY <2>1, <2>2, <2>8 DEF TakeSegment
    <3>2. data' = [n \in 1 .. Parts |-> Part(Obj, n, stored[Obj])]
      <4>1. data' \in Seq(PartsRead)
        BY <1>1, TakeType
      <4> QED  BY <2>5, <2>6, <2>8, <4>1
    <3>3. Exact'
      BY <1>2, <2>1, <2>3, <3>2 DEF Exact, ValueOf, Obj
    <3> QED  BY <1>3, <3>1, <3>3
  <2> QED  BY <2>7, <2>8
<1>10. CASE AnswersPart(m)
  <2>1. phase = "segment" /\ job.op = "write" /\ TakeTaken(m) /\ m.kind = "taken" /\ NextPart = part
    BY <1>1, <1>10 DEF AnswersPart, Take, NextPart
  <2>2. part \in 1 .. Parts
    BY DEF TypeOK
  <2>3. CASE part # Parts
    <3>1. Ask("segment", 1 - toggle, part + 1)
      BY <2>1, <2>3 DEF TakeTaken, LastSent, AskNext
    <3>2. part' = part + 1 /\ toggle' = 1 - toggle /\ phase' = "segment" /\ pc' = "empty"
      BY <3>1 DEF Ask
    <3>3. SessionAt(part + 1, 1 - toggle)
      BY <1>5, <1>10, <2>1, <2>2, <2>3 DEF AnswersPart
    <3>4. InSession'
      BY <1>2, <2>1, <3>2, <3>3 DEF InSession, SessionAt, NextPart, TheValue, Obj
    <3>5. ReadSoFar'
      BY <1>1, <1>2, <2>1 DEF ReadSoFar, Obj
    <3> QED  BY <1>4, <3>1, <3>2, <3>4, <3>5
  <2>4. CASE part = Parts
    <3>1. Return(TRUE) \/ Return(FALSE)
      BY <2>1, <2>4 DEF TakeTaken, LastSent
    <3>2. stored[Obj] = job.v
      BY <1>5, <1>10, <2>1, <2>4 DEF AnswersPart
    <3>3. Exact'
      BY <1>2, <2>1, <3>2 DEF Exact, Obj
    <3> QED  BY <1>3, <3>1, <3>3
  <2> QED  BY <2>3, <2>4
<1> QED  BY <1>1, <1>6, <1>7, <1>8, <1>9, <1>10 DEF Answers

\* The other steps of the master: the request is sent, or sent again, or the
\* answer is waited for.
LEMMA PassMailbox ==
  ASSUME TypeOK, Master, ~ Fetch, Passes
  PROVE  /\ pc' # "empty"
         /\ \/ inbox' = inbox /\ (pc' = "write" => inbox = Empty)
            \/ pc = "write" /\ inbox = Empty /\ inbox' = Request
         /\ pc' = "write" => pc \in {"empty", "write"}
         /\ pc \in {"empty", "write"} => pc' = "write" \/ inbox' = Request
<1>1. Fails => FALSE
  <2>1. Fails => pc' = "empty" \/ pc' = "done" \/ fails' = fails + 1
    BY DEF Fails, Ask
  <2>2. fails \in Nat /\ fails' = fails
    BY SdoAssumption DEF TypeOK, Passes
  <2>3. Fails /\ phase # "drain" => fails' = fails + 1
    BY DEF Fails
  <2>4. Fails /\ phase = "drain" => phase' = "init"
    BY FailsEnds
  <2> QED  BY <2>2, <2>3, <2>4 DEF Passes
<1>2. CASE InboxEmpty
  BY <1>2 DEF InboxEmpty
<1>3. CASE Written
  BY <1>3 DEF Written
<1>4. CASE WriteAnswerLost
  BY <1>1, <1>4 DEF WriteAnswerLost, master, call
<1>5. CASE OutboxFull
  BY <1>5 DEF OutboxFull
<1>6. CASE FetchEmergency
  BY <1>1, <1>6 DEF FetchEmergency, master, call
<1>7. CASE FetchLost
  BY <1>7 DEF FetchLost
<1>8. CASE Repeat
  BY <1>1, <1>8 DEF Repeat
<1> QED
  BY <1>1, <1>2, <1>3, <1>4, <1>5, <1>6, <1>7, <1>8 DEF Master, MailSend, MailReceive, InboxFull, NotWritten, NoMail, NoRepeat

LEMMA PassKeeps ==
  ASSUME TypeOK, LastIsOut, OneRequest, ReadSoFar, Master, ~ Fetch, Passes
  PROVE  OneRequest' /\ ReadSoFar'
<1>1. /\ UNCHANGED <<phase, job, toggle, cnt, part, data, busy, lastcnt, session, stored, lastout>>
      /\ pc # "done" /\ pc' # "done"
  BY DEF Passes, slave
<1>2. Unread' = Unread \/ (Calm /\ Calm')
  <2>1. CASE outbox = Emergency /\ outbox' = Empty /\ pc = "fetch" /\ pc' = "fetch"
    <3>1. Emergency # Empty
      BY DEF Emergency, Empty
    <3>2. lastout = Emergency
      BY <2>1, <3>1 DEF LastIsOut
    <3> QED  BY <1>1, <2>1, <3>1, <3>2 DEF Calm, Unread, Emergency
  <2>2. ~ Fails
    <3>1. fails \in Nat /\ fails' = fails
      BY SdoAssumption DEF TypeOK, Passes
    <3>2. Fails /\ phase # "drain" => fails' = fails + 1
      BY DEF Fails
    <3>3. Fails /\ phase = "drain" => phase' = "init"
      BY FailsEnds
    <3> QED  BY <1>1, <3>1, <3>2, <3>3
  <2> QED  BY <2>1, <2>2, PassOrNot
<1>3. (Calm => Calm') /\ (Calm \/ Answers(Unread) => Calm' \/ Answers(Unread)')
  <2>1. CASE Unread' = Unread
    <3>1. Calm => Calm'
      BY <2>1 DEF Calm, Emergency
    <3>2. Answers(Unread) => Answers(Unread)'
      BY <1>1, <2>1 DEF Answers, AnswersFirst, AnswersWrite, AnswersSegment, AnswersPart, Value, SessionAt, NextPart, TheValue, Obj
    <3> QED  BY <3>1, <3>2
  <2> QED  BY <1>2, <2>1
<1>4. (InSession => InSession') /\ Request' = Request /\ Between' = Between
  BY <1>1 DEF InSession, SessionAt, NextPart, TheValue, Obj, Request, Between
<1>5. /\ pc' # "empty"
      /\ \/ inbox' = inbox /\ (pc' = "write" => inbox = Empty)
         \/ pc = "write" /\ inbox = Empty /\ inbox' = Request
      /\ pc' = "write" => pc \in {"empty", "write"}
      /\ pc \in {"empty", "write"} => pc' = "write" \/ inbox' = Request
  BY PassMailbox
<1>6. ReadSoFar'
  BY <1>1 DEF ReadSoFar, Obj
<1>7. CASE Between
  <2>1. Settled /\ pc # "write"
    BY <1>1, <1>7 DEF OneRequest, Between, TypeOK
  <2>2. Settled'
    BY <1>1, <1>3, <1>5, <2>1 DEF Settled
  <2> QED  BY <1>4, <1>6, <1>7, <2>2 DEF OneRequest
<1>8. CASE ~ Between
  <2>1. Exchange
    BY <1>8 DEF OneRequest
  <2>2. Request # Empty
    BY DEF Request, Empty
  <2>3. CASE Unsent
    <3>1. Unsent' \/ Sent'
      BY <1>1, <1>3, <1>4, <1>5, <2>3 DEF Unsent, Sent
    <3> QED  BY <1>4, <1>6, <1>8, <3>1 DEF OneRequest, Exchange
  <2>4. CASE Sent
    <3>1. Sent'
      BY <1>1, <1>3, <1>4, <1>5, <2>2, <2>4 DEF Sent
    <3> QED  BY <1>4, <1>6, <1>8, <3>1 DEF OneRequest, Exchange
  <2>5. CASE InWork
    <3>1. InWork'
      BY <1>1, <1>3, <1>4, <1>5, <2>5 DEF InWork
    <3> QED  BY <1>4, <1>6, <1>8, <3>1 DEF OneRequest, Exchange
  <2>6. CASE Answered
    <3>1. Answered'
      BY <1>1, <1>3, <1>4, <1>5, <2>6 DEF Answered
    <3> QED  BY <1>4, <1>6, <1>8, <3>1 DEF OneRequest, Exchange
  <2> QED  BY <2>1, <2>3, <2>4, <2>5, <2>6 DEF Exchange
<1> QED  BY <1>7, <1>8

\* The slave takes a request once: a copy of it has its count.
LEMMA SlaveTakesOnce ==
  ASSUME TypeOK, OneRequest, ReadSoFar, SlaveTakes
  PROVE  OneRequest' /\ ReadSoFar' /\ stored' = stored
<1>1. /\ inbox # Empty /\ busy = Empty /\ inbox' = Empty /\ lastcnt' = inbox.cnt
      /\ busy' = (IF inbox.cnt = lastcnt THEN Empty ELSE inbox)
      /\ UNCHANGED <<pc, phase, job, toggle, cnt, part, data, outbox, lastout, session, stored>>
  BY DEF SlaveTakes, master, call
<1>2. Unread' = Unread /\ Calm' = Calm /\ InSession' = InSession /\ Request' = Request /\ Between' = Between
  BY <1>1 DEF Unread, Calm, Emergency, InSession, SessionAt, NextPart, TheValue, Obj, Request, Between
<1>3. Answers(Unread) => Answers(Unread)'
  BY <1>1, <1>2 DEF Answers, AnswersFirst, AnswersWrite, AnswersSegment, AnswersPart, Value, SessionAt, NextPart, TheValue, Obj
<1>4. Request.cnt = cnt /\ Request # Empty
  BY DEF Request, Empty
<1>5. ReadSoFar'
  BY <1>1 DEF ReadSoFar, Obj
<1>6. CASE Between
  <2>1. Settled'
    BY <1>1, <1>2, <1>6 DEF OneRequest, Settled
  <2> QED  BY <1>1, <1>2, <1>5, <1>6, <2>1 DEF OneRequest
<1>7. CASE ~ Between
  <2>1. CASE Unsent
    <3>1. Unsent'
      BY <1>1, <1>2, <2>1 DEF Unsent
    <3> QED  BY <1>1, <1>2, <1>5, <1>7, <3>1 DEF OneRequest, Exchange
  <2>2. CASE Sent
    <3>1. InWork'
      BY <1>1, <1>2, <1>4, <2>2 DEF Sent, InWork
    <3> QED  BY <1>1, <1>2, <1>5, <1>7, <3>1 DEF OneRequest, Exchange
  <2>3. CASE Answered
    <3>1. Answered'
      BY <1>1, <1>2, <1>3, <1>4, <2>3 DEF Answered
    <3> QED  BY <1>1, <1>2, <1>5, <1>7, <3>1 DEF OneRequest, Exchange
  <2> QED  BY <1>1, <1>4, <1>7, <2>1, <2>2, <2>3 DEF OneRequest, Exchange, InWork
<1> QED  BY <1>6, <1>7

\* The slave answers the request it has in work.
LEMMA SlaveAnswersIt ==
  ASSUME TypeOK, OneRequest, ReadSoFar, SlaveAnswers
  PROVE  OneRequest' /\ ReadSoFar' /\ pc # "done"
<1>1. /\ busy # Empty /\ outbox = Empty /\ busy' = Empty /\ UNCHANGED <<call, inbox, lastcnt>>
      /\ outbox' = lastout' /\ outbox' # Empty
  BY AnswerShape DEF SlaveAnswers
<1>2. UNCHANGED <<pc, phase, job, toggle, cnt, part, data, inbox, lastcnt>>
  BY <1>1 DEF call
<1>3. ~ Between /\ InWork
  BY <1>1 DEF OneRequest, Settled, Exchange, Unsent, Sent, Answered
<1>4. /\ busy = Request /\ pc # "done" /\ phase \in {"init", "segment"} /\ pc # "empty" /\ inbox \in {Empty, Request}
      /\ lastcnt = cnt /\ InSession
  BY <1>3 DEF InWork, Between, TypeOK
<1>5. /\ busy.kind = (IF phase = "init" THEN job.op ELSE IF job.op = "read" THEN "segment" ELSE "part")
      /\ busy.obj = Obj /\ busy.n = part /\ busy.v = job.v /\ busy.toggle = toggle
      /\ Obj \in Objects /\ job.op \in {"read", "write"} /\ stored \in [Objects -> Values] /\ part \in 1 .. Parts
  BY <1>4 DEF Request, Obj, TypeOK, Jobs
<1>6. Unread' = outbox' /\ Request' = Request
  BY <1>1, <1>2 DEF Unread, Request
<1>7. \A m : Puts(m) => outbox' = m
  BY DEF Puts
<1>8. Answers(outbox)' => OneRequest'
  <2>1. Answers(outbox)' => Answers(Unread)'
    BY <1>6
  <2>2. Answers(outbox)' => Answered'
    BY <1>1, <1>2, <1>4, <1>6, <2>1 DEF Answered
  <2> QED  BY <1>2, <1>3, <2>2 DEF OneRequest, Exchange, Between
<1>9. (stored' = stored \/ job.op = "write" \/ phase = "init") => ReadSoFar'
  BY <1>2, <1>3 DEF ReadSoFar, Obj, Between
<1>10. CASE SlaveReads
  <2>1. busy.kind = "read" /\ phase = "init" /\ job.op = "read" /\ stored' = stored
    BY <1>4, <1>5, <1>10 DEF SlaveReads
  <2>2. CASE Obj \in Long
    <3>1. outbox' = Value("first", Obj, 1) /\ session' = Session("read", 2, 0)
      BY <1>5, <1>7, <1>10, <2>2 DEF SlaveReads
    <3>2. Session("read", 2, 0) = [op |-> "read", obj |-> Obj, n |-> 2, toggle |-> 0, v |-> stored[Obj]]
      BY <1>5 DEF Session
    <3>3. AnswersFirst(outbox)'
      BY <1>2, <2>1, <2>2, <3>1, <3>2 DEF AnswersFirst, SessionAt, TheValue, Value, Obj
    <3> QED  BY <1>4, <1>8, <1>9, <2>1, <3>3 DEF Answers
  <2>3. CASE Obj \notin Long
    <3>1. outbox' = Value("whole", Obj, 1)
      BY <1>5, <1>7, <1>10, <2>3 DEF SlaveReads
    <3>2. AnswersFirst(outbox)'
      BY <1>2, <2>1, <2>3, <3>1 DEF AnswersFirst, Value, Obj
    <3> QED  BY <1>4, <1>8, <1>9, <2>1, <3>2 DEF Answers
  <2> QED  BY <2>2, <2>3
<1>11. CASE SlaveWrites
  <2>1. phase = "init" /\ job.op = "write" /\ outbox' = [kind |-> "written", obj |-> Obj]
    BY <1>4, <1>5, <1>7, <1>11 DEF SlaveWrites
  <2>2. CASE Obj \in Long
    <3>1. session' = Session("write", 2, 0)
      BY <1>5, <1>11, <2>2 DEF SlaveWrites
    <3>2. Session("write", 2, 0) = [op |-> "write", obj |-> Obj, n |-> 2, toggle |-> 0, v |-> job.v]
      BY <1>5 DEF Session
    <3>3. AnswersWrite(outbox)'
      BY <1>2, <2>1, <2>2, <3>1, <3>2 DEF AnswersWrite, SessionAt, TheValue, Obj
    <3> QED  BY <1>4, <1>8, <1>9, <2>1, <3>3 DEF Answers
  <2>3. CASE Obj \notin Long
    <3>1. stored'[Obj] = job.v
      BY <1>5, <1>11, <2>3 DEF SlaveWrites
    <3>2. AnswersWrite(outbox)'
      BY <1>2, <2>1, <2>3, <3>1 DEF AnswersWrite, Obj
    <3> QED  BY <1>4, <1>8, <1>9, <2>1, <3>2 DEF Answers
  <2> QED  BY <2>2, <2>3
<1>12. CASE SlaveSegments
  <2>1. phase = "segment" /\ job.op = "read" /\ session # Empty /\ outbox' = Value("segment", session.obj, session.n)
        /\ NextInSession /\ stored' = stored
    BY <1>4, <1>5, <1>7, <1>12 DEF SlaveSegments, Continues
  <2>2. session = [op |-> "read", obj |-> Obj, n |-> NextPart, toggle |-> toggle, v |-> stored[Obj]]
    BY <1>4, <2>1 DEF InSession, SessionAt, TheValue
  <2>3. outbox' = Value("segment", Obj, NextPart)
    BY <2>1, <2>2
  <2>4. NextPart # Parts => session' = [op |-> "read", obj |-> Obj, n |-> NextPart + 1, toggle |-> 1 - toggle, v |-> stored[Obj]]
    BY <2>1, <2>2 DEF NextInSession
  <2>5. Parts \in Nat /\ NextPart \in Nat /\ NextPart' = NextPart
    BY <1>2, <2>1, DataType, SdoAssumption DEF NextPart
  <2>6. AnswersSegment(outbox)'
    BY <1>2, <2>1, <2>3, <2>4, <2>5 DEF AnswersSegment, SessionAt, TheValue, Value, Obj
  <2> QED  BY <1>4, <1>8, <1>9, <2>1, <2>6 DEF Answers
<1>13. CASE SlaveParts
  <2>1. phase = "segment" /\ job.op = "write" /\ session # Empty /\ outbox' = [kind |-> "taken"] /\ NextInSession
        /\ stored' = IF session.n = Parts THEN [stored EXCEPT ![session.obj] = session.v] ELSE stored
    BY <1>4, <1>5, <1>7, <1>13 DEF SlaveParts, Continues
  <2>2. session = [op |-> "write", obj |-> Obj, n |-> part, toggle |-> toggle, v |-> job.v]
    BY <1>4, <2>1 DEF InSession, SessionAt, TheValue, NextPart
  <2>3. part # Parts => session' = [op |-> "write", obj |-> Obj, n |-> part + 1, toggle |-> 1 - toggle, v |-> job.v]
    BY <2>1, <2>2 DEF NextInSession
  <2>4. part = Parts => stored'[Obj] = job.v
    BY <1>5, <2>1, <2>2
  <2>5. Parts \in Nat
    BY SdoAssumption
  <2>6. CASE part # Parts
    <3>1. AnswersPart(outbox)'
      BY <1>2, <1>5, <2>1, <2>3, <2>5, <2>6 DEF AnswersPart, SessionAt, TheValue, NextPart, Obj
    <3> QED  BY <1>4, <1>8, <1>9, <2>1, <3>1 DEF Answers
  <2>7. CASE part = Parts
    <3>1. AnswersPart(outbox)'
      BY <1>2, <1>5, <2>1, <2>4, <2>5, <2>7 DEF AnswersPart, NextPart, Obj
    <3> QED  BY <1>4, <1>8, <1>9, <2>1, <3>1 DEF Answers
  <2> QED  BY <2>6, <2>7
<1>14. CASE SlaveAborts
  <2>1. outbox' = [kind |-> "abort", obj |-> Obj] /\ stored' = stored
    BY <1>5, <1>7, <1>14 DEF SlaveAborts
  <2>2. Answers(outbox)'
    BY <1>2, <2>1 DEF Answers, Obj
  <2> QED  BY <1>4, <1>8, <1>9, <2>1, <2>2
<1> QED  BY <1>10, <1>11, <1>12, <1>13, <1>14 DEF SlaveAnswers

\* An emergency comes in between.
LEMMA EmergencyKeeps ==
  ASSUME TypeOK, OneRequest, ReadSoFar, SlaveEmergency
  PROVE  OneRequest' /\ ReadSoFar'
<1>1. /\ outbox = Empty /\ outbox' = Emergency /\ lastout' = Emergency
      /\ UNCHANGED <<call, inbox, busy, lastcnt, session, stored>>
  BY DEF SlaveEmergency, Puts, Emergency
<1>2. UNCHANGED <<pc, phase, job, toggle, cnt, part, data, inbox, busy, lastcnt, session, stored>>
  BY <1>1 DEF call
<1>3. Calm'
  BY <1>1 DEF Calm, Unread, Emergency
<1>4. (InSession => InSession') /\ Request' = Request
  BY <1>2 DEF InSession, SessionAt, NextPart, TheValue, Obj, Request
<1>5. (Settled => Settled') /\ (Unsent => Unsent') /\ (Sent => Sent') /\ (InWork => InWork') /\ (Answered => Answered')
  BY <1>2, <1>3, <1>4 DEF Settled, Unsent, Sent, InWork, Answered
<1>6. Between' <=> Between
  BY <1>2 DEF Between
<1>7. OneRequest'
  BY <1>5, <1>6 DEF OneRequest, Exchange
<1> QED  BY <1>2, <1>7 DEF ReadSoFar, Obj

LEMMA TillFailureStep ==
  ASSUME TypeOK, LastIsOut, TillFailure, ExactTillFailure, [Next]_vars, fails' = 0
  PROVE  OneRequest' /\ ReadSoFar' /\ (pc' = "done" /\ ok' => Exact')
<1>1. CASE Call
  <2>1. fails = 0
    BY <1>1 DEF Call
  <2> QED  BY <1>1, <2>1, CallSettles DEF TillFailure
<1>2. CASE Fetch
  <2>1. fails' = fails
    BY <1>2, TakeType DEF Fetch, TypeOK
  <2> QED  BY <1>2, <2>1, AnswerTaken DEF TillFailure
<1>3. CASE ~ Call /\ ~ Fetch
  <2>1. fails = 0 /\ data' = data
    BY <1>3, DataKept
  <2>2. OneRequest /\ ReadSoFar /\ (pc = "done" /\ ok => Exact)
    BY <2>1 DEF TillFailure, ExactTillFailure
  <2>3. CASE Master /\ Passes
    BY <1>3, <2>2, <2>3, PassKeeps DEF Passes
  <2>4. CASE Master /\ ~ Passes
    <3>1. Fails
      BY <1>3, <2>4, PassOrNot
    <3> QED  BY <1>3, <2>2, <2>4, <3>1, DrainEnds
  <2>5. CASE SlaveAnswers
    <3>1. pc' = pc
      BY <2>5 DEF SlaveAnswers, call
    <3> QED  BY <2>2, <2>5, <3>1, SlaveAnswersIt
  <2>6. CASE SlaveTakes
    <3>1. OneRequest' /\ ReadSoFar' /\ stored' = stored
      BY <2>2, <2>6, SlaveTakesOnce
    <3>2. UNCHANGED <<pc, ok, job, data>>
      BY <2>6 DEF SlaveTakes, master, call
    <3>3. Exact => Exact'
      BY <3>1, <3>2 DEF Exact, ValueOf
    <3> QED  BY <2>2, <3>1, <3>2, <3>3
  <2>7. CASE SlaveEmergency
    <3>1. OneRequest' /\ ReadSoFar'
      BY <2>2, <2>7, EmergencyKeeps
    <3>2. UNCHANGED <<pc, ok, job, data, stored>>
      BY <2>7 DEF SlaveEmergency, call
    <3>3. Exact => Exact'
      BY <3>2 DEF Exact, ValueOf
    <3> QED  BY <2>2, <3>1, <3>2, <3>3
  <2>8. CASE UNCHANGED vars
    <3>1. UNCHANGED <<pc, phase, job, toggle, cnt, part, data, ok, inbox, busy, lastcnt, outbox, lastout, session, stored>>
      BY <2>8 DEF vars, master, call, slave
    <3>2. Unread' = Unread /\ (Calm => Calm') /\ (InSession => InSession') /\ Request' = Request
      BY <3>1 DEF Unread, Calm, Emergency, InSession, SessionAt, NextPart, TheValue, Obj, Request
    <3>3. Answers(Unread) => Answers(Unread)'
      BY <3>1, <3>2 DEF Answers, AnswersFirst, AnswersWrite, AnswersSegment, AnswersPart, Value, SessionAt, NextPart, TheValue, Obj
    <3>4. (Settled => Settled') /\ (Unsent => Unsent') /\ (Sent => Sent') /\ (InWork => InWork') /\ (Answered => Answered')
      BY <3>1, <3>2, <3>3 DEF Settled, Unsent, Sent, InWork, Answered
    <3>5. Between' <=> Between
      BY <3>1 DEF Between
    <3>6. OneRequest'
      BY <2>2, <3>4, <3>5 DEF OneRequest, Exchange
    <3>7. ReadSoFar'
      BY <2>2, <3>1 DEF ReadSoFar, Obj
    <3>8. Exact => Exact'
      BY <3>1 DEF Exact, ValueOf
    <3> QED  BY <2>2, <3>1, <3>6, <3>7, <3>8
  <2> QED  BY <1>3, <2>3, <2>4, <2>5, <2>6, <2>7, <2>8 DEF Next, Slave
<1> QED  BY <1>1, <1>2, <1>3

\* Nor is anything out of order then, in a call that has failed to read all.
LEMMA OrderTillFailure ==
  ASSUME TypeOK, LastIsOut, SessionFollows, TillFailure, fails = 0 => InOrder, [Next]_vars
  PROVE  fails' = 0 => InOrder'
<1> SUFFICES ASSUME fails' = 0 PROVE InOrder'
  OBVIOUS
<1>1. CASE Call
  BY <1>1 DEF Call, InOrder
<1>2. CASE Fetch
  <2>1. fails' = fails
    BY <1>2, TakeType DEF Fetch, TypeOK
  <2>2. OneRequest /\ InOrder
    BY <2>1 DEF TillFailure
  <2>3. outbox \in Messages /\ Take(outbox) /\ Answers(outbox)
    BY <1>2, <2>2, TakesAnswer
  <2>4. lastout = outbox
    BY <1>2, <2>3 DEF Fetch, LastIsOut
  <2>5. outbox.kind \in {"whole", "first"} => outbox.n = 1
    BY <2>4 DEF SessionFollows
  <2>6. outbox.kind = "segment" /\ phase = "segment" /\ job.op = "read" => outbox.n = Len(data) + 1
    <3> SUFFICES ASSUME outbox.kind = "segment", phase = "segment", job.op = "read" PROVE outbox.n = Len(data) + 1
      OBVIOUS
    <3>1. AnswersSegment(outbox)
      BY <2>3 DEF Answers, AnswersFirst, AnswersWrite, AnswersPart
    <3> QED  BY <3>1 DEF AnswersSegment, Value, NextPart
  <2> QED  BY <2>2, <2>3, <2>5, <2>6, TakeOrder
<1>3. CASE ~ Call /\ ~ Fetch
  <2>1. data' = data /\ InOrder
    BY <1>3, DataKept
  <2> QED  BY <2>1 DEF InOrder
<1> QED  BY <1>1, <1>2, <1>3

----------------------------------------------------------------------------
(* The invariant, and what follows from it.                                 *)

LEMMA Initially == Init => IInv
<1> SUFFICES ASSUME Init PROVE IInv
  OBVIOUS
<1>1. TypeOK
  BY TypeInit
<1>2. Empty.kind = "empty"
  BY DEF Empty
<1>3. LastIsOut /\ SessionFollows /\ NextFollows
  BY <1>2 DEF Init, LastIsOut, SessionFollows, NextFollows
<1>4. PartsInOrder
  BY DEF Init, PartsInOrder
<1>5. OneRequest /\ ReadSoFar /\ ExactTillFailure
  BY DEF Init, OneRequest, Between, Settled, Calm, Unread, ReadSoFar, ExactTillFailure
<1> QED  BY <1>1, <1>3, <1>4, <1>5 DEF IInv, TillFailure

LEMMA Inductive == IInv /\ [Next]_vars => IInv'
<1> SUFFICES ASSUME IInv, [Next]_vars PROVE IInv'
  OBVIOUS
<1>1. TypeOK /\ LastIsOut /\ SessionFollows /\ NextFollows /\ PartsInOrder /\ TillFailure /\ ExactTillFailure
  BY DEF IInv
<1>2. TypeOK' /\ LastIsOut' /\ SessionFollows'
  BY <1>1, TypeStep, LastIsOutStep, SessionFollowsStep
<1>3. NextFollows'
  BY <1>1, <1>2, NextFollowsStep
<1>4. PartsInOrder'
  <2>1. (smooth => InOrder) /\ (fails = 0 => InOrder)
    BY <1>1 DEF PartsInOrder, InOrder
  <2>2. smooth' => InOrder'
    BY <1>1, <2>1, SmoothOrder
  <2>3. fails' = 0 => InOrder'
    BY <1>1, <2>1, OrderTillFailure
  <2> QED  BY <2>2, <2>3 DEF PartsInOrder, InOrder
<1>5. fails' = 0 => OneRequest' /\ ReadSoFar' /\ (pc' = "done" /\ ok' => Exact')
  BY <1>1, TillFailureStep
<1>6. TillFailure' /\ ExactTillFailure'
  BY <1>5 DEF TillFailure, ExactTillFailure
<1> QED  BY <1>2, <1>3, <1>4, <1>6 DEF IInv

LEMMA Invariant == Spec => []IInv
BY Initially, Inductive, PTL DEF Spec

\* ecx_SDOread puts a value together in order and without a gap, for values of
\* any length, and after any number of calls that failed: what they left with
\* the slave is told apart by the kind of the message and the order of requests,
\* as long as no exchange of this call fails and no message is overtaken.
THEOREM SegmentsComeInOrder == Spec => []PartsInOrder
<1>1. IInv => PartsInOrder
  BY DEF IInv
<1> QED  BY <1>1, Invariant, PTL

\* Until an exchange has failed, a read that reports success has the whole value
\* of its object, and a write that does has been stored by the slave, whatever
\* datagrams were lost, sent twice and repeated, whatever was refused.
THEOREM SuccessIsExact == Spec => []ExactTillFailure
<1>1. IInv => ExactTillFailure
  BY DEF IInv
<1> QED  BY <1>1, Invariant, PTL
----------------------------------------------------------------------------
(* The error list, where an SDO call that is refused leaves its error, for   *)
(* every length of the ring and every set of errors: types, no error behind  *)
(* a flag that is down, and that the ring is a queue of the last EC_MAXELIST. *)

(* Types: heads and tails stay in the ring, whatever is pushed and popped.  *)
THEOREM ListTypeCorrect == ListSpec => []ListTypeOK
<1>1. ListInit => ListTypeOK
  <2> DEFINE empty == [i \in Slots |-> Blank]
  <2>1. 0 \in Slots
    BY ListAssumption DEF Slots
  <2>2. empty \in [Slots -> Errors \cup {Blank}]
    OBVIOUS
  <2>3. ListInit => elist = [head |-> 0, tail |-> 0, Error |-> empty]
    BY DEF ListInit
  <2> HIDE DEF empty
  <2>4. ListInit => elist \in [head : Slots, tail : Slots, Error : [Slots -> Errors \cup {Blank}]]
    BY <2>1, <2>2, <2>3
  <2> QED
    BY <2>4 DEF ListInit, ListTypeOK
<1>2. ListTypeOK /\ [ListNext]_listVars => ListTypeOK'
  <2> SUFFICES ASSUME ListTypeOK, [ListNext]_listVars
               PROVE  ListTypeOK'
    OBVIOUS
  <2> USE ListAssumption
  <2>1. ASSUME NEW e \in Errors, ecx_pusherror(e), at' \in {"idle", "draining", "read"}
        PROVE  ListTypeOK'
    <3>1. Wrap(elist.head + 1) \in Slots /\ Wrap(elist.tail + 1) \in Slots
      BY DEF ListTypeOK, Wrap, Slots
    <3>2. [elist.Error EXCEPT ![elist.head] = e] \in [Slots -> Errors \cup {Blank}]
      BY DEF ListTypeOK
    <3> QED
      BY <2>1, <3>1, <3>2 DEF ListTypeOK, ecx_pusherror
  <2>2. ASSUME ecx_poperror, at' \in {"idle", "draining", "read"}
        PROVE  ListTypeOK'
    <3>1. Wrap(elist.tail + 1) \in Slots
      BY DEF ListTypeOK, Wrap, Slots
    <3> QED
      BY <2>2, <3>1 DEF ListTypeOK, ecx_poperror
  <2>3. CASE Report
    BY <2>1, <2>3 DEF Report, ListTypeOK
  <2>4. CASE Drain
    BY <2>2, <2>4 DEF Drain, ListTypeOK
  <2>5. CASE ReadError
    BY <2>1, <2>5 DEF ReadError
  <2>6. CASE ShowError
    BY <2>2, <2>6 DEF ShowError
  <2>7. CASE DrainStart \/ DrainEnd \/ ReadValue \/ ShowValue \/ UNCHANGED listVars
    BY <2>7 DEF DrainStart, DrainEnd, ReadValue, ShowValue, ListTypeOK, listVars
  <2> QED
    BY <2>3, <2>4, <2>5, <2>6, <2>7 DEF ListNext
<1> QED
  BY <1>1, <1>2, PTL DEF ListSpec

(* While an error waits the flag is up, so the next drain loop finds it.     *)
THEOREM NoErrorHidden == ListSpec => []NoneHidden
<1>1. ListInit => NoneHidden
  BY DEF ListInit, NoneHidden, HasErrors
<1>2. NoneHidden /\ [ListNext]_listVars => NoneHidden'
  BY DEF NoneHidden, HasErrors, ListNext, listVars, Report, DrainStart, Drain, DrainEnd, ReadValue,
         ReadError, ShowError, ShowValue, ecx_pusherror, ecx_poperror
<1> QED
  BY <1>1, <1>2, PTL DEF ListSpec

----------------------------------------------------------------------------
(* The contents are a sequence of at most EC_MAXELIST errors.               *)
LEMMA ContentsType ==
  ListTypeOK => /\ Waiting \in 0 .. EC_MAXELIST
            /\ \A i \in 0 .. EC_MAXELIST : Slot(i) \in Slots
            /\ Contents \in Seq(Errors \cup {Blank})
            /\ Len(Contents) = Waiting
<1> SUFFICES ASSUME ListTypeOK
             PROVE  /\ Waiting \in 0 .. EC_MAXELIST
                    /\ \A i \in 0 .. EC_MAXELIST : Slot(i) \in Slots
                    /\ Contents \in Seq(Errors \cup {Blank})
                    /\ Len(Contents) = Waiting
  OBVIOUS
<1> USE ListAssumption
<1>1. Waiting \in 0 .. EC_MAXELIST
  BY DEF ListTypeOK, Waiting, Slots
<1>2. \A i \in 0 .. EC_MAXELIST : Slot(i) \in Slots
  BY DEF ListTypeOK, Slot, Slots
<1>3. \A i \in 1 .. Waiting : elist.Error[Slot(i - 1)] \in Errors \cup {Blank}
  BY <1>1, <1>2 DEF ListTypeOK
<1> QED
  BY <1>1, <1>2, <1>3 DEF Contents

(* The same after a step.                                                    *)
LEMMA ContentsTypeNext ==
  ListTypeOK' => /\ Waiting' \in 0 .. EC_MAXELIST
             /\ \A i \in 0 .. EC_MAXELIST : Slot(i)' \in Slots
             /\ Contents' \in Seq(Errors \cup {Blank})
             /\ Len(Contents') = Waiting'
<1> SUFFICES ASSUME ListTypeOK'
             PROVE  /\ Waiting' \in 0 .. EC_MAXELIST
                    /\ \A i \in 0 .. EC_MAXELIST : Slot(i)' \in Slots
                    /\ Contents' \in Seq(Errors \cup {Blank})
                    /\ Len(Contents') = Waiting'
  OBVIOUS
<1> USE ListAssumption
<1>1. Waiting' \in 0 .. EC_MAXELIST
  BY DEF ListTypeOK, Waiting, Slots
<1>2. \A i \in 0 .. EC_MAXELIST : Slot(i)' \in Slots
  BY DEF ListTypeOK, Slot, Slots
<1>3. \A i \in 1 .. Waiting' : elist'.Error[Slot(i - 1)'] \in Errors \cup {Blank}
  BY <1>1, <1>2 DEF ListTypeOK
<1>4. Contents' = [i \in 1 .. Waiting' |-> elist'.Error[Slot(i - 1)']]
  BY DEF Contents
<1> QED
  BY <1>1, <1>2, <1>3, <1>4, SMTT(30)

(* A push appends to the contents, and drops the first of them when full.    *)
LEMMA PushAppends ==
  ASSUME ListTypeOK, ListTypeOK', NEW e \in Errors, ecx_pusherror(e)
  PROVE  Contents' = Append(IF Len(Contents) = EC_MAXELIST THEN Tail(Contents) ELSE Contents, e)
<1> USE ListAssumption
<1> DEFINE S   == Errors \cup {Blank}
           old == IF Len(Contents) = EC_MAXELIST THEN Tail(Contents) ELSE Contents
<1>1. /\ elist.head \in 0 .. EC_MAXELIST
      /\ elist.tail \in 0 .. EC_MAXELIST
      /\ elist.Error \in [Slots -> S]
  BY DEF ListTypeOK, Slots
<1>2. /\ elist'.head = Wrap(elist.head + 1)
      /\ elist'.tail = IF elist'.head = elist.tail THEN Wrap(elist.tail + 1) ELSE elist.tail
      /\ elist'.Error = [elist.Error EXCEPT ![elist.head] = e]
  BY DEF ecx_pusherror
<1>3. /\ Contents \in Seq(S) /\ Len(Contents) = Waiting /\ Waiting \in 0 .. EC_MAXELIST
      /\ \A i \in 0 .. EC_MAXELIST : Slot(i) \in Slots
  BY ContentsType
<1>4. /\ Contents' \in Seq(S) /\ Len(Contents') = Waiting' /\ Waiting' \in 0 .. EC_MAXELIST
      /\ \A i \in 0 .. EC_MAXELIST : Slot(i)' \in Slots
  BY ContentsTypeNext
<1>5. \A i \in 1 .. Waiting' : Contents'[i] = elist'.Error[Slot(i - 1)']
  BY DEF Contents
<1>6. \A i \in 1 .. Waiting : Contents[i] = elist.Error[Slot(i - 1)]
  BY DEF Contents
<1>7. CASE Waiting = EC_MAXELIST
  <2>1. elist.tail = Wrap(elist.head + 1)
    BY <1>1, <1>7 DEF Waiting, Wrap
  <2>2. elist'.head = elist.tail /\ elist'.tail = Wrap(elist.tail + 1)
    BY <1>2, <2>1
  <2>3. Waiting' = EC_MAXELIST
    BY <1>1, <2>1, <2>2 DEF Waiting, Wrap
  <2>4. Contents # <<>> /\ old = Tail(Contents)
    BY <1>3, <1>7
  <2>5. /\ old \in Seq(S)
        /\ Len(old) = EC_MAXELIST - 1
        /\ \A i \in 1 .. EC_MAXELIST - 1 : old[i] = Contents[i + 1]
    BY <1>3, <1>7, <2>4, HeadTailProperties
  <2>6. /\ Append(old, e) \in Seq(S)
        /\ Len(Append(old, e)) = EC_MAXELIST
        /\ \A i \in 1 .. EC_MAXELIST - 1 : Append(old, e)[i] = old[i]
        /\ Append(old, e)[EC_MAXELIST] = e
    BY <2>5, AppendProperties
  <2>7. ASSUME NEW i \in 1 .. EC_MAXELIST
        PROVE  Contents'[i] = Append(old, e)[i]
    <3>1. CASE i = EC_MAXELIST
      <4>1. Slot(i - 1)' = elist.head
        BY <1>1, <2>1, <2>2, <3>1 DEF Slot, Wrap
      <4>2. elist'.Error[elist.head] = e
        BY <1>1, <1>2 DEF Slots
      <4> QED
        BY <1>5, <2>3, <2>6, <3>1, <4>1, <4>2
    <3>2. CASE i # EC_MAXELIST
      <4>1. i \in 1 .. EC_MAXELIST - 1 /\ i + 1 \in 1 .. EC_MAXELIST /\ i \in 0 .. EC_MAXELIST
        BY <3>2
      <4>2. Slot(i - 1)' = Slot(i) /\ Slot(i) # elist.head
        BY <1>1, <2>1, <2>2, <4>1 DEF Slot, Wrap
      <4>3. elist'.Error[Slot(i)] = elist.Error[Slot(i)]
        BY <1>1, <1>2, <1>3, <4>1, <4>2
      <4>4. Contents[i + 1] = elist.Error[Slot(i)]
        BY <1>6, <1>7, <4>1
      <4> QED
        BY <1>5, <2>3, <2>5, <2>6, <4>1, <4>2, <4>3, <4>4
    <3> QED
      BY <3>1, <3>2
  <2> HIDE DEF old
  <2>8. Contents' = Append(old, e)
    BY <1>4, <2>3, <2>6, <2>7, SeqEqual
  <2> QED
    BY <2>8 DEF old
<1>8. CASE Waiting # EC_MAXELIST
  <2>1. elist'.head # elist.tail /\ elist'.tail = elist.tail
    BY <1>1, <1>2, <1>3, <1>8, SMTT(30) DEF Waiting, Wrap
  <2>2. Waiting' = Waiting + 1
    <3>1. elist'.head = IF elist.head = EC_MAXELIST THEN 0 ELSE elist.head + 1
      BY <1>1, <1>2 DEF Wrap
    <3>2. Waiting' = IF elist'.head >= elist.tail THEN elist'.head - elist.tail
                        ELSE elist'.head + EC_MAXELIST + 1 - elist.tail
      BY <2>1 DEF Waiting
    <3>3. Waiting = IF elist.head >= elist.tail THEN elist.head - elist.tail
                       ELSE elist.head + EC_MAXELIST + 1 - elist.tail
      BY DEF Waiting
    <3> QED
      BY <1>1, <1>3, <1>8, <2>1, <3>1, <3>2, <3>3, SMTT(30)
  <2>3. old = Contents
    BY <1>3, <1>8
  <2>4. /\ Append(Contents, e) \in Seq(S)
        /\ Len(Append(Contents, e)) = Waiting + 1
        /\ \A i \in 1 .. Waiting : Append(Contents, e)[i] = Contents[i]
        /\ Append(Contents, e)[Waiting + 1] = e
    BY <1>3, AppendProperties
  <2>5. ASSUME NEW i \in 1 .. Waiting'
        PROVE  Contents'[i] = Append(Contents, e)[i]
    <3>1. Slot(i - 1)' = Slot(i - 1)
      BY <2>1 DEF Slot
    <3>2. CASE i = Waiting + 1
      <4>1. Slot(Waiting) = elist.head
        <5>1. CASE elist.head >= elist.tail
          BY <1>1, <5>1 DEF Slot, Waiting
        <5>2. CASE ~ (elist.head >= elist.tail)
          BY <1>1, <5>2 DEF Slot, Waiting
        <5> QED
          BY <5>1, <5>2
      <4>2. elist'.Error[elist.head] = e
        BY <1>1, <1>2 DEF Slots
      <4>3. i - 1 = Waiting
        BY <1>3, <3>2
      <4> QED
        BY <1>5, <2>4, <3>1, <3>2, <4>1, <4>2, <4>3
    <3>3. CASE i # Waiting + 1
      <4>1. i \in 1 .. Waiting /\ i - 1 \in 0 .. EC_MAXELIST
        BY <1>3, <2>2, <3>3
      <4>2. Slot(i - 1) # elist.head
        BY <1>1, <4>1 DEF Slot, Waiting
      <4>3. elist'.Error[Slot(i - 1)] = elist.Error[Slot(i - 1)]
        BY <1>1, <1>2, <1>3, <4>1, <4>2
      <4> QED
        BY <1>5, <1>6, <2>4, <3>1, <4>1, <4>3
    <3> QED
      BY <3>2, <3>3
  <2>6. Contents' = Append(Contents, e)
    BY <1>3, <1>4, <2>2, <2>4, <2>5, SeqEqual
  <2> QED
    BY <2>3, <2>6
<1> QED
  BY <1>7, <1>8

(* A pop takes the first of the contents, or finds none and changes nothing. *)
LEMMA PopTakes ==
  ASSUME ListTypeOK, ListTypeOK', ecx_poperror
  PROVE  (Contents # <<>> /\ Contents' = Tail(Contents)) \/ Contents' = Contents
<1> USE ListAssumption
<1> DEFINE S == Errors \cup {Blank}
<1>1. elist.head \in 0 .. EC_MAXELIST /\ elist.tail \in 0 .. EC_MAXELIST
  BY DEF ListTypeOK, Slots
<1>2. CASE ~ HasErrors
  BY <1>2 DEF ecx_poperror, Contents, Waiting, Slot
<1>3. CASE HasErrors
  <2>1. elist' = [elist EXCEPT !.tail = Wrap(elist.tail + 1)]
    BY <1>3 DEF ecx_poperror
  <2>2. elist'.head = elist.head /\ elist'.tail = Wrap(elist.tail + 1) /\ elist'.Error = elist.Error
    BY <2>1 DEF ListTypeOK
  <2>3. Contents \in Seq(S) /\ Len(Contents) = Waiting /\ Waiting \in 0 .. EC_MAXELIST
    BY ContentsType
  <2>4. Contents' \in Seq(S) /\ Len(Contents') = Waiting' /\ Waiting' \in 0 .. EC_MAXELIST
    BY ContentsTypeNext
  <2>5. Waiting # 0 /\ Waiting' = Waiting - 1
    BY <1>1, <1>3, <2>2 DEF HasErrors, Waiting, Wrap
  <2>6. Contents # <<>>
    BY <2>3, <2>5
  <2>7. /\ Tail(Contents) \in Seq(S)
        /\ Len(Tail(Contents)) = Waiting - 1
        /\ \A i \in 1 .. Waiting - 1 : Tail(Contents)[i] = Contents[i + 1]
    BY <2>3, <2>6, HeadTailProperties
  <2>8. ASSUME NEW i \in 1 .. Waiting'
        PROVE  Contents'[i] = Tail(Contents)[i]
    <3>1. i \in 1 .. Waiting - 1 /\ i + 1 \in 1 .. Waiting /\ i \in 1 .. EC_MAXELIST
      BY <2>3, <2>5
    <3>2. Slot(i - 1)' = Slot(i)
      BY <1>1, <2>2, <3>1 DEF Slot, Wrap
    <3>3. Contents'[i] = elist.Error[Slot(i)]
      BY <2>2, <3>2 DEF Contents
    <3>4. Contents[i + 1] = elist.Error[Slot(i + 1 - 1)]
      BY <3>1 DEF Contents
    <3>5. i + 1 - 1 = i
      BY <3>1
    <3> QED
      BY <2>7, <3>1, <3>3, <3>4, <3>5
  <2>9. Contents' = Tail(Contents)
    BY <2>4, <2>5, <2>7, <2>8, SeqEqual
  <2> QED
    BY <2>6, <2>9
<1> QED
  BY <1>2, <1>3

(* The ring implements the bounded queue.                                    *)
THEOREM ImplementsQueue == ListSpec => IsQueue
<1>1. ListInit => Queue!Init
  BY DEF ListInit, Queue!Init, Contents, Waiting
<1>2. ListTypeOK /\ ListTypeOK' /\ [ListNext]_listVars => [Queue!Next]_Contents
  <2> SUFFICES ASSUME ListTypeOK, ListTypeOK', [ListNext]_listVars
               PROVE  [Queue!Next]_Contents
    OBVIOUS
  <2>1. ASSUME NEW e \in Errors, ecx_pusherror(e)
        PROVE  Queue!Next
    <3>1. Queue!Report(e)
      BY <2>1, PushAppends DEF Queue!Report
    <3> QED
      BY <3>1 DEF Queue!Next
  <2>2. ASSUME ecx_poperror
        PROVE  [Queue!Next]_Contents
    BY <2>2, PopTakes DEF Queue!Next, Queue!Take
  <2>3. CASE Report
    BY <2>1, <2>3 DEF Report
  <2>4. CASE Drain
    BY <2>2, <2>4 DEF Drain
  <2>5. CASE ReadError
    BY <2>1, <2>5 DEF ReadError
  <2>6. CASE ShowError
    BY <2>2, <2>6 DEF ShowError
  <2>7. CASE DrainStart \/ DrainEnd \/ ReadValue \/ ShowValue \/ UNCHANGED listVars
    BY <2>7 DEF DrainStart, DrainEnd, ReadValue, ShowValue, listVars, Contents, Waiting, Slot
  <2> QED
    BY <2>3, <2>4, <2>5, <2>6, <2>7 DEF ListNext
<1> QED
  BY <1>1, <1>2, ListTypeCorrect, PTL DEF ListSpec, IsQueue, Queue!Spec
=============================================================================
