---------------------------- MODULE EthercatLoop ----------------------------
(***************************************************************************)
(* ethercat_loop() of src/ethercat.c: the request for OPERATIONAL, the     *)
(* cyclic exchange of process data with the reconnection loop in it, and   *)
(* the step machine that homes the drive and runs it between two targets.  *)
(*                                                                         *)
(* outputs is the drive's part of IOmap.  It is shared without a lock with *)
(* the HTTP thread, whose POST handler writes single fields of it, and is  *)
(* copied out by ec_send_processdata and, when the slave allows LRW, back  *)
(* by ec_receive_processdata: a returning LRW frame carries the outputs it *)
(* was sent with, and the whole frame is copied over IOmap.                *)
(*                                                                         *)
(* The drive and the ring are external: what they may do is what the code  *)
(* reacts to.                                                              *)
(***************************************************************************)
EXTENDS Naturals

CONSTANTS
  Period,    \* 200: process data is sent in one iteration of the loop in Period
  Phase,     \* 10: the iteration in which it is sent
  Checks,    \* 40: checks for OPERATIONAL before giving up
  LRW        \* TRUE: LRW is used, FALSE: LRD/LWR (blockLRW)

ASSUME LoopAssumption ==
  /\ Period \in Nat \ {0}
  /\ Phase \in 0 .. Period - 1
  /\ Checks \in Nat
  /\ LRW \in BOOLEAN

VARIABLES
  pc,       \* where ethercat_loop is
  chk,      \* its count of checks left
  inOP,     \* the global flag ecatcheck looks at
  counter,  \* ethercat_loop_counter modulo Period
  step,     \* the step of the step machine
  loops,    \* loop_counter modulo 2
  timeUp,   \* has the time limit passed?
  outputs,  \* festo_motor_outputs in IOmap
  inputs,   \* festo_motor_inputs in IOmap
  frame,    \* the process data frame sent and not yet received
  drive     \* external: the drive

vars == <<pc, chk, inOP, counter, step, loops, timeUp, outputs, inputs, frame, drive>>

\* Control words 0, 6, 15, 31, 63; modes 0, 1, 6; targets 0 and -43000;
\* profile and target velocity set or not; "web" is what a POST writes.
ControlWord == {"off", "ready", "enable", "home", "move", "web"}
Mode == {"none", "position", "homing", "web"}
Target == {"T1", "T2", "web"}
Outputs == [control_word : ControlWord, modes_of_operation : Mode,
            target_position : Target, profile_velocity : {"zero", "set", "web"}]
Position == {"T1", "T2", "between"}
Inputs == [homed : BOOLEAN, position : Position]
NoFrame == [sent |-> FALSE]
Frames == [sent : {TRUE}, out : Outputs]

ZeroOutputs == [control_word |-> "off", modes_of_operation |-> "none",
                target_position |-> "T1", profile_velocity |-> "zero"]

Places == {"start", "started", "opsend", "opcheck", "config", "top", "receive", "resend",
           "rereceive", "restore", "time", "switch", "gaveup", "closed"}

TypeOK ==
  /\ pc \in Places
  /\ chk \in 0 .. Checks
  /\ inOP \in BOOLEAN
  /\ counter \in 0 .. Period - 1
  /\ step \in 0 .. 8
  /\ loops \in 0 .. 1
  /\ timeUp \in BOOLEAN
  /\ outputs \in Outputs
  /\ inputs \in Inputs
  /\ frame \in Frames \cup {NoFrame}
  /\ drive \in [out : Outputs, homed : BOOLEAN, position : Position, goal : Target \cup {"none"}]

Init ==
  /\ pc = "start"
  /\ chk = Checks
  /\ inOP = FALSE
  /\ counter = 0
  /\ step = 0
  /\ loops = 0
  /\ timeUp = FALSE
  /\ outputs = ZeroOutputs
  /\ frame = NoFrame
  /\ \E p \in Position :
       /\ inputs = [homed |-> FALSE, position |-> p]
       /\ drive = [out |-> ZeroOutputs, homed |-> FALSE, position |-> p, goal |-> "none"]

Goto(where) == pc' = where

----------------------------------------------------------------------------
(* Process data: ec_send_processdata and ec_receive_processdata.            *)

Send == frame' = [sent |-> TRUE, out |-> outputs]

\* A frame the drive takes: from its new set-point on it moves to that target.
Taken(d, out) ==
  [d EXCEPT !.out = out,
            !.goal = IF out.control_word = "move" /\ d.out.control_word # "move"
                       THEN out.target_position ELSE @]

\* What the drive writes into a frame.
Status == [homed |-> drive.homed /\ drive.out.control_word = "home",
           position |-> drive.position]

CopyBack == outputs' = IF LRW THEN frame.out ELSE outputs

\* wkc = expectedWKC: the drive took the outputs and gave its inputs.
Exchanged ==
  /\ frame.sent
  /\ drive' = Taken(drive, frame.out)
  /\ inputs' = Status
  /\ CopyBack
  /\ frame' = NoFrame

\* The frame came back with a lower work counter: the drive did not take part.
Refused ==
  /\ frame.sent
  /\ CopyBack
  /\ frame' = NoFrame
  /\ UNCHANGED <<inputs, drive>>

\* No frame came back (it was lost on the way there or on the way back), or
\* none was sent and ec_receive_processdata returned EC_NOFRAME at once.
NotReceived ==
  /\ \/ UNCHANGED drive
     \/ frame.sent /\ drive' = Taken(drive, frame.out)
  /\ frame' = NoFrame
  /\ UNCHANGED <<outputs, inputs>>

----------------------------------------------------------------------------
(* The request for OPERATIONAL.                                             *)

AnyExchange == Exchanged \/ Refused \/ NotReceived

\* One exchange of valid process data, whatever comes of it, then the request.
StartSend ==
  /\ pc = "start"
  /\ Send
  /\ Goto("started")
  /\ UNCHANGED <<chk, inOP, counter, step, loops, timeUp, outputs, inputs, drive>>

StartReceive ==
  /\ pc = "started"
  /\ AnyExchange
  /\ Goto("opsend")
  /\ UNCHANGED <<chk, inOP, counter, step, loops, timeUp>>

OpSend ==
  /\ pc = "opsend"
  /\ Send
  /\ Goto("opcheck")
  /\ UNCHANGED <<chk, inOP, counter, step, loops, timeUp, outputs, inputs, drive>>

\* while (chk-- && state != OPERATIONAL)
OpCheck ==
  /\ pc = "opcheck"
  /\ AnyExchange
  /\ \/ Goto("config") /\ inOP' = TRUE /\ UNCHANGED chk
     \/ chk > 0 /\ Goto("opsend") /\ chk' = chk - 1 /\ UNCHANGED inOP
     \/ chk = 0 /\ Goto("gaveup") /\ UNCHANGED <<chk, inOP>>
  /\ UNCHANGED <<counter, step, loops, timeUp>>

\* Three SDO writes; the loop counter restarts.
Configure ==
  /\ pc = "config"
  /\ counter' = 0
  /\ Goto("top")
  /\ UNCHANGED <<chk, inOP, step, loops, timeUp, outputs, inputs, frame, drive>>

----------------------------------------------------------------------------
(* The cyclic loop.                                                         *)

\* The commented out printf leaves ec_send_processdata as the body of the if.
Top ==
  /\ pc = "top"
  /\ counter' = (counter + 1) % Period
  /\ IF counter' = Phase THEN Send ELSE UNCHANGED frame
  /\ Goto("receive")
  /\ UNCHANGED <<chk, inOP, step, loops, timeUp, outputs, inputs, drive>>

\* Variant of Receive: the reconnection loop is dropped.
ReceiveOnce ==
  /\ pc = "receive"
  /\ AnyExchange
  /\ Goto("time")
  /\ UNCHANGED <<chk, inOP, counter, step, loops, timeUp>>

\* Variant of Receive: a frame that is late is left for the next iteration.
ReceiveLater ==
  /\ pc = "receive"
  /\ \/ Exchanged /\ Goto("time")
     \/ Refused /\ Goto("resend")
     \/ UNCHANGED <<outputs, inputs, frame, drive>> /\ Goto("time")
  /\ UNCHANGED <<chk, inOP, counter, step, loops, timeUp>>

Receive ==
  /\ pc = "receive"
  /\ \/ Exchanged /\ Goto("time")
     \/ (Refused \/ NotReceived) /\ Goto("resend")
  /\ UNCHANGED <<chk, inOP, counter, step, loops, timeUp>>

\* while (wkc < expectedWKC): send, receive, put lost slaves back in OP.
Resend ==
  /\ pc = "resend"
  /\ Send
  /\ Goto("rereceive")
  /\ UNCHANGED <<chk, inOP, counter, step, loops, timeUp, outputs, inputs, drive>>

Rereceive ==
  /\ pc = "rereceive"
  /\ \/ Exchanged /\ Goto("time")
     \/ (Refused \/ NotReceived) /\ Goto("resend")
  /\ UNCHANGED <<chk, inOP, counter, step, loops, timeUp>>

\* Variant of CheckTime: the loop is left only at the end of a round.
CheckTimeAtRound ==
  /\ pc = "time"
  /\ Goto(IF timeUp /\ step = 5 THEN "closed" ELSE "switch")
  /\ UNCHANGED <<chk, inOP, counter, step, loops, timeUp, outputs, inputs, frame, drive>>

CheckTime ==
  /\ pc = "time"
  /\ Goto(IF timeUp THEN "closed" ELSE "switch")
  /\ UNCHANGED <<chk, inOP, counter, step, loops, timeUp, outputs, inputs, frame, drive>>

----------------------------------------------------------------------------
(* switch (step).  Steps 5 to 8 do nothing once the time limit has passed.  *)

GotoStep(s) == step' = s

InPosition(t) == inputs.position = t

ToTarget(t) == [control_word |-> "enable", modes_of_operation |-> "position",
                target_position |-> t, profile_velocity |-> "set"]

Step0 == /\ step = 0
         /\ outputs' = [outputs EXCEPT !.control_word = "ready"]
         /\ GotoStep(1) /\ UNCHANGED loops
Step1 == /\ step = 1
         /\ outputs' = [outputs EXCEPT !.control_word = "enable",
                                       !.modes_of_operation = "position"]
         /\ GotoStep(2) /\ UNCHANGED loops
Step2 == /\ step = 2
         /\ outputs' = [outputs EXCEPT !.control_word = "enable",
                                       !.modes_of_operation = "homing"]
         /\ GotoStep(3) /\ UNCHANGED loops
Step3 == /\ step = 3
         /\ outputs' = [outputs EXCEPT !.control_word = "home"]
         /\ GotoStep(4) /\ UNCHANGED loops
Step4 == /\ step = 4
         /\ IF inputs.homed
              THEN /\ outputs' = [outputs EXCEPT !.control_word = "enable",
                                                 !.modes_of_operation = "position"]
                   /\ GotoStep(5)
              ELSE GotoStep(3) /\ UNCHANGED outputs
         /\ UNCHANGED loops
Step5 == /\ step = 5 /\ ~ timeUp
         /\ outputs' = ToTarget("T1")
         /\ GotoStep(6) /\ UNCHANGED loops
\* Variant of Step6: the second target follows without a look at the position.
Step6Blind == /\ step = 6 /\ ~ timeUp
              /\ outputs' = [outputs EXCEPT !.control_word = "move"]
              /\ GotoStep(7) /\ UNCHANGED loops
Step6 == /\ step = 6 /\ ~ timeUp
         /\ outputs' = [outputs EXCEPT !.control_word = "move"]
         /\ GotoStep(IF InPosition("T1") THEN 7 ELSE 6) /\ UNCHANGED loops
\* Variant of Step7: the new-set-point bit is not lowered.
Step7BitKept == /\ step = 7 /\ ~ timeUp
                /\ outputs' = [ToTarget("T2") EXCEPT !.control_word = "move"]
                /\ GotoStep(8) /\ UNCHANGED loops
Step7 == /\ step = 7 /\ ~ timeUp
         /\ outputs' = ToTarget("T2")
         /\ GotoStep(8) /\ UNCHANGED loops
\* Variant of Step8: the loop is counted as soon as the target was given.
Step8Blind == /\ step = 8 /\ ~ timeUp
              /\ outputs' = [outputs EXCEPT !.control_word = "move"]
              /\ GotoStep(5) /\ loops' = 1 - loops
Step8 == /\ step = 8 /\ ~ timeUp
         /\ outputs' = [outputs EXCEPT !.control_word = "move"]
         /\ IF InPosition("T2") THEN GotoStep(5) /\ loops' = 1 - loops
                                ELSE UNCHANGED <<step, loops>>
StepTimeUp == step >= 5 /\ timeUp /\ UNCHANGED <<outputs, step, loops>>

Switch ==
  /\ pc = "switch"
  /\ \/ Step0 \/ Step1 \/ Step2 \/ Step3 \/ Step4
     \/ Step5 \/ Step6 \/ Step7 \/ Step8 \/ StepTimeUp
  /\ Goto("top")
  /\ UNCHANGED <<chk, inOP, counter, timeUp, inputs, frame, drive>>

----------------------------------------------------------------------------
(* The other threads, the clock, and the drive.                             *)

\* parse_key_value_festo_motor: one field of outputs, at any time.
WebWrite ==
  /\ \E field \in DOMAIN outputs : outputs' = [outputs EXCEPT ![field] = "web"]
  /\ UNCHANGED <<pc, chk, inOP, counter, step, loops, timeUp, inputs, frame, drive>>

TimePasses ==
  /\ inOP
  /\ ~ timeUp
  /\ timeUp' = TRUE
  /\ UNCHANGED <<pc, chk, inOP, counter, step, loops, outputs, inputs, frame, drive>>

\* Homing ends somewhere; a moving drive is between targets, then at its goal.
DriveHomes ==
  /\ ~ drive.homed
  /\ drive.out.control_word = "home"
  /\ drive.out.modes_of_operation = "homing"
  /\ \E p \in Position : drive' = [drive EXCEPT !.homed = TRUE, !.position = p]
  /\ UNCHANGED <<pc, chk, inOP, counter, step, loops, timeUp, outputs, inputs, frame>>

DriveMoves ==
  /\ drive.homed
  /\ drive.out.control_word \in {"enable", "move"}
  /\ drive.goal # "none"
  /\ drive.position # drive.goal
  /\ \E p \in {"between", drive.goal} \cap Position :
       drive' = [drive EXCEPT !.position = p]
  /\ UNCHANGED <<pc, chk, inOP, counter, step, loops, timeUp, outputs, inputs, frame>>

----------------------------------------------------------------------------
Loop == \/ StartSend \/ StartReceive \/ OpSend \/ OpCheck \/ Configure
        \/ Top \/ Receive \/ Resend \/ Rereceive \/ CheckTime \/ Switch
Environment == TimePasses \/ DriveHomes \/ DriveMoves

Next == Loop \/ Environment

Spec == Init /\ [][Next]_vars

\* With a POST handler that writes, too.
WebSpec == Init /\ [][Next \/ WebWrite]_vars

\* The thread of ethercat_loop runs; the ring works again and again (a frame
\* that is sent for ever is exchanged again and again, and a slave asked for
\* OPERATIONAL again and again gets there); the drive homes and gets to its goal.
Fairness ==
  /\ WF_vars(Loop)
  /\ SF_vars((Receive \/ Rereceive) /\ Exchanged /\ pc' = "time")
  /\ WF_vars(DriveHomes)
  /\ WF_vars(DriveMoves /\ drive'.position = drive.goal)

FairSpec == Spec /\ Fairness

----------------------------------------------------------------------------
\* What each step wrote was taken by the drive, in an exchange with the full
\* work counter, before the next step runs: no step is skipped on the bus even
\* though process data is sent in one iteration of Period only.
StepsReachDrive == pc = "switch" => drive.out = outputs

\* Receiving process data never changes the outputs: what the steps, or a POST
\* answered with "Data updated successfully", wrote since the frame was sent
\* is not undone by the copy of the frame into IOmap.
ReceiveKeepsOutputs ==
  [][(pc \in {"started", "opcheck", "receive", "rereceive"} /\ pc' # pc)
       => outputs' = outputs]_vars

\* A loop is counted only when the drive was sent to the second target and is
\* there (the inputs the test reads are those of an earlier exchange).
CountedAtTarget ==
  [][loops' # loops => drive.goal = "T2" /\ drive.position = "T2"]_vars

\* In operation, and until the time limit, the drive is homed and then gets to
\* both targets again and again.
Shuttles ==
  /\ inOP ~> (step = 7 \/ timeUp)
  /\ step = 7 ~> (step = 5 \/ timeUp)
  /\ step = 5 ~> (step = 7 \/ timeUp)

\* When the time limit has passed the loop ends and closes the port.
TimeLimitEnds == timeUp ~> pc = "closed"

Program == INSTANCE FestoProgram WITH
  out <- drive.out, homed <- drive.homed, position <- drive.position,
  goal <- drive.goal

\* The frames the drive takes follow the program of the step machine.
RunsProgram == Program!Spec
=============================================================================
