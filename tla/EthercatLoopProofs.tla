------------------------- MODULE EthercatLoopProofs -------------------------
(***************************************************************************)
(* Theorems about EthercatLoop, for every Period, Phase and number of       *)
(* checks, with LRW and without: what the step machine writes gets to the   *)
(* drive, in the order of FestoProgram.                                     *)
(***************************************************************************)
EXTENDS EthercatLoop, TLAPS

----------------------------------------------------------------------------
(* The inductive invariant: what outputs, the drive and inputs hold in each  *)
(* step of the step machine.                                                *)

Idle == Program!Nothing
StartPlaces == {"start", "started", "opsend", "opcheck", "config", "gaveup"}

\* A frame on its way carries what outputs still hold.
FrameIsCurrent ==
  /\ frame.sent => frame.out = outputs
  /\ frame.sent => pc \in {"started", "opcheck", "receive", "rereceive"}

\* Where the drive is and what is known of it: it was given no target and
\* inputs show where it is; it is at the target it was given and inputs show
\* that; it is on its way, and inputs do not show the target before it is there.
Unmoved == drive.goal = "none" /\ inputs.position = drive.position
At(t) == drive.goal = t /\ drive.position = t /\ inputs.position = t
Bound(t) == drive.goal = t /\ (inputs.position = t => drive.position = t)

BeforeStart ==
  /\ outputs = Idle /\ drive.out = Idle
  /\ drive.goal = "none" /\ ~ drive.homed /\ ~ inputs.homed

\* Steps 1 to 4: the command of the step, and the drive has taken it or the
\* one before.
Unhomed == drive.goal = "none" /\ ~ drive.homed /\ ~ inputs.homed
SwitchingOn == step = 1 /\ outputs = Program!SwitchOn /\ drive.out \in {Idle, Program!SwitchOn} /\ Unhomed
Enabling == step = 2 /\ outputs = Program!Enable /\ drive.out \in {Program!SwitchOn, Program!Enable} /\ Unhomed
ToHoming == step = 3 /\ outputs = Program!HomingMode /\ drive.out \in {Program!Enable, Program!HomingMode} /\ Unhomed
Homing ==
  /\ step \in {3, 4} /\ outputs = Program!StartHoming
  /\ \/ step = 4 /\ drive.out = Program!HomingMode /\ Unhomed
     \/ /\ drive.out = Program!StartHoming /\ drive.goal = "none"
        /\ inputs.homed => drive.homed /\ inputs.position = drive.position

\* Steps 5 to 8.
Homed == step = 5 /\ outputs = Program!Enable /\ drive.out \in {Program!StartHoming, Program!Enable} /\ Unmoved
Arrived == step = 5 /\ outputs = Program!Move("T2") /\ drive.out = Program!Move("T2") /\ At("T2")
Preparing1 ==
  /\ step = 6 /\ outputs = Program!Prepare("T1")
  /\ \/ drive.out \in {Program!Enable, Program!Prepare("T1")} /\ Unmoved
     \/ drive.out \in {Program!Move("T2"), Program!Prepare("T1")} /\ At("T2")
Moving1 ==
  /\ step = 6 /\ outputs = Program!Move("T1")
  /\ \/ drive.out = Program!Prepare("T1") /\ (Unmoved \/ At("T2"))
     \/ drive.out = Program!Move("T1") /\ Bound("T1")
Leaving1 ==
  /\ step = 7 /\ outputs = Program!Move("T1")
  /\ \/ drive.out = Program!Prepare("T1") /\ Unmoved /\ drive.position = "T1"
     \/ drive.out = Program!Move("T1") /\ At("T1")
Preparing2 ==
  step = 8 /\ outputs = Program!Prepare("T2") /\ drive.out \in {Program!Move("T1"), Program!Prepare("T2")} /\ At("T1")
Moving2 ==
  /\ step = 8 /\ outputs = Program!Move("T2")
  /\ \/ drive.out = Program!Prepare("T2") /\ At("T1")
     \/ drive.out = Program!Move("T2") /\ Bound("T2")

ToDrive == SwitchingOn \/ Enabling \/ ToHoming \/ Homing
Shuttling ==
  drive.homed /\ (Homed \/ Arrived \/ Preparing1 \/ Moving1 \/ Leaving1 \/ Preparing2 \/ Moving2)

Progress ==
  \/ step = 0 /\ BeforeStart
  \/ pc \notin StartPlaces /\ (ToDrive \/ Shuttling)

\* What a step wrote was taken before the next one.
TakenBeforeStep == pc \in {"time", "switch"} => drive.out = outputs

IInv == TypeOK /\ FrameIsCurrent /\ Progress /\ TakenBeforeStep

----------------------------------------------------------------------------
(* Types.                                                                    *)

LEMMA TakenType ==
  ASSUME TypeOK, frame.sent
  PROVE  /\ frame.out \in Outputs
         /\ Taken(drive, frame.out) \in [out : Outputs, homed : BOOLEAN, position : Position, goal : Target \cup {"none"}]
         /\ Taken(drive, frame.out).out = frame.out
         /\ Taken(drive, frame.out).homed = drive.homed
         /\ Taken(drive, frame.out).position = drive.position
         /\ Taken(drive, frame.out).goal =
              IF frame.out.control_word = "move" /\ drive.out.control_word # "move"
              THEN frame.out.target_position ELSE drive.goal
<1>1. frame \in Frames
  BY DEF TypeOK, NoFrame
<1>2. frame.out \in Outputs
  BY <1>1 DEF Frames
<1> QED
  BY <1>2 DEF TypeOK, Taken, Outputs

LEMMA ExchangeType ==
  ASSUME TypeOK, AnyExchange
  PROVE  /\ outputs' \in Outputs
         /\ inputs' \in Inputs
         /\ frame' = NoFrame
         /\ drive' \in [out : Outputs, homed : BOOLEAN, position : Position, goal : Target \cup {"none"}]
<1>1. CASE Exchanged
  BY <1>1, TakenType DEF TypeOK, Exchanged, CopyBack, Status, Inputs
<1>2. CASE Refused
  BY <1>2, TakenType DEF TypeOK, Refused, CopyBack
<1>3. CASE NotReceived
  BY <1>3, TakenType DEF TypeOK, NotReceived
<1> QED
  BY <1>1, <1>2, <1>3 DEF AnyExchange

LEMMA SendType ==
  ASSUME TypeOK, Send
  PROVE  frame' \in Frames
BY DEF TypeOK, Send, Frames

LEMMA SwitchType ==
  ASSUME TypeOK, Switch
  PROVE  TypeOK'
<1>1. CASE StepTimeUp
  BY <1>1 DEF TypeOK, Switch, StepTimeUp, Goto, Places
<1>2. step' \in 0 .. 8 /\ loops' \in 0 .. 1
  BY DEF TypeOK, Switch, GotoStep, Step0, Step1, Step2, Step3, Step4, Step5, Step6, Step7, Step8, StepTimeUp
<1>3. outputs' \in Outputs
  <2>1. CASE Step0 \/ Step1 \/ Step2 \/ Step3 \/ Step4
    BY <2>1, ZenonT(40) DEF TypeOK, Step0, Step1, Step2, Step3, Step4, Outputs, ControlWord, Mode
  <2>2. CASE Step5 \/ Step6 \/ Step7 \/ Step8
    BY <2>2 DEF TypeOK, Step5, Step6, Step7, Step8, ToTarget, Outputs, ControlWord, Mode, Target
  <2> QED
    BY <1>1, <2>1, <2>2 DEF Switch, TypeOK
<1> QED
  BY <1>2, <1>3 DEF TypeOK, Switch, Goto, Places

LEMMA TypeInit == Init => TypeOK
<1> SUFFICES ASSUME Init
             PROVE  TypeOK
  OBVIOUS
<1>1. ZeroOutputs \in Outputs
  BY DEF ZeroOutputs, Outputs, ControlWord, Mode, Target
<1>2. /\ inputs \in Inputs
      /\ drive \in [out : Outputs, homed : BOOLEAN, position : Position, goal : Target \cup {"none"}]
  BY <1>1 DEF Init, Inputs
<1>3. counter \in 0 .. Period - 1 /\ chk \in 0 .. Checks
  BY LoopAssumption DEF Init
<1>4. pc \in Places /\ inOP \in BOOLEAN /\ timeUp \in BOOLEAN
  BY Zenon DEF Init, Places
<1>6. step \in 0 .. 8 /\ loops \in 0 .. 1
  BY DEF Init
<1>5. outputs \in Outputs /\ frame \in Frames \cup {NoFrame}
  BY <1>1 DEF Init, NoFrame
<1> QED
  BY <1>2, <1>3, <1>4, <1>5, <1>6 DEF TypeOK

LEMMA TypeStep == TypeOK /\ [Next \/ WebWrite]_vars => TypeOK'
<1> SUFFICES ASSUME TypeOK, [Next \/ WebWrite]_vars
             PROVE  TypeOK'
  OBVIOUS
<1>1. CASE StartSend \/ OpSend \/ Resend
  BY <1>1, SendType DEF StartSend, OpSend, Resend, TypeOK, Goto, Places
<1>2. CASE StartReceive
  BY <1>2, ExchangeType DEF StartReceive, TypeOK, Goto, Places
<1>3. CASE OpCheck
  <2>1. pc' \in Places /\ inOP' \in BOOLEAN
    BY <1>3 DEF OpCheck, TypeOK, Goto, Places
  <2>2. chk' = chk \/ (chk > 0 /\ chk' = chk - 1)
    BY <1>3 DEF OpCheck
  <2>3. chk' \in 0 .. Checks
    BY <2>2, LoopAssumption DEF TypeOK
  <2> QED
    BY <1>3, <2>1, <2>3, ExchangeType DEF OpCheck, TypeOK
<1>4. CASE Configure
  BY <1>4, LoopAssumption DEF Configure, TypeOK, Goto, Places
<1>5. CASE Top
  <2>1. counter' \in 0 .. Period - 1
    BY <1>5, LoopAssumption DEF Top, TypeOK
  <2> QED
    BY <1>5, <2>1, SendType DEF Top, TypeOK, Goto, Places
<1>6. CASE Receive \/ Rereceive
  BY <1>6, ExchangeType DEF Receive, Rereceive, AnyExchange, TypeOK, Goto, Places
<1>7. CASE CheckTime
  BY <1>7 DEF CheckTime, TypeOK, Goto, Places
<1>8. CASE Switch
  BY <1>8, SwitchType
<1>9. CASE WebWrite
  BY <1>9 DEF WebWrite, TypeOK, Outputs, ControlWord, Mode, Target
<1>10. CASE TimePasses
  BY <1>10 DEF TimePasses, TypeOK
<1>11. CASE DriveHomes
  BY <1>11 DEF DriveHomes, TypeOK
<1>12. CASE DriveMoves
  BY <1>12 DEF DriveMoves, TypeOK
<1>13. CASE UNCHANGED vars
  BY <1>13 DEF vars, TypeOK
<1> QED
  BY <1>1, <1>2, <1>3, <1>4, <1>5, <1>6, <1>7, <1>8, <1>9, <1>10, <1>11, <1>12, <1>13 DEF Next, Loop, Environment

\* Type correctness, whatever a POST writes into the outputs meanwhile.
THEOREM TypeCorrect == WebSpec => []TypeOK
BY TypeInit, TypeStep, PTL DEF WebSpec

----------------------------------------------------------------------------
(* A command is taken.                                                       *)

USE DEF Program!Nothing, Program!SwitchOn, Program!Enable, Program!HomingMode, Program!StartHoming,
        Program!Prepare, Program!Move, Program!Command, Idle

\* What the drive knows and shows after it has taken the outputs: the answer
\* has the inputs as they were before, or is lost.
Takes ==
  /\ drive'.out = outputs
  /\ drive'.homed = drive.homed
  /\ drive'.position = drive.position
  /\ drive'.goal = IF outputs.control_word = "move" /\ drive.out.control_word # "move"
                   THEN outputs.target_position ELSE drive.goal
  /\ \/ inputs' = inputs
     \/ /\ inputs'.homed = (drive.homed /\ drive.out.control_word = "home")
        /\ inputs'.position = drive.position
  /\ UNCHANGED <<outputs, step>>

\* Each step's command finds the drive where the program leaves it, and
\* leaves it where the next one may find it.
LEMMA TakesStarting ==
  ASSUME TypeOK, Takes, step = 0, BeforeStart
  PROVE  BeforeStart'
BY DEF Takes, BeforeStart

LEMMA TakesHoming ==
  ASSUME TypeOK, Takes, ToDrive
  PROVE  ToDrive'
<1>1. Unhomed /\ outputs.control_word # "move" => Unhomed'
  <2> SUFFICES ASSUME Unhomed, outputs.control_word # "move"
               PROVE  Unhomed'
    OBVIOUS
  <2>1. drive'.goal = "none"
    BY DEF Takes, Unhomed
  <2>2. ~ drive'.homed /\ ~ inputs'.homed
    BY Zenon DEF Takes, Unhomed
  <2> QED
    BY <2>1, <2>2 DEF Unhomed
<1>2. CASE SwitchingOn
  BY <1>1, <1>2 DEF Takes, ToDrive, SwitchingOn
<1>3. CASE Enabling
  BY <1>1, <1>3 DEF Takes, ToDrive, Enabling
<1>4. CASE ToHoming
  BY <1>1, <1>4 DEF Takes, ToDrive, ToHoming
<1>5. CASE Homing
  <2>1. step' \in {3, 4} /\ outputs' = Program!StartHoming /\ drive'.out = Program!StartHoming
    BY <1>5 DEF Takes, Homing
  <2>2. drive'.goal = "none"
    BY <1>5 DEF Takes, Homing, Unhomed
  <2>3. inputs.homed => drive.homed /\ inputs.position = drive.position
    BY <1>5 DEF Homing, Unhomed
  <2>4. inputs'.homed => drive'.homed /\ inputs'.position = drive'.position
    BY <2>3, Zenon DEF Takes
  <2> QED
    BY <2>1, <2>2, <2>4 DEF ToDrive, Homing
<1> QED
  BY <1>2, <1>3, <1>4, <1>5 DEF ToDrive

LEMMA TakesShuttling ==
  ASSUME TypeOK, Takes, Shuttling
  PROVE  Shuttling'
<1>1. drive'.homed
  BY DEF Takes, Shuttling
<1>2. CASE Homed
  BY <1>1, <1>2 DEF Takes, Shuttling, Homed, Unmoved
<1>3. CASE Arrived
  BY <1>1, <1>3 DEF Takes, Shuttling, Arrived, At
<1>4. CASE Preparing1
  BY <1>1, <1>4 DEF Takes, Shuttling, Preparing1, At, Unmoved
<1>5. CASE Moving1
  BY <1>1, <1>5 DEF Takes, Shuttling, Moving1, At, Unmoved, Bound
<1>6. CASE Leaving1
  BY <1>1, <1>6 DEF Takes, Shuttling, Leaving1, At, Unmoved
<1>7. CASE Preparing2
  BY <1>1, <1>7 DEF Takes, Shuttling, Preparing2, At
<1>8. CASE Moving2
  BY <1>1, <1>8 DEF Takes, Shuttling, Moving2, At, Bound
<1> QED
  BY <1>2, <1>3, <1>4, <1>5, <1>6, <1>7, <1>8 DEF Shuttling

----------------------------------------------------------------------------
(* Exchanges.  With LRW the frame is copied over the outputs, which changes  *)
(* nothing because nothing else has changed them since it was sent.         *)

LEMMA ExchangeEffect ==
  ASSUME IInv, AnyExchange, step' = step
  PROVE  /\ outputs' = outputs
         /\ frame' = NoFrame
         /\ Takes \/ UNCHANGED <<outputs, inputs, drive, step>>
         /\ Exchanged => drive'.out = outputs
<1>1. outputs' = outputs /\ frame' = NoFrame
  <2>1. frame.sent /\ CopyBack => outputs' = outputs
    BY DEF IInv, FrameIsCurrent, CopyBack
  <2> QED
    BY <2>1 DEF AnyExchange, Exchanged, Refused, NotReceived
<1>2. ASSUME frame.sent, drive' = Taken(drive, frame.out)
      PROVE  /\ drive'.out = outputs /\ drive'.homed = drive.homed /\ drive'.position = drive.position
             /\ drive'.goal = IF outputs.control_word = "move" /\ drive.out.control_word # "move"
                              THEN outputs.target_position ELSE drive.goal
  BY <1>2, TakenType DEF IInv, FrameIsCurrent
<1>3. Exchanged => drive'.out = outputs
  BY <1>2 DEF Exchanged
<1>4. Takes \/ UNCHANGED <<outputs, inputs, drive, step>>
  <2>1. CASE Exchanged
    <3>1. inputs'.homed = (drive.homed /\ drive.out.control_word = "home") /\ inputs'.position = drive.position
      BY <2>1 DEF Exchanged, Status
    <3> QED
      BY <1>1, <1>2, <2>1, <3>1 DEF Exchanged, Takes
  <2>2. CASE Refused
    BY <1>1, <2>2 DEF Refused
  <2>3. CASE NotReceived
    BY <1>1, <1>2, <2>3 DEF NotReceived, Takes
  <2> QED
    BY <2>1, <2>2, <2>3 DEF AnyExchange
<1> QED
  BY <1>1, <1>3, <1>4

LEMMA ProgressStays ==
  ASSUME Progress, UNCHANGED <<outputs, inputs, drive, step>>, pc \notin StartPlaces => pc' \notin StartPlaces
  PROVE  Progress'
<1>1. BeforeStart => BeforeStart'
  BY DEF BeforeStart
<1>2. ToDrive => ToDrive'
  BY DEF ToDrive, SwitchingOn, Enabling, ToHoming, Homing, Unhomed
<1>3. Shuttling => Shuttling'
  BY DEF Shuttling, Homed, Arrived, Preparing1, Moving1, Leaving1, Preparing2, Moving2, Unmoved, At, Bound
<1>4. CASE step = 0 /\ BeforeStart
  BY <1>1, <1>4 DEF Progress
<1>5. CASE pc \notin StartPlaces /\ (ToDrive \/ Shuttling)
  BY <1>2, <1>3, <1>5 DEF Progress
<1> QED
  BY <1>4, <1>5 DEF Progress

LEMMA ExchangeKeeps ==
  ASSUME IInv, AnyExchange, step' = step, pc \notin StartPlaces => pc' \notin StartPlaces
  PROVE  Progress'
<1>1. CASE UNCHANGED <<outputs, inputs, drive, step>>
  BY <1>1, ProgressStays DEF IInv
<1>2. CASE Takes
  <2>1. CASE step = 0 /\ BeforeStart
    BY <1>2, <2>1, TakesStarting DEF IInv, Progress
  <2>2. CASE pc \notin StartPlaces /\ (ToDrive \/ Shuttling)
    BY <1>2, <2>2, TakesHoming, TakesShuttling DEF IInv, Progress
  <2> QED
    BY <2>1, <2>2 DEF IInv, Progress
<1> QED
  BY <1>1, <1>2, ExchangeEffect

----------------------------------------------------------------------------
(* The step machine: a step runs after the command of the step before it was *)
(* taken, so the drive is where that command was to bring it.               *)

LEMMA NewMode ==
  ASSUME outputs \in Outputs, NEW cw \in ControlWord, NEW mode \in Mode,
         outputs' = [outputs EXCEPT !.control_word = cw, !.modes_of_operation = mode]
  PROVE  outputs' = Program!Command(cw, mode, outputs.target_position, outputs.profile_velocity)
<1>1. outputs' \in Outputs
  BY DEF Outputs
<1>2. /\ outputs'.control_word = cw /\ outputs'.modes_of_operation = mode
      /\ outputs'.target_position = outputs.target_position
      /\ outputs'.profile_velocity = outputs.profile_velocity
  BY DEF Outputs
<1> QED
  BY <1>1, <1>2 DEF Outputs

LEMMA StepsToDrive ==
  ASSUME TypeOK, Progress, drive.out = outputs, Step0 \/ Step1 \/ Step2 \/ Step3 \/ Step4,
         UNCHANGED <<inputs, drive>>
  PROVE  ToDrive' \/ Shuttling'
<1>1. CASE Step0
  <2>1. BeforeStart
    BY <1>1 DEF Progress, Step0, ToDrive, Shuttling, SwitchingOn, Enabling, ToHoming, Homing, Homed, Arrived, Preparing1, Moving1, Leaving1, Preparing2, Moving2
  <2>2. step' = 1 /\ outputs' = Program!SwitchOn /\ drive'.out = Program!Nothing
    BY <1>1, <2>1 DEF BeforeStart, Step0, GotoStep
  <2>3. Unhomed'
    BY <2>1 DEF BeforeStart, Unhomed
  <2> QED
    BY <2>2, <2>3 DEF ToDrive, SwitchingOn
<1>2. CASE Step1
  <2>1. SwitchingOn
    BY <1>2 DEF Progress, Step1, ToDrive, Shuttling, Enabling, ToHoming, Homing, Homed, Arrived, Preparing1, Moving1, Leaving1, Preparing2, Moving2
  <2>2. step' = 2 /\ outputs' = Program!Enable /\ drive'.out = Program!SwitchOn
    <3>1. outputs' = Program!Command("enable", "position", outputs.target_position, outputs.profile_velocity)
      BY <1>2, NewMode DEF TypeOK, ControlWord, Mode, Step1
    <3>2. outputs.target_position = "T1" /\ outputs.profile_velocity = "zero"
      BY <2>1 DEF SwitchingOn
    <3>3. step' = 2
      BY <1>2 DEF Step1, GotoStep
    <3>4. drive'.out = Program!SwitchOn
      BY <2>1 DEF SwitchingOn
    <3> QED
      BY <3>1, <3>2, <3>3, <3>4
  <2>3. Unhomed'
    BY <2>1 DEF SwitchingOn, Unhomed
  <2> QED
    BY <2>2, <2>3 DEF ToDrive, Enabling
<1>3. CASE Step2
  <2>1. Enabling
    BY <1>3 DEF Progress, Step2, ToDrive, Shuttling, SwitchingOn, ToHoming, Homing, Homed, Arrived, Preparing1, Moving1, Leaving1, Preparing2, Moving2
  <2>2. step' = 3 /\ outputs' = Program!HomingMode /\ drive'.out = Program!Enable
    <3>1. outputs' = Program!Command("enable", "homing", outputs.target_position, outputs.profile_velocity)
      BY <1>3, NewMode DEF TypeOK, ControlWord, Mode, Step2
    <3>2. outputs.target_position = "T1" /\ outputs.profile_velocity = "zero"
      BY <2>1 DEF Enabling
    <3>3. step' = 3
      BY <1>3 DEF Step2, GotoStep
    <3>4. drive'.out = Program!Enable
      BY <2>1 DEF Enabling
    <3> QED
      BY <3>1, <3>2, <3>3, <3>4
  <2>3. Unhomed'
    BY <2>1 DEF Enabling, Unhomed
  <2> QED
    BY <2>2, <2>3 DEF ToDrive, ToHoming
<1>4. CASE Step3
  <2>1. ToHoming \/ Homing
    BY <1>4 DEF Progress, Step3, ToDrive, Shuttling, SwitchingOn, Enabling, Homed, Arrived, Preparing1, Moving1, Leaving1, Preparing2, Moving2
  <2>2. step' = 4 /\ outputs' = Program!StartHoming
    BY <1>4, <2>1 DEF ToHoming, Homing, Step3, GotoStep
  <2>3. CASE ToHoming
    <3>1. drive'.out = Program!HomingMode /\ Unhomed'
      BY <2>3 DEF ToHoming, Unhomed
    <3> QED
      BY <2>2, <3>1 DEF ToDrive, Homing
  <2>4. CASE Homing
    <3>1. /\ drive'.out = Program!StartHoming /\ drive'.goal = "none"
          /\ inputs'.homed => drive'.homed /\ inputs'.position = drive'.position
      BY <2>4 DEF Homing
    <3> QED
      BY <2>2, <3>1 DEF ToDrive, Homing
  <2> QED
    BY <2>1, <2>3, <2>4
<1>5. CASE Step4
  <2>1. Homing
    BY <1>5 DEF Progress, Step4, ToDrive, Shuttling, SwitchingOn, Enabling, ToHoming, Homed, Arrived, Preparing1, Moving1, Leaving1, Preparing2, Moving2
  <2>2. /\ drive'.out = Program!StartHoming /\ drive'.goal = "none"
        /\ inputs'.homed => drive'.homed /\ inputs'.position = drive'.position
    BY <2>1 DEF Homing
  <2>3. CASE inputs.homed
    <3>1. step' = 5 /\ outputs' = Program!Enable
      <4>1. outputs' = Program!Command("enable", "position", outputs.target_position, outputs.profile_velocity)
        BY <1>5, <2>3, NewMode DEF TypeOK, ControlWord, Mode, Step4
      <4> QED
        BY <1>5, <2>1, <2>3, <4>1 DEF Homing, Step4, GotoStep
    <3> QED
      BY <2>2, <2>3, <3>1 DEF Shuttling, Homed, Unmoved
  <2>4. CASE ~ inputs.homed
    <3>1. step' = 3 /\ outputs' = Program!StartHoming
      BY <1>5, <2>1, <2>4 DEF Homing, Step4, GotoStep
    <3> QED
      BY <2>2, <3>1 DEF ToDrive, Homing
  <2> QED
    BY <2>3, <2>4
<1> QED
  BY <1>1, <1>2, <1>3, <1>4, <1>5

LEMMA StepsShuttling ==
  ASSUME TypeOK, Progress, drive.out = outputs, Step5 \/ Step6 \/ Step7 \/ Step8,
         UNCHANGED <<inputs, drive>>
  PROVE  Shuttling'
<1>1. drive'.homed
  BY DEF Progress, Shuttling, ToDrive, SwitchingOn, Enabling, ToHoming, Homing, Step5, Step6, Step7, Step8
<1>2. CASE Step5
  <2>1. Homed \/ Arrived
    BY <1>2 DEF Progress, Step5, ToDrive, Shuttling, SwitchingOn, Enabling, ToHoming, Homing, Preparing1, Moving1, Leaving1, Preparing2, Moving2
  <2> QED
    BY <1>1, <1>2, <2>1 DEF Step5, GotoStep, ToTarget, Homed, Arrived, Shuttling, Preparing1, Unmoved, At
<1>3. CASE Step6
  <2>1. Preparing1 \/ Moving1
    BY <1>3 DEF Progress, Step6, ToDrive, Shuttling, SwitchingOn, Enabling, ToHoming, Homing, Homed, Arrived, Leaving1, Preparing2, Moving2
  <2>2. outputs' = Program!Move("T1") /\ step' = IF inputs.position = "T1" THEN 7 ELSE 6
    BY <1>3, <2>1 DEF Step6, GotoStep, InPosition, Preparing1, Moving1
  <2>3. CASE Preparing1
    BY <1>1, <2>2, <2>3 DEF Preparing1, Shuttling, Moving1, Leaving1, Unmoved, At
  <2>4. CASE Moving1
    BY <1>1, <2>2, <2>4 DEF Shuttling, Moving1, Leaving1, Bound, At
  <2> QED
    BY <2>1, <2>3, <2>4
<1>4. CASE Step7
  <2>1. Leaving1
    BY <1>4 DEF Progress, Step7, ToDrive, Shuttling, SwitchingOn, Enabling, ToHoming, Homing, Homed, Arrived, Preparing1, Moving1, Preparing2, Moving2
  <2> QED
    BY <1>1, <1>4, <2>1 DEF Step7, GotoStep, ToTarget, Leaving1, Shuttling, Preparing2, At
<1>5. CASE Step8
  <2>1. Preparing2 \/ Moving2
    BY <1>5 DEF Progress, Step8, ToDrive, Shuttling, SwitchingOn, Enabling, ToHoming, Homing, Homed, Arrived, Preparing1, Moving1, Leaving1
  <2>2. outputs' = Program!Move("T2") /\ step' = IF inputs.position = "T2" THEN 5 ELSE 8
    BY <1>5, <2>1 DEF Step8, GotoStep, InPosition, Preparing2, Moving2
  <2>3. CASE Preparing2
    BY <1>1, <2>2, <2>3 DEF Preparing2, Shuttling, Moving2, Arrived, At
  <2>4. CASE Moving2
    BY <1>1, <2>2, <2>4 DEF Shuttling, Moving2, Arrived, Bound, At
  <2> QED
    BY <2>1, <2>3, <2>4
<1> QED
  BY <1>2, <1>3, <1>4, <1>5

LEMMA SwitchKeeps ==
  ASSUME IInv, Switch
  PROVE  Progress'
<1>1. TypeOK /\ Progress /\ drive.out = outputs
  BY DEF IInv, TakenBeforeStep, Switch
<1>2. pc' \notin StartPlaces
  BY DEF Switch, Goto, StartPlaces
<1>3. CASE Step0 \/ Step1 \/ Step2 \/ Step3 \/ Step4
  BY <1>1, <1>2, <1>3, StepsToDrive DEF Progress, Switch
<1>4. CASE Step5 \/ Step6 \/ Step7 \/ Step8
  BY <1>1, <1>2, <1>4, StepsShuttling DEF Progress, Switch
<1>5. CASE StepTimeUp
  BY <1>1, <1>2, <1>5, ProgressStays DEF Switch, StepTimeUp
<1> QED
  BY <1>3, <1>4, <1>5 DEF Switch

----------------------------------------------------------------------------
(* The drive.                                                                *)

LEMMA HomesKeeps ==
  ASSUME IInv, DriveHomes
  PROVE  Progress'
<1>1. /\ drive.out = Program!StartHoming => ~ drive.homed
      /\ drive.out.control_word = "home" /\ ~ drive.homed
  BY DEF DriveHomes
<1>2. pc \notin StartPlaces /\ Homing
  BY <1>1 DEF IInv, Progress, BeforeStart, Shuttling, ToDrive, SwitchingOn, Enabling, ToHoming
<1>3. drive.out = Program!StartHoming /\ drive.goal = "none" /\ ~ inputs.homed
  BY <1>1, <1>2 DEF Homing
<1>4. drive'.out = drive.out /\ drive'.goal = drive.goal
  BY DEF DriveHomes, IInv, TypeOK
<1>5. Homing'
  BY <1>2, <1>3, <1>4 DEF DriveHomes, Homing
<1> QED
  BY <1>2, <1>5 DEF DriveHomes, Progress, ToDrive

LEMMA MovesKeeps ==
  ASSUME IInv, DriveMoves
  PROVE  Progress'
<1>1. /\ drive'.out = drive.out /\ drive'.goal = drive.goal /\ drive'.homed = drive.homed
      /\ drive'.position \in {"between", drive.goal}
  BY DEF DriveMoves, IInv, TypeOK
<1>2. drive.homed /\ drive.goal # "none" /\ drive.position # drive.goal
  BY DEF DriveMoves
<1>3. pc \notin StartPlaces /\ (Moving1 \/ Moving2)
  BY <1>2 DEF IInv, Progress, BeforeStart, Shuttling, ToDrive, SwitchingOn, Enabling, ToHoming, Homing, Unhomed,
              Homed, Arrived, Preparing1, Leaving1, Preparing2, Moving1, Moving2, Unmoved, At, Bound
<1>4. CASE Moving1
  <2>1. drive.out = Program!Move("T1") /\ Bound("T1")
    BY <1>2, <1>4 DEF Moving1, Unmoved, At
  <2> QED
    BY <1>1, <1>2, <1>3, <1>4, <2>1 DEF DriveMoves, Moving1, Bound, Shuttling, Progress
<1>5. CASE Moving2
  <2>1. drive.out = Program!Move("T2") /\ Bound("T2")
    BY <1>2, <1>5 DEF Moving2, Unmoved, At
  <2> QED
    BY <1>1, <1>2, <1>3, <1>5, <2>1 DEF DriveMoves, Moving2, Bound, Shuttling, Progress
<1> QED
  BY <1>3, <1>4, <1>5

----------------------------------------------------------------------------
(* The invariant.                                                            *)

LEMMA InitInv == Init => IInv
<1> SUFFICES ASSUME Init
             PROVE  IInv
  OBVIOUS
<1>1. FrameIsCurrent /\ TakenBeforeStep
  BY DEF Init, FrameIsCurrent, TakenBeforeStep, NoFrame
<1>2. outputs = Idle /\ drive.out = Idle /\ drive.goal = "none"
  BY DEF Init, ZeroOutputs
<1>3. ~ drive.homed /\ ~ inputs.homed
  BY DEF Init
<1> QED
  BY <1>1, <1>2, <1>3, TypeInit DEF IInv, Progress, BeforeStart, Init

LEMMA SendKeeps ==
  ASSUME IInv, Send, UNCHANGED <<outputs, inputs, drive, step>>, pc \notin StartPlaces => pc' \notin StartPlaces,
         pc' \in {"started", "opcheck", "receive", "rereceive"}
  PROVE  FrameIsCurrent' /\ Progress' /\ TakenBeforeStep'
<1>1. Progress'
  BY ProgressStays DEF IInv
<1>2. frame'.sent /\ frame'.out = outputs
  BY DEF Send
<1> QED
  BY <1>1, <1>2 DEF FrameIsCurrent, TakenBeforeStep

LEMMA ReceiveKeeps ==
  ASSUME IInv, AnyExchange, step' = step, pc \notin StartPlaces => pc' \notin StartPlaces,
         pc' = "time" => Exchanged, pc' # "switch"
  PROVE  FrameIsCurrent' /\ Progress' /\ TakenBeforeStep'
<1>1. Progress'
  BY ExchangeKeeps
<1>2. FrameIsCurrent'
  BY ExchangeEffect DEF FrameIsCurrent, NoFrame
<1>3. TakenBeforeStep'
  BY ExchangeEffect DEF TakenBeforeStep
<1> QED
  BY <1>1, <1>2, <1>3

LEMMA StepInv == IInv /\ [Next]_vars => IInv'
<1> SUFFICES ASSUME IInv, [Next]_vars
             PROVE  FrameIsCurrent' /\ Progress' /\ TakenBeforeStep'
  BY TypeStep DEF IInv
<1>1. CASE StartSend
  BY <1>1, SendKeeps DEF StartSend, Goto, StartPlaces
<1>2. CASE StartReceive
  BY <1>2, ReceiveKeeps DEF StartReceive, Goto, StartPlaces
<1>3. CASE OpSend
  BY <1>3, SendKeeps DEF OpSend, Goto, StartPlaces
<1>4. CASE OpCheck
  BY <1>4, ReceiveKeeps DEF OpCheck, Goto, StartPlaces
<1>5. CASE Configure
  <2>1. Progress'
    BY <1>5, ProgressStays DEF Configure, Goto, StartPlaces, IInv
  <2> QED
    BY <1>5, <2>1 DEF Configure, Goto, IInv, FrameIsCurrent, TakenBeforeStep
<1>6. CASE Top
  <2>1. Progress'
    BY <1>6, ProgressStays DEF Top, Goto, StartPlaces, IInv
  <2>2. CASE Send
    BY <1>6, <2>2, SendKeeps DEF Top, Goto, StartPlaces
  <2>3. CASE UNCHANGED frame
    BY <1>6, <2>1, <2>3 DEF Top, Goto, IInv, FrameIsCurrent, TakenBeforeStep
  <2> QED
    BY <1>6, <2>2, <2>3 DEF Top
<1>7. CASE Receive \/ Rereceive
  BY <1>7, ReceiveKeeps DEF Receive, Rereceive, AnyExchange, Goto, StartPlaces
<1>8. CASE Resend
  BY <1>8, SendKeeps DEF Resend, Goto, StartPlaces
<1>9. CASE CheckTime
  <2>1. Progress'
    BY <1>9, ProgressStays DEF CheckTime, Goto, StartPlaces, IInv
  <2> QED
    BY <1>9, <2>1 DEF CheckTime, Goto, IInv, FrameIsCurrent, TakenBeforeStep
<1>10. CASE Switch
  BY <1>10, SwitchKeeps DEF Switch, Goto, IInv, FrameIsCurrent, TakenBeforeStep
<1>11. CASE TimePasses \/ UNCHANGED vars
  <2>1. Progress'
    BY <1>11, ProgressStays DEF TimePasses, vars, IInv
  <2> QED
    BY <1>11, <2>1 DEF TimePasses, vars, IInv, FrameIsCurrent, TakenBeforeStep
<1>12. CASE DriveHomes
  <2>1. drive'.out = drive.out
    BY <1>12 DEF DriveHomes, IInv, TypeOK
  <2> QED
    BY <1>12, <2>1, HomesKeeps DEF DriveHomes, IInv, FrameIsCurrent, TakenBeforeStep
<1>13. CASE DriveMoves
  <2>1. drive'.out = drive.out
    BY <1>13 DEF DriveMoves, IInv, TypeOK
  <2> QED
    BY <1>13, <2>1, MovesKeeps DEF DriveMoves, IInv, FrameIsCurrent, TakenBeforeStep
<1> QED
  BY <1>1, <1>2, <1>3, <1>4, <1>5, <1>6, <1>7, <1>8, <1>9, <1>10, <1>11, <1>12, <1>13 DEF Next, Loop, Environment

\* The loop, the drive and what is on the bus keep in step.
THEOREM KeepsInStep == Spec => []IInv
BY InitInv, StepInv, PTL DEF Spec

\* What each step wrote was taken by the drive before the next step runs:
\* the reconnection loop holds the step machine back until an exchange with
\* the full work counter, whatever was lost before.
THEOREM NoStepIsSkipped == Spec => []StepsReachDrive
<1>1. IInv => StepsReachDrive
  BY DEF IInv, TakenBeforeStep, StepsReachDrive
<1> QED
  BY <1>1, KeepsInStep, PTL

\* Receiving process data never changes the outputs, although a returning LRW
\* frame is copied over them.
THEOREM OutputsAreNotUndone == Spec => ReceiveKeepsOutputs
<1>1. ASSUME IInv, [Next]_vars
      PROVE  [(pc \in {"started", "opcheck", "receive", "rereceive"} /\ pc' # pc) => outputs' = outputs]_vars
  <2>1. CASE StartReceive \/ OpCheck \/ Receive \/ Rereceive
    BY <1>1, <2>1, ExchangeEffect DEF StartReceive, OpCheck, Receive, Rereceive, AnyExchange
  <2>2. CASE Switch
    BY <2>2 DEF Switch
  <2>3. CASE StartSend \/ OpSend \/ Configure \/ Top \/ Resend \/ CheckTime \/ Environment
    BY <2>3 DEF StartSend, OpSend, Configure, Top, Resend, CheckTime, Environment, TimePasses, DriveHomes, DriveMoves
  <2> QED
    BY <1>1, <2>1, <2>2, <2>3 DEF Next, Loop
<1> QED
  BY <1>1, KeepsInStep, PTL DEF Spec, ReceiveKeepsOutputs

\* A loop is counted only when the drive is at the second target and was sent
\* there, although the step machine reads the inputs of an earlier exchange.
THEOREM CountsRoundsMade == Spec => CountedAtTarget
<1>1. ASSUME IInv, [Next]_vars, loops' # loops
      PROVE  drive.goal = "T2" /\ drive.position = "T2"
  <2>1. Switch /\ Step8 /\ inputs.position = "T2"
    BY <1>1 DEF Next, Loop, Environment, vars, StartSend, StartReceive, OpSend, OpCheck, Configure, Top, Receive, Resend,
                Rereceive, CheckTime, TimePasses, DriveHomes, DriveMoves, Switch, InPosition,
                Step0, Step1, Step2, Step3, Step4, Step5, Step6, Step7, Step8, StepTimeUp
  <2>2. drive.out = outputs /\ Progress /\ step = 8
    BY <1>1, <2>1 DEF IInv, TakenBeforeStep, Switch, Step8
  <2>3. Preparing2 \/ Moving2
    BY <2>2 DEF Progress, ToDrive, Shuttling, SwitchingOn, Enabling, ToHoming, Homing, Homed, Arrived, Preparing1, Moving1, Leaving1
  <2> QED
    BY <2>1, <2>2, <2>3 DEF Preparing2, Moving2, At, Bound
<1>2. IInv /\ [Next]_vars => [loops' # loops => drive.goal = "T2" /\ drive.position = "T2"]_vars
  BY <1>1
<1> QED
  BY <1>2, KeepsInStep, PTL DEF Spec, CountedAtTarget

----------------------------------------------------------------------------
(* The refinement.  A frame the drive takes either repeats the command it has *)
(* or gives it the one the program has next.                                 *)

LEMMA TakesFollows ==
  ASSUME Progress, drive.out # outputs
  PROVE  /\ Program!Follows(outputs)
         /\ outputs \in {Program!SwitchOn, Program!Enable, Program!HomingMode, Program!StartHoming,
                         Program!Prepare("T1"), Program!Prepare("T2"), Program!Move("T1"), Program!Move("T2")}
         /\ outputs.control_word = "move" => drive.out.control_word # "move"
<1>1. ~ BeforeStart /\ (ToDrive \/ Shuttling)
  BY DEF Progress, BeforeStart
<1>2. CASE SwitchingOn \/ Enabling
  BY <1>2 DEF SwitchingOn, Enabling, Program!Follows
<1>3. CASE ToHoming
  <2>1. drive.out = Program!Enable /\ outputs = Program!HomingMode /\ ~ drive.homed
    BY <1>3 DEF ToHoming, Unhomed
  <2> QED
    BY <2>1 DEF Program!Follows
<1>4. CASE Homing
  <2>1. drive.out = Program!HomingMode /\ outputs = Program!StartHoming
    BY <1>4 DEF Homing
  <2> QED
    BY <2>1 DEF Program!Follows
<1>5. CASE Shuttling
  <2>1. drive.homed
    BY <1>5 DEF Shuttling
  <2>2. CASE Homed \/ Arrived
    BY <2>1, <2>2 DEF Homed, Arrived, Program!Follows
  <2>3. CASE Preparing1
    <3>1. outputs = Program!Prepare("T1")
      BY <2>3 DEF Preparing1
    <3>2. drive.out = Program!Enable \/ (drive.out = Program!Move("T2") /\ drive.position = "T2")
      BY <2>3 DEF Preparing1, At
    <3> QED
      BY <2>1, <3>1, <3>2 DEF Program!Follows
  <2>4. CASE Moving1 \/ Leaving1
    BY <2>4 DEF Moving1, Leaving1, Program!Follows
  <2>5. CASE Preparing2
    BY <2>5 DEF Preparing2, At, Program!Follows
  <2>6. CASE Moving2
    BY <2>6 DEF Moving2, Program!Follows
  <2> QED
    BY <1>5, <2>2, <2>3, <2>4, <2>5, <2>6 DEF Shuttling
<1> QED
  BY <1>1, <1>2, <1>3, <1>4, <1>5 DEF ToDrive

LEMMA TakesRefines ==
  ASSUME Progress, Takes
  PROVE  [Program!Next]_(Program!vars)
<1>1. CASE drive.out = outputs
  BY <1>1 DEF Takes, Program!vars
<1>2. CASE drive.out # outputs
  <2>1. drive'.goal = IF outputs.control_word = "move" THEN outputs.target_position ELSE drive.goal
    BY <1>2, TakesFollows DEF Takes
  <2>2. drive'.out = outputs /\ drive'.homed = drive.homed /\ drive'.position = drive.position
    BY DEF Takes
  <2>3. Program!Take
    BY <1>2, <2>1, <2>2, TakesFollows DEF Program!Take
  <2> QED
    BY <2>3 DEF Program!Next
<1> QED
  BY <1>1, <1>2

LEMMA ExchangeRefines ==
  ASSUME IInv, AnyExchange, step' = step
  PROVE  [Program!Next]_(Program!vars)
<1>1. CASE Takes
  BY <1>1, TakesRefines DEF IInv
<1>2. CASE UNCHANGED <<outputs, inputs, drive, step>>
  BY <1>2 DEF Program!vars
<1> QED
  BY <1>1, <1>2, ExchangeEffect

LEMMA StepRefines ==
  ASSUME IInv, [Next]_vars
  PROVE  [Program!Next]_(Program!vars)
<1>1. CASE StartReceive \/ OpCheck \/ Receive \/ Rereceive
  BY <1>1, ExchangeRefines DEF StartReceive, OpCheck, Receive, Rereceive, AnyExchange
<1>2. CASE DriveHomes
  <2>1. drive.out.control_word = "home" /\ ~ drive.homed
    BY <1>2 DEF DriveHomes
  <2>2. drive.out = Program!StartHoming
    BY <2>1 DEF IInv, Progress, BeforeStart, Shuttling, ToDrive, SwitchingOn, Enabling, ToHoming, Homing
  <2>3. /\ drive'.out = drive.out /\ drive'.goal = drive.goal
        /\ drive'.homed = TRUE /\ drive'.position \in Position
    BY <1>2 DEF DriveHomes, IInv, TypeOK
  <2> QED
    BY <2>1, <2>2, <2>3 DEF Program!Home, Program!Next, Position
<1>3. CASE DriveMoves
  <2>1. /\ drive'.out = drive.out /\ drive'.goal = drive.goal /\ drive'.homed = drive.homed
        /\ drive'.position \in {"between", drive.goal}
    BY <1>3 DEF DriveMoves, IInv, TypeOK
  <2> QED
    BY <1>3, <2>1 DEF DriveMoves, Program!Travel, Program!Next
<1>4. CASE StartSend \/ OpSend \/ Configure \/ Top \/ Resend \/ CheckTime \/ Switch \/ TimePasses \/ UNCHANGED vars
  <2>1. UNCHANGED drive
    BY <1>4 DEF StartSend, OpSend, Configure, Top, Resend, CheckTime, Switch, TimePasses, vars
  <2> QED
    BY <2>1 DEF Program!vars
<1> QED
  BY <1>1, <1>2, <1>3, <1>4 DEF Next, Loop, Environment

\* The frames the drive takes follow the program of the step machine: no
\* command is left out, repeated out of turn or given before the drive is
\* where the one before was to bring it, whatever frames are lost.
THEOREM DriveFollowsProgram == Spec => RunsProgram
<1>1. Init => Program!Init
  <2> SUFFICES ASSUME Init
               PROVE  Program!Init
    OBVIOUS
  <2>1. drive.out = Program!Nothing /\ drive.goal = "none" /\ drive.position \in Position
    BY DEF Init, ZeroOutputs
  <2>2. drive.homed = FALSE
    BY DEF Init
  <2> QED
    BY <2>1, <2>2 DEF Program!Init, Position
<1>2. IInv /\ [Next]_vars => [Program!Next]_(Program!vars)
  BY StepRefines
<1> QED
  BY <1>1, <1>2, KeepsInStep, PTL DEF Spec, RunsProgram, Program!Spec
=============================================================================
