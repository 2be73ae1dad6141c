---------------------------- MODULE FestoProgram ----------------------------
(***************************************************************************)
(* What ethercat_loop() promises the drive: the sequence of commands, as   *)
(* the drive takes them.  It is switched on, enabled, homed, and then sent *)
(* from one target to the other; a set-point is first given with the       *)
(* new-set-point bit low and then, unchanged, with the bit high; a target  *)
(* is left only when the drive has reached it.                             *)
(***************************************************************************)
VARIABLES
  out,       \* the command the drive acts on
  homed,     \* has the drive homed?
  position,  \* where it is
  goal       \* the set-point it took last

vars == <<out, homed, position, goal>>

Command(cw, mode, t, v) ==
  [control_word |-> cw, modes_of_operation |-> mode, target_position |-> t,
   profile_velocity |-> v]

Nothing     == Command("off", "none", "T1", "zero")
SwitchOn    == Command("ready", "none", "T1", "zero")
Enable      == Command("enable", "position", "T1", "zero")
HomingMode  == Command("enable", "homing", "T1", "zero")
StartHoming == Command("home", "homing", "T1", "zero")
Prepare(t)  == Command("enable", "position", t, "set")
Move(t)     == Command("move", "position", t, "set")

Init ==
  /\ out = Nothing
  /\ homed = FALSE
  /\ position \in {"T1", "T2", "between"}
  /\ goal = "none"

\* The command that may follow another one.
Follows(next) ==
  \/ out = Nothing     /\ next = SwitchOn
  \/ out = SwitchOn    /\ next = Enable
  \/ out = Enable      /\ next = IF homed THEN Prepare("T1") ELSE HomingMode
  \/ out = HomingMode  /\ next = StartHoming
  \/ out = StartHoming /\ homed /\ next = Enable
  \/ out = Prepare("T1") /\ next = Move("T1")
  \/ out = Prepare("T2") /\ next = Move("T2")
  \/ out = Move("T1") /\ position = "T1" /\ next = Prepare("T2")
  \/ out = Move("T2") /\ position = "T2" /\ next = Prepare("T1")

Take ==
  \E next \in {SwitchOn, Enable, HomingMode, StartHoming, Prepare("T1"),
               Prepare("T2"), Move("T1"), Move("T2")} :
    /\ Follows(next)
    /\ out' = next
    /\ goal' = IF next.control_word = "move" THEN next.target_position ELSE goal
    /\ UNCHANGED <<homed, position>>

Home ==
  /\ out = StartHoming
  /\ ~ homed
  /\ homed' = TRUE
  /\ position' \in {"T1", "T2", "between"}
  /\ UNCHANGED <<out, goal>>

Travel ==
  /\ homed
  /\ goal # "none"
  /\ position' \in {"between", goal}
  /\ position # goal
  /\ UNCHANGED <<out, homed, goal>>

Next == Take \/ Home \/ Travel

Spec == Init /\ [][Next]_vars
=============================================================================
