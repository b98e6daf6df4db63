---------------------------- MODULE Manipulators ----------------------------
(***************************************************************************)
(* The robot thread of Robot.java once more, reduced to the gear shifter,  *)
(* the intake arm and the intake roller.  Buttons set the fields shifted,  *)
(* intakeDown and intake in the first half of a loop pass; the second half *)
(* copies the fields to the outputs.  The fields and the outputs outlive   *)
(* every change of mode.                                                   *)
(***************************************************************************)
EXTENDS SimpleRobot, Naturals

VARIABLES
  shifted, intakeDown, intake,  \* fields of Robot
  arm,      \* intake_1, intake_2: "none" before the first write, "down" or "up"
  gear,     \* shift_1, shift_2: "none", "high" (shifted) or "low"
  roller,   \* last command to intakeMotor
  armStick  \* history: the arm buttons were used in this pass

fields  == <<shifted, intakeDown, intake>>
outputs == <<arm, gear, roller>>
vars    == <<ds, pc, fields, outputs, armStick>>

Init ==
  /\ FrameworkInit
  /\ shifted = FALSE /\ intakeDown = TRUE /\ intake = 0
  /\ arm = "none" /\ gear = "none" /\ roller = "stop"
  /\ armStick = FALSE

Go(from, to) == pc = from /\ pc' = to /\ UNCHANGED ds
-----------------------------------------------------------------------------
DriverStationChange == DriverStation /\ UNCHANGED <<fields, outputs, armStick>>

Framework == (Dispatch \/ ModeOver) /\ UNCHANGED <<fields, outputs, armStick>>

\* Mutant: the field is not set along with the solenoids.
AutonomousArmOnly ==
  /\ Go("autoInit", "autoEnd")
  /\ arm' = "down"
  /\ UNCHANGED <<fields, gear, roller, armStick>>

\* autonomous() lowers the arm first; nothing after that concerns this slice.
Autonomous ==
  /\ Go("autoInit", "autoEnd")
  /\ arm' = "down" /\ intakeDown' = TRUE
  /\ UNCHANGED <<shifted, intake, gear, roller, armStick>>

\* operatorControl() up to its loop touches nothing of this slice.
OperatorControl == Go("teleInit", "loop") /\ UNCHANGED <<fields, outputs, armStick>>

LoopExit ==
  /\ ds # "operator"
  /\ Go("loop", "teleEnd")
  /\ UNCHANGED <<fields, outputs, armStick>>

\* Mutant: the stick is not part of one chain, arm and gear buttons both act.
LeftStickBoth ==
  \E gearUp, gearDown, armUp, armDown \in BOOLEAN :
     /\ shifted' = (gearUp \/ (shifted /\ ~gearDown))
     /\ intakeDown' = (~armUp /\ (armDown \/ intakeDown))
     /\ armStick' = (armUp /\ ~gearUp)

\* Buttons 3, 4, 5 and 6 of the left stick, the first one held wins.
LeftStick ==
  \/ shifted' \in BOOLEAN /\ armStick' = FALSE /\ UNCHANGED intakeDown
  \/ intakeDown' \in BOOLEAN /\ armStick' = TRUE /\ UNCHANGED shifted

\* The first half of a pass; on the right stick button 3 beats button 4.
Sticks ==
  /\ ds = "operator"
  /\ Go("loop", "outputs")
  /\ LeftStick
  /\ intake' \in {0, 1, 2}
  /\ UNCHANGED outputs

SetIntakeMotor(status) ==
  CASE status = 0 -> "stop"
    [] status = 1 -> "forward"
    [] status = 2 -> "backward"

\* The second half of a pass.
SetOutputs ==
  /\ Go("outputs", "loop")
  /\ roller' = SetIntakeMotor(intake)
  /\ arm' = IF intakeDown THEN "down" ELSE "up"
  /\ gear' = IF shifted THEN "high" ELSE "low"
  /\ UNCHANGED <<fields, armStick>>
-----------------------------------------------------------------------------
Next ==
  \/ DriverStationChange \/ Framework \/ Autonomous
  \/ OperatorControl \/ LoopExit \/ Sticks \/ SetOutputs

Spec == Init /\ [][Next]_vars
-----------------------------------------------------------------------------
\* The fields and outputs keep to the values the code gives them; intake is one
\* of the three commands SetIntakeMotor() knows (Robot.java:192-199, 268-288).
TypeOK ==
  /\ ds \in Mode
  /\ pc \in FrameworkPc \cup {"autoInit", "teleInit", "loop", "outputs"}
  /\ shifted \in BOOLEAN /\ intakeDown \in BOOLEAN /\ intake \in 0 .. 2
  /\ arm \in {"none", "down", "up"}
  /\ gear \in {"none", "high", "low"}
  /\ roller \in {"stop", "forward", "backward"}
  /\ armStick \in BOOLEAN

\* The operator's loop never moves the intake arm by itself: not at the first
\* pass after autonomous(), which leaves it down, and not while a gear button
\* is held (Robot.java:57-60, 163-174, 246-253).
ArmMovesOnRequest ==
  [][arm # "none" /\ arm' # arm => pc = "autoInit" \/ armStick]_vars

\* Wherever a pass was ended by a mode change, the roller, the arm and the
\* gear match the fields as soon as the pass is over, and every field and output
\* keeps its type (Robot.java:243-260).
OutputsMatch ==
  /\ TypeOK
  /\ pc # "outputs" =>
       /\ roller = SetIntakeMotor(intake)
       /\ arm = "none" \/ arm = (IF intakeDown THEN "down" ELSE "up")
       /\ gear = "none" \/ gear = (IF shifted THEN "high" ELSE "low")
=============================================================================
