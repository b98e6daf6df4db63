------------------------- MODULE RobotControlProofs -------------------------
(***************************************************************************)
(* Proofs about RobotControl for every distance, time and bound that       *)
(* satisfies RobotAssumption.                                              *)
(***************************************************************************)
EXTENDS RobotControl, TLAPS

(* Inductive strengthenings.                                               *)

\* autonomous() stopped the winch before it ever opens the latch.
WindingInv ==
  /\ WindingIsLatched
  /\ pc \in AutoPc \ {"autoInit"} => wench = "stop"

\* What was wound carries the flag that the last else of the chain looks at, and the
\* latch is closed on it.
WoundInv == wound => pressed /\ lock = "engaged"

\* At the end of a pass (loop, w6) the encoder was below the target when this
\* pass last looked; further up the chain it was so in the previous pass.
OvershootInv ==
  ~relatched /\ wench = "wind" =>
    /\ pc \in {"loop", "w6"} => enc < WindTarget + slip
    /\ pc \in {"drive", "w1", "w2", "w3", "w4", "w5"} => enc < WindTarget + Slip + slip

\* How late autonomous() can be in each of its loops.
AutoInv ==
  Prompt =>
    /\ pc \in {"autoHold", "autoNet"} => drive = "stop" /\ drv = 0
    /\ pc = "autoDrive" => \/ drive = "stop" /\ drv = 0
                           \/ drive = "forward" /\ time <= stall
    /\ pc = "autoSettle" => \/ drive = "stop" /\ time < FireTime + stall
                            \/ drive = "forward" /\ time <= MaxStall + stall
    /\ pc = "autoFire" => /\ drive = "stop" /\ time >= FireTime
                          /\ lock = "released" \/ time < FireTime + MaxStall + stall
    /\ pc = "autoEnd" => lock = "released"
-----------------------------------------------------------------------------
LEMMA FlagsStep == FlagsOK /\ [Next]_vars => FlagsOK'
<1> SUFFICES ASSUME FlagsOK, [Next]_vars
             PROVE  FlagsOK'
  OBVIOUS
<1> USE DEF FlagsOK, fields, winch
<1>1. CASE DriverStationChange \/ FrameworkDispatch \/ FrameworkModeOver
  BY <1>1, Zenon DEF DriverStationChange, FrameworkDispatch, FrameworkModeOver
<1>2. CASE Autonomous
  BY <1>2, Zenon DEF Autonomous, AutoInit, AutoHold, AutoHoldDone, AutoListened,
                     AutoDrive, AutoDriveDone, AutoSettle, AutoSettleDone,
                     AutoFire, AutoReturn
<1>3. CASE OperatorControl
  BY <1>3, Zenon DEF OperatorControl, TeleInit, LoopPass, LoopExit, DriveStick,
                     LowerArm, LatchArm, Wind, Fire, HoldWound, ManualWinch, NextTest
<1>4. CASE Machine
  BY <1>4, Zenon DEF Machine, WinchTurns, ArmMoves, WheelsTurn, Tick
<1>5. CASE UNCHANGED vars
  BY <1>5, Zenon DEF vars
<1>6. QED
  BY <1>1, <1>2, <1>3, <1>4, <1>5 DEF Next, Thread

LEMMA TypeStep == TypeOK /\ [Next]_vars => TypeOK'
<1> SUFFICES ASSUME TypeOK, [Next]_vars
             PROVE  TypeOK'
  OBVIOUS
<1>0. FlagsOK'
  BY FlagsStep DEF TypeOK
<1> USE RobotAssumption, <1>0
<1> USE DEF TypeOK, Pc, FrameworkPc, AutoPc, LoopPc, Mode, fields, winch, travel
<1>1. CASE DriverStationChange
  BY <1>1 DEF DriverStationChange, DriverStation
<1>2. CASE FrameworkDispatch \/ FrameworkModeOver
  BY <1>2 DEF FrameworkDispatch, FrameworkModeOver, Dispatch, ModeOver, MethodOf
<1>3. CASE Autonomous
  BY <1>3 DEF Autonomous, AutoInit, AutoHold, AutoHoldDone, AutoListened,
              AutoDrive, AutoDriveDone, AutoSettle, AutoSettleDone, AutoFire,
              AutoReturn, Go
<1>4. CASE OperatorControl
  BY <1>4 DEF OperatorControl, TeleInit, LoopPass, LoopExit, DriveStick, LowerArm,
              LatchArm, Wind, Fire, HoldWound, ManualWinch, NextTest, Go
<1>5. CASE Machine
  BY <1>5 DEF Machine, WinchTurns, ArmMoves, WheelsTurn, Tick
<1>6. CASE UNCHANGED vars
  BY <1>6 DEF vars
<1>7. QED
  BY <1>1, <1>2, <1>3, <1>4, <1>5, <1>6 DEF Next, Thread

LEMMA TypeInit == Init => TypeOK
<1> SUFFICES ASSUME Init
             PROVE  TypeOK
  OBVIOUS
<1>1. FlagsOK
  BY Zenon DEF Init, FlagsOK
<1>2. QED
  BY <1>1, RobotAssumption DEF Init, FrameworkInit, TypeOK, Mode, Pc, FrameworkPc

\* Every field, output and sensor keeps its range in every step of the thread,
\* the mechanism and the driver station (Robot.java:54-292).
THEOREM TypeCorrect == Spec => []TypeOK
<1>1. QED
  BY TypeInit, TypeStep, PTL DEF Spec
-----------------------------------------------------------------------------
LEMMA WindingStep == TypeOK /\ WindingInv /\ [Next]_vars => WindingInv'
<1> SUFFICES ASSUME TypeOK, WindingInv, [Next]_vars
             PROVE  WindingInv'
  OBVIOUS
<1> USE DEF WindingInv, WindingIsLatched, AutoPc, fields, winch
<1>1. CASE DriverStationChange \/ FrameworkDispatch \/ FrameworkModeOver
  BY <1>1 DEF DriverStationChange, FrameworkDispatch, FrameworkModeOver,
              DriverStation, Dispatch, ModeOver, MethodOf, Mode, TypeOK
<1>2. CASE Autonomous
  BY <1>2 DEF Autonomous, AutoInit, AutoHold, AutoHoldDone, AutoListened,
              AutoDrive, AutoDriveDone, AutoSettle, AutoSettleDone,
              AutoFire, AutoReturn, Go
<1>3. CASE OperatorControl
  BY <1>3 DEF OperatorControl, TeleInit, LoopPass, LoopExit, DriveStick,
              LowerArm, LatchArm, Wind, WindCondition, Fire, HoldWound,
              ManualWinch, NextTest, Go
<1>4. CASE Machine
  BY <1>4 DEF Machine, WinchTurns, ArmMoves, WheelsTurn, Tick
<1>5. CASE UNCHANGED vars
  BY <1>5 DEF vars
<1>6. QED
  BY <1>1, <1>2, <1>3, <1>4, <1>5 DEF Next, Thread

\* In every mode, and across every change of mode, the winch motor pulls only
\* while the latch is closed (Robot.java:59, 104, 212-236).
THEOREM WindingLatched == Spec => []WindingIsLatched
<1>1. Init => WindingInv
  BY DEF Init, FrameworkInit, WindingInv, WindingIsLatched, AutoPc
<1>2. Spec => []WindingInv
  BY <1>1, WindingStep, TypeCorrect, PTL DEF Spec
<1>3. QED
  BY <1>2, PTL DEF WindingInv

LEMMA WoundStep ==
  TypeOK /\ WindingInv /\ WoundInv /\ [Next]_vars => WoundInv'
<1> SUFFICES ASSUME TypeOK, WindingInv, WoundInv, [Next]_vars
             PROVE  WoundInv'
  OBVIOUS
<1> USE DEF WoundInv, fields, winch
<1>1. CASE DriverStationChange \/ FrameworkDispatch \/ FrameworkModeOver
  BY <1>1, Zenon DEF DriverStationChange, FrameworkDispatch, FrameworkModeOver
<1>2. CASE Autonomous
  BY <1>2, Zenon DEF Autonomous, AutoInit, AutoHold, AutoHoldDone, AutoListened,
                     AutoDrive, AutoDriveDone, AutoSettle, AutoSettleDone,
                     AutoFire, AutoReturn
<1>3. CASE OperatorControl
  BY <1>3, Zenon DEF OperatorControl, TeleInit, LoopPass, LoopExit, DriveStick,
                     LowerArm, LatchArm, Wind, Fire, HoldWound, ManualWinch, NextTest
<1>4. CASE Machine
  BY <1>4, Zenon DEF Machine, WinchTurns, ArmMoves, WheelsTurn, Tick,
                     WindingInv, WindingIsLatched
<1>5. CASE UNCHANGED vars
  BY <1>5, Zenon DEF vars
<1>6. QED
  BY <1>1, <1>2, <1>3, <1>4, <1>5 DEF Next, Thread

LEMMA ReleaseStep ==
  WoundInv /\ [Next]_vars => [wound /\ lock' # "engaged" => pc \in {"w4", "autoFire"}]_vars
<1> SUFFICES ASSUME WoundInv, Next, wound, lock' # "engaged"
             PROVE  pc \in {"w4", "autoFire"}
  OBVIOUS
<1> USE DEF WoundInv, winch
<1>1. CASE DriverStationChange \/ FrameworkDispatch \/ FrameworkModeOver
  BY <1>1 DEF DriverStationChange, FrameworkDispatch, FrameworkModeOver
<1>2. CASE Autonomous
  BY <1>2 DEF Autonomous, AutoInit, AutoHold, AutoHoldDone, AutoListened,
              AutoDrive, AutoDriveDone, AutoSettle, AutoSettleDone,
              AutoFire, AutoReturn, Go
<1>3. CASE OperatorControl
  BY <1>3 DEF OperatorControl, TeleInit, LoopPass, LoopExit, DriveStick,
              LowerArm, LatchArm, Wind, Fire, HoldWound, ManualWinch, NextTest, Go
<1>4. CASE Machine
  BY <1>4 DEF Machine, WinchTurns, ArmMoves, WheelsTurn, Tick
<1>5. QED
  BY <1>1, <1>2, <1>3, <1>4 DEF Next, Thread

\* What the motor has wound is let go only by the trigger or at the end of
\* autonomous(), after any history of passes, buttons and modes: the fields that
\* protect it are never set back before the latch is opened (Robot.java:90-95, 205-236).
THEOREM TriggerReleases == Spec => OnlyTriggerReleases
<1>1. Init => WindingInv /\ WoundInv
  BY DEF Init, FrameworkInit, WindingInv, WindingIsLatched, WoundInv, AutoPc
<1>2. Spec => []WoundInv
  BY <1>1, WindingStep, WoundStep, TypeCorrect, PTL DEF Spec
<1>3. QED
  BY <1>2, ReleaseStep, PTL DEF Spec, OnlyTriggerReleases
-----------------------------------------------------------------------------
LEMMA OvershootStep ==
  TypeOK /\ WindingInv /\ OvershootInv /\ [Next]_vars => OvershootInv'
<1> SUFFICES ASSUME TypeOK, WindingInv, OvershootInv, [Next]_vars
             PROVE  OvershootInv'
  OBVIOUS
<1> USE RobotAssumption
<1> USE DEF OvershootInv, TypeOK, fields, winch
<1>1. CASE DriverStationChange \/ FrameworkDispatch \/ FrameworkModeOver
  BY <1>1 DEF DriverStationChange, FrameworkDispatch, FrameworkModeOver,
              DriverStation, Dispatch, ModeOver, MethodOf, Mode
<1>2. CASE Autonomous
  BY <1>2 DEF Autonomous, AutoInit, AutoHold, AutoHoldDone, AutoListened,
              AutoDrive, AutoDriveDone, AutoSettle, AutoSettleDone,
              AutoFire, AutoReturn, Go
<1>3. CASE TeleInit \/ LoopPass \/ LoopExit \/ DriveStick \/ LowerArm
  BY <1>3 DEF TeleInit, LoopPass, LoopExit, DriveStick, LowerArm, Go
\* While the motor winds, branch 205 is a relatch, which the claim excludes.
<1>4. CASE LatchArm
  BY <1>4 DEF LatchArm, Go
<1>5. CASE Wind
  BY <1>5 DEF Wind, WindCondition, Go
<1>6. CASE Fire \/ HoldWound \/ ManualWinch
  BY <1>6 DEF Fire, HoldWound, ManualWinch, Go
<1>7. CASE NextTest
  BY <1>7 DEF NextTest, HoldCondition, Go, WindingInv, WindingIsLatched
<1>8. CASE Machine
  BY <1>8 DEF Machine, WinchTurns, ArmMoves, WheelsTurn, Tick, LoopPc
<1>9. CASE UNCHANGED vars
  BY <1>9 DEF vars
<1>10. QED
  BY <1>1, <1>2, <1>3, <1>4, <1>5, <1>6, <1>7, <1>8, <1>9
  DEF Next, Thread, OperatorControl

\* The encoder stop of the operator loop works: the rope is never wound two
\* loop passes beyond the target (Robot.java:205-231).
THEOREM Overshoot == Spec => []OvershootBounded
<1>1. Init => WindingInv /\ OvershootInv
  BY DEF Init, FrameworkInit, WindingInv, WindingIsLatched, OvershootInv, AutoPc
<1>2. Spec => [](TypeOK /\ OvershootInv)
  BY <1>1, WindingStep, OvershootStep, TypeCorrect, PTL DEF Spec
<1>3. TypeOK /\ OvershootInv => OvershootBounded
  BY RobotAssumption DEF TypeOK, OvershootInv, OvershootBounded, LoopPc
<1>4. QED
  BY <1>2, <1>3, PTL
-----------------------------------------------------------------------------
LEMMA AutoStep == TypeOK /\ AutoInv /\ [Next]_vars => AutoInv'
<1> SUFFICES ASSUME TypeOK, AutoInv, [Next]_vars, Prompt
             PROVE  AutoInv'
  BY DEF AutoInv, Prompt
<1> USE RobotAssumption
<1> USE DEF AutoInv, Prompt, TypeOK, winch, travel
<1>1. CASE DriverStationChange \/ FrameworkDispatch \/ FrameworkModeOver
  BY <1>1 DEF DriverStationChange, FrameworkDispatch, FrameworkModeOver,
              DriverStation, Dispatch, ModeOver, MethodOf, Mode
<1>2. CASE AutoInit \/ AutoHold \/ AutoHoldDone \/ AutoListened
  BY <1>2 DEF AutoInit, AutoHold, AutoHoldDone, AutoListened, Go
<1>3. CASE AutoDrive
  BY <1>3 DEF AutoDrive, Go
<1>4. CASE AutoDriveDone
  BY <1>4 DEF AutoDriveDone, Go
<1>5. CASE AutoSettle \/ AutoSettleDone
  BY <1>5 DEF AutoSettle, AutoSettleDone, Go
<1>6. CASE AutoFire \/ AutoReturn
  BY <1>6 DEF AutoFire, AutoReturn, Go
<1>7. CASE OperatorControl
  BY <1>7 DEF OperatorControl, TeleInit, LoopPass, LoopExit, DriveStick, LowerArm,
              LatchArm, Wind, Fire, HoldWound, ManualWinch, NextTest, Go
<1>8. CASE WinchTurns \/ ArmMoves \/ WheelsTurn
  BY <1>8 DEF WinchTurns, ArmMoves, WheelsTurn
<1>9. CASE Tick
  BY <1>9 DEF Tick, AutoPc
<1>10. CASE UNCHANGED vars
  BY <1>10 DEF vars
<1>11. QED
  BY <1>1, <1>2, <1>3, <1>4, <1>5, <1>6, <1>7, <1>8, <1>9, <1>10
  DEF Next, Thread, Machine, Autonomous

\* A thread that is never late by more than half a window opens the latch at
\* rest and before autonomous() returns (Robot.java:81-97).
THEOREM FiresAtRest == Spec => []AutoFiresAtRest
<1>1. Init => AutoInv
  BY DEF Init, FrameworkInit, AutoInv
<1>2. Spec => []AutoInv
  BY <1>1, AutoStep, TypeCorrect, PTL DEF Spec
<1>3. AutoInv => AutoFiresAtRest
  BY DEF AutoInv, AutoFiresAtRest
<1>4. QED
  BY <1>2, <1>3, PTL
=============================================================================
