---------------------------- MODULE RobotControl ----------------------------
(***************************************************************************)
(* The robot thread of Robot.java: autonomous(), operatorControl() and the *)
(* state they share, reduced to the drive train and the catapult (winch    *)
(* motor, winch encoder, limit switch and the two lock solenoids).         *)
(*                                                                         *)
(* One pass of the operator loop is the sequence "loop", "drive", "w1" ..  *)
(* "w6"; w1 .. w6 are the six tests of the winch if/else chain, which read *)
(* the sensors anew, so the mechanism may move between two tests.  A       *)
(* joystick button is read as either value at each test.                   *)
(***************************************************************************)
EXTENDS SimpleRobot, Integers

CONSTANTS
  WindTarget,   \* encoder count at which winding stops (560)
  EncMax,       \* mechanical end of the winch, in counts either way
  Slip,         \* encoder counts the winch can turn during one loop pass
  DriveTarget,  \* encoder counts driven in autonomous (3400)
  HoldTime,     \* 0.5 s, in clock ticks
  FireTime,     \* 1.8 s
  EndTime,      \* 2 s
  MaxStall      \* clock ticks that can pass between two steps of the thread

ASSUME RobotAssumption ==
  /\ WindTarget \in Nat \ {0} /\ Slip \in Nat \ {0}
  /\ EncMax \in Nat /\ EncMax > WindTarget
  /\ DriveTarget \in Nat \ {0}
  /\ HoldTime \in Nat /\ FireTime \in Nat /\ EndTime \in Nat
  /\ MaxStall \in Nat \ {0}
  /\ FireTime < EndTime

VARIABLES
  pressed, winding, latched,  \* fields of Robot
  lock,                       \* the latch solenoids: "engaged" is lock_1 off and
                              \* lock_2 on, "released" the other way round
  wench,                      \* last command to the winch motor
  drive,                      \* last command to the drive train
  lim,                        \* limit switch input, FALSE when the arm is down
  enc,                        \* winch encoder
  slip,                       \* counts turned since the loop pass began
  relatched,                  \* history: button 2 has kept the chain from the
                              \* encoder test since the motor was last commanded
  wound,                      \* history: the motor has wound since the latch was
                              \* last opened
  drv,                        \* drive encoder drive_1
  time,                       \* timer time_1, stops counting at EndTime
  stall                       \* ticks since the thread's last step

fields == <<pressed, winding, latched>>
winch  == <<lock, wench, lim, enc, slip, relatched, wound>>
travel == <<drive, drv, time, stall>>
vars   == <<ds, pc, fields, winch, travel>>

AutoPc == {"autoInit", "autoHold", "autoNet", "autoDrive", "autoSettle", "autoFire"}
LoopPc == {"loop", "drive", "w1", "w2", "w3", "w4", "w5", "w6"}
-----------------------------------------------------------------------------
Init ==
  /\ FrameworkInit
  /\ pressed = FALSE /\ winding = FALSE /\ latched = FALSE
  /\ lock = "unset" /\ wench = "stop" /\ drive = "stop"
  /\ lim \in BOOLEAN /\ relatched = FALSE /\ wound = FALSE
  /\ enc = 0 /\ slip = 0 /\ drv = 0 /\ time = 0 /\ stall = 0

Go(from, to) == pc = from /\ pc' = to /\ stall' = 0 /\ UNCHANGED ds
-----------------------------------------------------------------------------
(* The framework, with the state of Robot attached.                        *)

DriverStationChange == DriverStation /\ UNCHANGED <<fields, winch, travel>>
FrameworkDispatch   == Dispatch /\ stall' = 0 /\ UNCHANGED <<fields, winch, drive, drv, time>>
FrameworkModeOver   == ModeOver /\ UNCHANGED <<fields, winch, travel>>
-----------------------------------------------------------------------------
(* autonomous().  None of its loops looks at the driver station.           *)

\* Mutant: the winch motor keeps its last teleoperated command.
AutoInitKeepsWinch ==
  /\ Go("autoInit", "autoHold")
  /\ lock' = "engaged" /\ drive' = "stop"
  /\ time' = 0 /\ drv' = 0 /\ relatched' = FALSE
  /\ UNCHANGED <<fields, wench, lim, enc, slip, wound>>

AutoInit ==
  /\ Go("autoInit", "autoHold")
  /\ wench' = "stop" /\ lock' = "engaged" /\ drive' = "stop"
  /\ time' = 0 /\ drv' = 0 /\ relatched' = FALSE
  /\ UNCHANGED <<fields, lim, enc, slip, wound>>

\* Keep the latch closed for half a second.
AutoHold ==
  /\ time < HoldTime
  /\ Go("autoHold", "autoHold")
  /\ lock' = "engaged" /\ drive' = "stop"
  /\ UNCHANGED <<fields, wench, lim, enc, slip, relatched, wound, drv, time>>

AutoHoldDone ==
  /\ time >= HoldTime
  /\ Go("autoHold", "autoNet")
  /\ UNCHANGED <<fields, winch, drive, drv, time>>

\* Network.listenCoor() returns; its result only goes to the dashboard.
AutoListened ==
  /\ Go("autoNet", "autoDrive")
  /\ UNCHANGED <<fields, winch, drive, drv, time>>

\* Mutant: the timer is not restarted.
AutoDriveKeepsTime ==
  /\ drv > -DriveTarget
  /\ Go("autoDrive", "autoDrive")
  /\ drive' = "forward"
  /\ UNCHANGED <<fields, winch, drv, time>>

\* Drive forward; the timer is restarted on every pass.
AutoDrive ==
  /\ drv > -DriveTarget
  /\ Go("autoDrive", "autoDrive")
  /\ drive' = "forward" /\ time' = 0
  /\ UNCHANGED <<fields, winch, drv>>

AutoDriveDone ==
  /\ drv <= -DriveTarget
  /\ Go("autoDrive", "autoSettle")
  /\ UNCHANGED <<fields, winch, drive, drv, time>>

\* Mutant: the timer is restarted here, too.
AutoSettleRestarts ==
  /\ time < FireTime
  /\ Go("autoSettle", "autoSettle")
  /\ drive' = "stop" /\ drv' = 0 /\ time' = 0
  /\ UNCHANGED <<fields, winch>>

AutoSettle ==
  /\ time < FireTime
  /\ Go("autoSettle", "autoSettle")
  /\ drive' = "stop" /\ drv' = 0
  /\ UNCHANGED <<fields, winch, time>>

AutoSettleDone ==
  /\ time >= FireTime
  /\ Go("autoSettle", "autoFire")
  /\ UNCHANGED <<fields, winch, drive, drv, time>>

\* Open the latch for the last 0.2 s.
AutoFire ==
  /\ time >= FireTime /\ time < EndTime
  /\ Go("autoFire", "autoFire")
  /\ lock' = "released" /\ drive' = "stop" /\ drv' = 0 /\ wound' = FALSE
  /\ UNCHANGED <<fields, wench, lim, enc, slip, relatched, time>>

\* The timer runs on, but nothing reads it before autonomous() resets it.
AutoReturn ==
  /\ ~(time >= FireTime /\ time < EndTime)
  /\ Go("autoFire", "autoEnd")
  /\ drive' = "stop" /\ time' = EndTime
  /\ UNCHANGED <<fields, winch, drv>>
-----------------------------------------------------------------------------
(* operatorControl().                                                      *)

\* Mutant: the fields are set afresh.
TeleInitResets ==
  /\ Go("teleInit", "loop")
  /\ wench' = "stop" /\ drv' = 0 /\ slip' = 0 /\ relatched' = FALSE
  /\ pressed' = FALSE /\ winding' = FALSE /\ latched' = FALSE
  /\ UNCHANGED <<lock, lim, enc, wound, drive, time>>

TeleInit ==
  /\ Go("teleInit", "loop")
  /\ wench' = "stop" /\ drv' = 0 /\ slip' = 0 /\ relatched' = FALSE
  /\ UNCHANGED <<fields, lock, lim, enc, wound, drive, time>>

\* while (isOperatorControl() && isEnabled())
LoopPass ==
  /\ ds = "operator"
  /\ Go("loop", "drive")
  /\ slip' = 0
  /\ UNCHANGED <<fields, lock, wench, lim, enc, relatched, wound, drive, drv, time>>

LoopExit ==
  /\ ds # "operator"
  /\ Go("loop", "teleEnd")
  /\ UNCHANGED <<fields, winch, drive, drv, time>>

\* arcadeDrive follows the left stick outside its dead band.
DriveStick ==
  /\ Go("drive", "w1")
  /\ drive' \in {"stop", "manual"}
  /\ UNCHANGED <<fields, winch, drv, time>>

\* Button 2, arm up, not wound: pull the arm down.
LowerArm ==
  /\ lim /\ ~pressed
  /\ Go("w1", "loop")
  /\ wench' = "lower" /\ enc' = 0
  /\ UNCHANGED <<fields, lock, lim, slip, relatched, wound, drive, drv, time>>

\* Button 2, arm down: close the latch.  The winch motor is left as it is.
LatchArm ==
  /\ ~lim
  /\ Go("w2", "loop")
  /\ latched' = TRUE /\ winding' = TRUE /\ lock' = "engaged"
  /\ relatched' = (wench = "wind")
  /\ UNCHANGED <<pressed, wench, lim, enc, slip, wound, drive, drv, time>>

WindCondition == ~lim /\ enc < WindTarget /\ winding

Wind ==
  /\ WindCondition
  /\ Go("w3", "loop")
  /\ pressed' = TRUE /\ lock' = "engaged" /\ wench' = "wind" /\ relatched' = FALSE
  /\ UNCHANGED <<winding, latched, lim, enc, slip, wound, drive, drv, time>>

\* Trigger: open the latch; the winch follows the right stick.
Fire ==
  /\ Go("w4", "loop")
  /\ latched' = FALSE /\ pressed' = FALSE /\ lock' = "released" /\ wench' = "manual"
  /\ relatched' = FALSE /\ wound' = FALSE
  /\ UNCHANGED <<winding, lim, enc, slip, drive, drv, time>>

\* Mutant: off by one.
HoldConditionLate == pressed /\ enc > WindTarget

HoldCondition == pressed /\ enc >= WindTarget

\* Mutant: the motor is not stopped.
HoldWoundRuns ==
  /\ HoldCondition
  /\ Go("w5", "loop")
  /\ lock' = "engaged" /\ winding' = FALSE /\ relatched' = FALSE
  /\ UNCHANGED <<pressed, latched, wench, lim, enc, slip, wound, drive, drv, time>>

HoldWound ==
  /\ HoldCondition
  /\ Go("w5", "loop")
  /\ lock' = "engaged" /\ winding' = FALSE /\ wench' = "stop" /\ relatched' = FALSE
  /\ UNCHANGED <<pressed, latched, lim, enc, slip, wound, drive, drv, time>>

ManualWinch ==
  /\ ~pressed
  /\ Go("w6", "loop")
  /\ wench' = "manual" /\ lock' = "released" /\ wound' = FALSE
  /\ UNCHANGED <<fields, lim, enc, slip, relatched, drive, drv, time>>

\* A test of the chain fails.  Tests 1, 2 and 4 fail when the button is up;
\* after the last test the pass ends with nothing done.
NextTest ==
  /\ \/ Go("w1", "w2")
     \/ Go("w2", "w3")
     \/ ~WindCondition /\ Go("w3", "w4")
     \/ Go("w4", "w5")
     \/ ~HoldCondition /\ Go("w5", "w6")
     \/ pressed /\ Go("w6", "loop")
  /\ UNCHANGED <<fields, winch, drive, drv, time>>
-----------------------------------------------------------------------------
(* The machine.  Motors turn only while the robot is enabled.              *)

\* In the operator loop the winch turns at most Slip counts per pass.
WinchTurns ==
  /\ ds # "disabled"
  /\ \/ wench \in {"wind", "manual"} /\ enc < EncMax /\ enc' = enc + 1
     \/ wench \in {"lower", "manual"} /\ enc > -EncMax /\ enc' = enc - 1
  /\ IF pc \in LoopPc THEN slip < Slip /\ slip' = slip + 1 ELSE UNCHANGED slip
  /\ wound' = (wound \/ wench = "wind")
  /\ UNCHANGED <<ds, pc, fields, lock, wench, lim, relatched, travel>>

ArmMoves ==
  /\ lim' = ~lim
  /\ UNCHANGED <<ds, pc, fields, lock, wench, enc, slip, relatched, wound, travel>>

WheelsTurn ==
  /\ ds # "disabled"
  /\ drive = "forward" /\ drv > -DriveTarget
  /\ drv' = drv - 1
  /\ UNCHANGED <<ds, pc, fields, winch, drive, time, stall>>

\* Time passes in autonomous().  Between two steps of the thread at most
\* MaxStall ticks pass, except in the network call.
Tick ==
  /\ pc \in AutoPc \ {"autoInit"}
  /\ time < EndTime
  /\ pc = "autoNet" \/ stall < MaxStall
  /\ time' = time + 1
  /\ stall' = IF pc = "autoNet" THEN 0 ELSE stall + 1
  /\ UNCHANGED <<ds, pc, fields, winch, drive, drv>>
-----------------------------------------------------------------------------
Autonomous ==
  \/ AutoInit \/ AutoHold \/ AutoHoldDone \/ AutoListened \/ AutoDrive
  \/ AutoDriveDone \/ AutoSettle \/ AutoSettleDone \/ AutoFire \/ AutoReturn

OperatorControl ==
  \/ TeleInit \/ LoopPass \/ LoopExit \/ DriveStick
  \/ LowerArm \/ LatchArm \/ Wind \/ Fire \/ HoldWound \/ ManualWinch \/ NextTest

Thread == FrameworkDispatch \/ FrameworkModeOver \/ Autonomous \/ OperatorControl

Machine == WinchTurns \/ ArmMoves \/ WheelsTurn \/ Tick

Next == DriverStationChange \/ Thread \/ Machine

Spec == Init /\ [][Next]_vars

\* The thread is never descheduled for ever, the clock runs, the wheels turn
\* when driven and the winch turns when it winds.
FairSpec ==
  /\ Spec
  /\ WF_vars(Thread) /\ WF_vars(Tick) /\ WF_vars(WheelsTurn)
  /\ WF_vars(wench = "wind" /\ WinchTurns)
-----------------------------------------------------------------------------
(* Properties.                                                             *)

Pc == FrameworkPc \cup AutoPc \cup LoopPc \cup {"teleInit"}

FlagsOK ==
  /\ pressed \in BOOLEAN /\ winding \in BOOLEAN /\ latched \in BOOLEAN
  /\ lim \in BOOLEAN /\ relatched \in BOOLEAN /\ wound \in BOOLEAN

\* The values the fields, outputs and sensors can take; in particular the two
\* lock solenoids are always commanded oppositely (Robot.java:61-62, 209-235).
TypeOK ==
  /\ FlagsOK
  /\ ds \in Mode /\ pc \in Pc
  /\ lock \in {"unset", "engaged", "released"}
  /\ wench \in {"stop", "lower", "wind", "manual"}
  /\ drive \in {"stop", "forward", "manual"}
  /\ enc \in -EncMax .. EncMax
  /\ slip \in 0 .. Slip
  /\ drv \in -DriveTarget .. 0
  /\ time \in 0 .. EndTime
  /\ stall \in 0 .. MaxStall

\* The winch only pulls against a closed latch, in every mode and whatever
\* mode changes happened since winding began (Robot.java:59, 104, 212-236).
WindingIsLatched ==
  wench = "wind" => lock = "engaged" /\ pressed /\ winding

\* What the motor has wound stays latched, over any number of passes and modes, until
\* the trigger or the end of autonomous() lets it go.  Only the field pressed keeps the
\* last else of the chain, which opens the latch in every pass, from doing so.  An arm
\* that button 2 has latched but the motor has not wound is not protected: that else
\* does let it go (Robot.java:90-95, 205-236).
OnlyTriggerReleases ==
  [][wound /\ lock' # "engaged" => pc \in {"w4", "autoFire"}]_vars

\* The rope is not overwound: while the operator loop winds, the encoder is
\* less than two loop passes beyond the target, unless button 2 held down has
\* kept the chain from its encoder test since (Robot.java:205-231).
OvershootBounded ==
  ~relatched /\ pc \in LoopPc /\ wench = "wind" => enc < WindTarget + 2 * Slip

\* The thread is never late enough to skip a window of autonomous().
Prompt == 2 * MaxStall < FireTime /\ 2 * MaxStall <= EndTime - FireTime

\* A prompt autonomous() stands still when it opens the latch, and does not
\* return without having opened it (Robot.java:81-97).
AutoFiresAtRest ==
  Prompt =>
    /\ pc = "autoFire" => drive = "stop"
    /\ pc = "autoEnd" => lock = "released"

\* autonomous() hands over although it ignores the driver station: if the
\* mode stays "operator" the thread ends up in the operator loop for ever, or
\* in the framework's wait behind it.  The second case is a mode change seen
\* by the loop (Robot.java:109) and taken back before the framework looked.
TeleopReached ==
  <>[](ds = "operator") => <>[](pc \in LoopPc \cup {"teleEnd"})

\* Winding ends by itself: in a lasting operator mode the motor pulls for ever
\* only if button 2 is held for ever (Robot.java:205-231).
WindingEnds ==
  <>[](pc \in LoopPc /\ ds = "operator" /\ wench = "wind") => <>[]relatched
=============================================================================
