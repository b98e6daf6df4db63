---------------------------- MODULE SimpleRobot ----------------------------
(***************************************************************************)
(* The WPILib SimpleRobot framework that Robot.java extends.  The library  *)
(* is not part of the repository; it is modelled from how Robot.java uses  *)
(* it: the driver station selects a mode at any time, the framework calls  *)
(* the matching method once per visit to the mode, and a method that       *)
(* returned is not called again before the mode changes.                   *)
(***************************************************************************)

VARIABLES
  ds,   \* what the driver station commands; "disabled" or an enabled mode
  pc    \* where the single robot thread is

Mode == {"disabled", "autonomous", "operator", "test"}

\* Places of the robot thread that belong to the framework.
FrameworkPc == {"main", "autoEnd", "teleEnd", "testEnd"}

\* The method called for an enabled mode.  test() has an empty body, so the
\* thread is at once in the framework's wait for the end of the test mode.
MethodOf(mode) ==
  CASE mode = "autonomous" -> "autoInit"
    [] mode = "operator"   -> "teleInit"
    [] mode = "test"       -> "testEnd"

\* The mode whose end the framework awaits after the method returned.
AwaitedMode(p) ==
  CASE p = "autoEnd" -> "autonomous"
    [] p = "teleEnd" -> "operator"
    [] p = "testEnd" -> "test"

FrameworkInit == ds = "disabled" /\ pc = "main"

\* The field or the drivers change the mode, whatever the thread is doing.
DriverStation ==
  /\ ds' \in Mode \ {ds}
  /\ UNCHANGED pc

\* startCompetition() calls the method of the current enabled mode.
Dispatch ==
  /\ pc = "main"
  /\ ds # "disabled"
  /\ pc' = MethodOf(ds)
  /\ UNCHANGED ds

\* startCompetition() leaves its wait once the mode is over.
ModeOver ==
  /\ pc \in FrameworkPc \ {"main"}
  /\ ds # AwaitedMode(pc)
  /\ pc' = "main"
  /\ UNCHANGED ds
=============================================================================
