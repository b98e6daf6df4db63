------------------------------ MODULE LedLink ------------------------------
(***************************************************************************)
(* The link between the operator loop and the LED controller: Robot.java   *)
(* writes five digital outputs, one call each, and Blue_mode.ino reads     *)
(* them one at a time in an if/else chain while they may be changing.      *)
(* Two processors, no synchronisation.                                     *)
(***************************************************************************)
EXTENDS Naturals

CONSTANT Chain   \* Chain[n]: the output wired to the n-th pin of the sketch's chain

Outputs == 0 .. 4

Idle      == 0
AtButtons == 6

ASSUME WiringAssumption ==
  /\ Chain \in [1 .. 5 -> Outputs]
  /\ \A i \in Outputs : \E n \in 1 .. 5 : Chain[n] = i

VARIABLES
  modeIndex,  \* field of Robot
  out,        \* the outputs among modes[0] .. modes[4] that are high
  rpc,        \* robot thread: the write to do, Idle or AtButtons
  test,       \* controller: the test of the chain to do, 0 while a mode runs
  show,       \* controller: the mode started last, 5 before the first
  written     \* history: the mode index whose five writes were done last, or 5

robot      == <<modeIndex, out, rpc, written>>
controller == <<test, show>>
vars       == <<robot, controller>>

Init ==
  /\ modeIndex = 0 /\ out = {} /\ rpc = Idle
  /\ test = 1 /\ show = 5 /\ written = 5
-----------------------------------------------------------------------------
(* One pass of the operator loop.  Between two passes any time may go by.  *)

\* The if/else chain on modeIndex; an index beyond the last mode wraps and
\* nothing is written in this pass.
BeginPass ==
  /\ rpc = Idle
  /\ IF modeIndex > 4 THEN modeIndex' = 0 /\ rpc' = AtButtons
                      ELSE rpc' = 1 /\ UNCHANGED modeIndex
  /\ UNCHANGED <<out, written, controller>>

\* Mutant: modes[3] is written twice and modes[4] never.
WriteOrderShort(n) == IF n = 1 THEN 3 ELSE n - 2

\* Every branch writes modes[4] first and then modes[0] .. modes[3].
WriteOrder(n) == IF n = 1 THEN 4 ELSE n - 2

\* Mutant: a branch only raises its own output.
WriteOwn(n) ==
  /\ rpc = n
  /\ out' = IF WriteOrder(n) = modeIndex THEN out \cup {modeIndex} ELSE out
  /\ IF n < 5 THEN rpc' = n + 1 /\ UNCHANGED written
              ELSE rpc' = AtButtons /\ written' = modeIndex
  /\ UNCHANGED <<modeIndex, controller>>

Write(n) ==
  /\ rpc = n
  /\ out' = IF WriteOrder(n) = modeIndex THEN out \cup {modeIndex}
                                         ELSE out \ {WriteOrder(n)}
  /\ IF n < 5 THEN rpc' = n + 1 /\ UNCHANGED written
              ELSE rpc' = AtButtons /\ written' = modeIndex
  /\ UNCHANGED <<modeIndex, controller>>

\* The trigger counts up, button 7 selects mode 1 and button 8 mode 2.
Pressed(trigger, button7, button8) ==
  IF button8 THEN 2
  ELSE IF button7 THEN 1
  ELSE IF trigger THEN modeIndex + 1 ELSE modeIndex

Buttons ==
  /\ rpc = AtButtons
  /\ rpc' = Idle
  /\ \E trigger, button7, button8 \in BOOLEAN :
        modeIndex' = Pressed(trigger, button7, button8)
  /\ UNCHANGED <<out, written, controller>>
-----------------------------------------------------------------------------
(* loop() of the sketch.                                                   *)

\* digitalRead of one pin; the mode starts, or the next pin is read.  After
\* the last pin loop() is entered again.
ReadPin ==
  /\ test > 0
  /\ IF Chain[test] \in out THEN show' = Chain[test] /\ test' = 0
                            ELSE test' = 1 + (test % 5) /\ UNCHANGED show
  /\ UNCHANGED robot

\* Mutant: the animation is repeated while its pin was high at the start.
ModeRepeats ==
  /\ test = 0
  /\ UNCHANGED vars

\* Red(), Blue(), Yellow(), the colour wipes or the rainbow ends.
ModeDone ==
  /\ test = 0
  /\ test' = 1
  /\ UNCHANGED <<show, robot>>
-----------------------------------------------------------------------------
Robot      == BeginPass \/ (\E n \in 1 .. 5 : Write(n)) \/ Buttons
Controller == ReadPin \/ ModeDone

Next == Robot \/ Controller

Spec == Init /\ [][Next]_vars

\* The operator loop keeps running, and so does the controller.
FairSpec == Spec /\ WF_vars(Robot) /\ WF_vars(Controller)
-----------------------------------------------------------------------------
\* The index never runs further than one beyond the last mode
\* (Robot.java:150-152, 176-178).
TypeOK ==
  /\ modeIndex \in 0 .. 5
  /\ out \subseteq Outputs
  /\ rpc \in 0 .. 6
  /\ test \in 0 .. 5
  /\ show \in 0 .. 5
  /\ written \in 0 .. 5

\* Between the passes exactly the output of the mode written last is high,
\* and during a pass no output is high but the old and the new mode's, however
\* the index jumped (Robot.java:116-152).
OneMode ==
  /\ out \subseteq {written, modeIndex}
  /\ rpc \in {Idle, AtButtons} => out = {written} \cap Outputs

\* The controller never starts a mode that nobody asked for, although it may
\* sample the outputs in the middle of a change (Blue_mode.ino:21-51).
ShownWasWanted ==
  [][show' # show => show' \in {written, modeIndex}]_vars

\* When the index stays, the lamps end up in that mode for good
\* (Robot.java:116-149, Blue_mode.ino:19-61).
LampsFollow ==
  \A k \in Outputs : <>[](modeIndex = k) => <>[](show = k)
=============================================================================
