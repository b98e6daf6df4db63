--------------------------- MODULE LedLinkProofs ---------------------------
(***************************************************************************)
(* Proofs about LedLink for every wiring of the outputs to the pins.       *)
(***************************************************************************)
EXTENDS LedLink, TLAPS

\* The write of a pass that sets output i.
WriteOf(i) == IF i = 4 THEN 1 ELSE i + 2

\* Outputs the current pass has written are as the new mode wants them, the
\* others as the mode written last.
LedInv ==
  /\ TypeOK
  /\ rpc # Idle => modeIndex \in Outputs
  /\ \A i \in Outputs :
        i \in out <=> IF rpc \in 1 .. 5 /\ WriteOf(i) < rpc THEN i = modeIndex
                                                           ELSE i = written

LEMMA LedInit == Init => LedInv
  BY DEF Init, LedInv, TypeOK, Outputs, Idle, AtButtons

LEMMA LedStep == LedInv /\ [Next]_vars => LedInv'
<1> SUFFICES ASSUME LedInv, [Next]_vars
             PROVE  LedInv'
  OBVIOUS
<1> USE DEF LedInv, TypeOK, Outputs, Idle, AtButtons, WriteOf, robot, controller
<1>1. CASE BeginPass
  BY <1>1 DEF BeginPass
<1>2. ASSUME NEW n \in 1 .. 5, Write(n)
      PROVE  LedInv'
  <2>1. TypeOK' /\ (rpc # Idle => modeIndex \in Outputs)'
    BY <1>2 DEF Write, WriteOrder
  <2>2. ASSUME NEW i \in Outputs
        PROVE  i \in out' <=> IF n = WriteOf(i) THEN i = modeIndex ELSE i \in out
    BY <1>2 DEF Write, WriteOrder
  <2>3. CASE n < 5
    <3>1. rpc' = n + 1 /\ rpc = n /\ written' = written /\ modeIndex' = modeIndex
      BY <1>2, <2>3 DEF Write
    <3>2. QED
      BY <1>2, <2>1, <2>2, <3>1, <2>3
  <2>4. CASE n = 5
    <3>1. rpc' = 6 /\ rpc = 5 /\ written' = modeIndex /\ modeIndex' = modeIndex
      BY <1>2, <2>4 DEF Write
    <3>2. QED
      BY <1>2, <2>1, <2>2, <3>1, <2>4
  <2>5. QED
    BY <2>3, <2>4
<1>3. CASE Buttons
  <2>1. rpc = 6 /\ rpc' = 0 /\ UNCHANGED <<out, written, controller>>
    BY <1>3 DEF Buttons
  <2>2. modeIndex' \in 0 .. 5
    BY <1>3 DEF Buttons, Pressed
  <2>3. QED
    BY <2>1, <2>2
<1>4. CASE ReadPin
  BY <1>4, WiringAssumption DEF ReadPin
<1>5. CASE ModeDone
  BY <1>5 DEF ModeDone
<1>6. CASE UNCHANGED vars
  BY <1>6 DEF vars
<1>7. QED
  BY <1>1, <1>2, <1>3, <1>4, <1>5, <1>6 DEF Next, Robot, Controller

LEMMA LedInvariant == Spec => []LedInv
  BY LedInit, LedStep, PTL DEF Spec

\* The five output writes of a pass never leave a third mode's output high,
\* and leave exactly one high when they are done (Robot.java:116-152).
THEOREM OneModeHigh == Spec => []OneMode
<1>1. LedInv => OneMode
  <2> SUFFICES ASSUME LedInv
               PROVE  OneMode
    OBVIOUS
  <2>1. out \subseteq {written, modeIndex}
    BY DEF LedInv, TypeOK
  <2>2. ASSUME rpc \in {Idle, AtButtons}
        PROVE  out = {written} \cap Outputs
    <3>1. \A i \in Outputs : i \in out <=> i = written
      BY <2>2 DEF LedInv, Idle, AtButtons
    <3>2. QED
      BY <3>1 DEF LedInv, TypeOK
  <2>3. QED
    BY <2>1, <2>2 DEF OneMode
<1>2. QED
  BY <1>1, LedInvariant, PTL

\* Whatever the wiring and wherever a sample falls between two writes, the
\* controller starts only the mode of this or of the last pass
\* (Blue_mode.ino:21-51).
THEOREM OnlyWantedShown == Spec => ShownWasWanted
<1>1. LedInv /\ [Next]_vars => [show' # show => show' \in {written, modeIndex}]_vars
  <2> SUFFICES ASSUME LedInv, Next, show' # show
               PROVE  show' \in {written, modeIndex}
    OBVIOUS
  <2>1. ReadPin
    BY DEF Next, Robot, Controller, BeginPass, Write, Buttons, ModeDone, controller
  <2>2. QED
    BY <2>1, WiringAssumption DEF ReadPin, LedInv, TypeOK, Outputs
<1>2. QED
  BY <1>1, LedInvariant, PTL DEF Spec, ShownWasWanted
=============================================================================
