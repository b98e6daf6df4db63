--------------------------- MODULE RobotNetProofs ---------------------------
(***************************************************************************)
(* The intake arm, the roller and the gear follow the fields of Robot over *)
(* any sequence of passes, mode changes and calls of the vision host, and  *)
(* a connection left behind is never taken for one of the present call.    *)
(***************************************************************************)
EXTENDS MCRobotNet, SequenceTheorems, TLAPS

\* In the middle of a pass the arm is off its field only when the arm buttons were
\* used in this pass.
ArmInv ==
  OutputsMatch /\ (pc = "outputs" /\ ~armStick /\ arm # "none"
                     => arm = (IF intakeDown THEN "down" ELSE "up"))

\* The places the framework takes the thread to.
LEMMA FrameworkPlaces ==
  ASSUME TypeOK, Framework
  PROVE  /\ ds' = ds /\ pc # "outputs"
         /\ pc' \in (FrameworkPc \cup {"autoInit", "teleInit"})
<1>1. CASE Dispatch
  BY <1>1 DEF Dispatch, MethodOf, TypeOK, Mode, FrameworkPc
<1>2. CASE ModeOver
  BY <1>2 DEF ModeOver, FrameworkPc
<1>3. QED
  BY <1>1, <1>2 DEF Framework

\* The two halves of a pass, autonomous() and the framework keep the invariant.
LEMMA ArmInvariant == ArmInv /\ [Next]_vars => ArmInv'
<1> SUFFICES ASSUME ArmInv, [Next]_vars PROVE ArmInv'
  OBVIOUS
<1> USE DEF ArmInv, OutputsMatch, TypeOK
<1>1. CASE DriverStationChange
  BY <1>1 DEF DriverStationChange, DriverStation, fields, outputs
<1>2. CASE Framework
  <2>1. UNCHANGED <<fields, outputs, armStick>>
    BY <1>2 DEF Framework
  <2>2. pc' # "outputs" /\ TypeOK'
    BY <1>2, <2>1, FrameworkPlaces DEF FrameworkPc, fields, outputs
  <2>3. QED
    BY <1>2, <2>1, <2>2, FrameworkPlaces DEF fields, outputs
<1>3. CASE Autonomous
  BY <1>3 DEF Autonomous, Go, FrameworkPc
<1>4. CASE OperatorControl
  BY <1>4 DEF OperatorControl, Go, fields, outputs
<1>5. CASE LoopExit
  BY <1>5 DEF LoopExit, Go, fields, outputs, FrameworkPc
<1>6. CASE Sticks
  <2>1. /\ pc = "loop" /\ pc' = "outputs" /\ ds' = ds
        /\ arm' = arm /\ gear' = gear /\ roller' = roller /\ intake' \in 0 .. 2
    BY <1>6 DEF Sticks, Go, outputs
  <2>2. /\ shifted' \in BOOLEAN /\ intakeDown' \in BOOLEAN /\ armStick' \in BOOLEAN
        /\ ~armStick' => intakeDown' = intakeDown
    BY <1>6 DEF Sticks, LeftStick
  <2>3. QED
    BY <2>1, <2>2
<1>7. CASE SetOutputs
  <2>1. SetIntakeMotor(intake) \in {"stop", "forward", "backward"}
    BY DEF SetIntakeMotor
  <2>2. QED
    BY <1>7, <2>1 DEF SetOutputs, Go, fields
<1>8. CASE UNCHANGED vars
  BY <1>8 DEF vars, fields, outputs
<1>9. QED
  BY <1>1, <1>2, <1>3, <1>4, <1>5, <1>6, <1>7, <1>8 DEF Next

\* The constructor of Robot.
LEMMA ArmInit == Init => ArmInv
<1> SUFFICES ASSUME Init PROVE ArmInv
  OBVIOUS
<1>1. intake \in 0 .. 2 /\ SetIntakeMotor(intake) = "stop"
  BY DEF Init, SetIntakeMotor
<1>2. TypeOK
  BY <1>1 DEF Init, FrameworkInit, TypeOK, Mode, FrameworkPc
<1>3. QED
  BY <1>1, <1>2 DEF Init, FrameworkInit, ArmInv, OutputsMatch

\* The robot thread without the link.
LEMMA ThreadOutputs == Spec => []OutputsMatch
<1>1. ArmInv => OutputsMatch
  BY DEF ArmInv
<1>2. QED
  BY <1>1, ArmInit, ArmInvariant, PTL DEF Spec

LEMMA ThreadArm == Spec => ArmMovesOnRequest
<1>1. ArmInv /\ [Next]_vars => [arm # "none" /\ arm' # arm => pc = "autoInit" \/ armStick]_vars
  <2> SUFFICES ASSUME ArmInv, Next, arm # "none", arm' # arm, pc # "autoInit"
               PROVE  armStick
    OBVIOUS
  <2>1. SetOutputs
    BY DEF Next, DriverStationChange, Framework, Autonomous, Go, OperatorControl,
           LoopExit, Sticks, outputs
  <2>2. QED
    BY <2>1 DEF SetOutputs, Go, ArmInv
<1>2. QED
  BY <1>1, ArmInit, ArmInvariant, PTL DEF Spec, ArmMovesOnRequest
-----------------------------------------------------------------------------
(* The call of the vision host.                                            *)

\* Every step of the thread with the link is a step of the thread alone or none of
\* its own: listenCoor() only delays it (Robot.java:74).
LEMMA LinkOnlyDelays == NetSpec => Spec
<1>1. NetInit => Init
  BY DEF NetInit
<1>2. [NetNext]_allVars => [Next]_vars
  BY DEF NetNext, Thread, Next, allVars
<1>3. QED
  BY <1>1, <1>2, PTL DEF NetSpec, Spec

\* Whenever no pass is half done, roller, arm and gear are what the fields say, for
\* every sequence of mode changes and however long the vision host keeps the thread
\* (Robot.java:74, 243-260).
THEOREM OutputsFollow == NetSpec => []OutputsMatch
BY LinkOnlyDelays, ThreadOutputs, PTL

\* The arm moves only in autonomous() and in passes in which its buttons were used
\* (Robot.java:57-60, 163-174, 246-253).
THEOREM ArmOnRequest == NetSpec => ArmMovesOnRequest
BY LinkOnlyDelays, ThreadArm, PTL

\* The parts of the invariant: one connection of the call waits at most,
OwnOnce == \A i, j \in DOMAIN queue : queue[i] = "own" /\ queue[j] = "own" => i = j

\* it has carried nothing, and the call knows of it.
OwnWaits ==
  (\E i \in DOMAIN queue : queue[i] = "own")
     => call \in {"stream", "read"} /\ sent = "none" /\ ~closed

LinkInv ==
  /\ V!TypeOK /\ OwnOnce /\ OwnWaits
  /\ call \in {"idle", "open"} => sent = "none" /\ ~closed
  /\ sent = "none" => arrived = 0

\* accept() takes the connection that waited longest.
LEMMA Accepted ==
  ASSUME V!TypeOK, OwnOnce, queue # <<>>, queue' = Tail(queue)
  PROVE  /\ queue' \in Seq({"own", "abandoned"}) /\ Len(queue') <= Backlog
         /\ \A i, j \in DOMAIN queue' : queue'[i] = "own" /\ queue'[j] = "own" => i = j
         /\ Head(queue) \in {"own", "abandoned"}
         /\ (\E i \in DOMAIN queue' : queue'[i] = "own")
              => Head(queue) # "own" /\ \E i \in DOMAIN queue : queue[i] = "own"
<1> USE DEF V!TypeOK, OwnOnce
<1>1. PICK n \in Nat : n = Len(queue) /\ DOMAIN queue = 1 .. n
  BY LenProperties
<1>2. n # 0
  BY <1>1, EmptySeq
<1>3. PICK t : t = queue'
  OBVIOUS
<1>4. /\ t \in Seq({"own", "abandoned"}) /\ Len(t) = n - 1
      /\ \A i \in 1 .. n - 1 : t[i] = queue[i + 1]
      /\ Head(queue) = queue[1]
  BY <1>1, <1>2, <1>3, HeadTailProperties
<1>5. DOMAIN t = 1 .. n - 1
  BY <1>1, <1>2, <1>4, LenProperties
<1>6. \A i, j \in 1 .. n : queue[i] = "own" /\ queue[j] = "own" => i = j
  BY <1>1
<1>7. \A i, j \in 1 .. n - 1 : t[i] = "own" /\ t[j] = "own" => i = j
  <2> SUFFICES ASSUME NEW i \in 1 .. n - 1, NEW j \in 1 .. n - 1, t[i] = "own", t[j] = "own"
               PROVE  i = j
    OBVIOUS
  <2>1. i + 1 \in 1 .. n /\ j + 1 \in 1 .. n /\ queue[i + 1] = "own" /\ queue[j + 1] = "own"
    BY <1>1, <1>2, <1>4
  <2>2. i + 1 = j + 1
    BY <1>6, <2>1
  <2>3. QED
    BY <2>2
<1>8. ASSUME NEW i \in 1 .. n - 1, t[i] = "own"
      PROVE  Head(queue) # "own" /\ \E j \in DOMAIN queue : queue[j] = "own"
  <2>1. i + 1 \in 1 .. n /\ queue[i + 1] = "own" /\ 1 \in 1 .. n /\ i + 1 # 1
    BY <1>1, <1>2, <1>4, <1>8
  <2>2. queue[1] # "own"
    BY <1>6, <2>1
  <2>3. QED
    BY <1>1, <1>4, <2>1, <2>2
<1>9. Head(queue) \in {"own", "abandoned"}
  BY <1>1, <1>2, <1>4, ElementOfSeq
<1>10. Len(t) <= Backlog
  BY <1>1, <1>2, <1>4, BacklogAssumption
<1>11. QED
  BY <1>3, <1>4, <1>5, <1>7, <1>8, <1>9, <1>10

\* The host's kernel queues a connection of the call; none of the others is its own.
LEMMA Connected ==
  ASSUME LinkInv, V!Open PROVE LinkInv'
<1> USE DEF LinkInv, V!TypeOK, OwnOnce, V!Open
<1>1. PICK n \in Nat : n = Len(queue) /\ DOMAIN queue = 1 .. n
  BY LenProperties
<1>2. PICK t : t = queue'
  OBVIOUS
<1>3. /\ t \in Seq({"own", "abandoned"}) /\ Len(t) = n + 1 /\ t[n + 1] = "own"
      /\ \A i \in 1 .. n : t[i] = queue[i]
  BY <1>1, <1>2, AppendProperties
<1>4. DOMAIN t = 1 .. n + 1
  BY <1>1, <1>3, LenProperties
<1>5. \A i \in 1 .. n : t[i] # "own"
  BY <1>1, <1>3 DEF OwnWaits
<1>6. \A i, j \in 1 .. n + 1 : t[i] = "own" /\ t[j] = "own" => i = j
  BY <1>5
<1>7. Len(t) <= Backlog
  BY <1>1, <1>3, BacklogAssumption
<1>8. QED
  BY <1>2, <1>3, <1>4, <1>6, <1>7 DEF OwnWaits, V!connection

\* The steps of the call, of the host and of the network.
LEMMA LinkStep ==
  LinkInv /\ [NetNext]_allVars => LinkInv'
<1> SUFFICES ASSUME LinkInv, [NetNext]_allVars PROVE LinkInv'
  OBVIOUS
<1>1. CASE UNCHANGED link
  BY <1>1 DEF link, LinkInv, V!TypeOK, OwnOnce, OwnWaits
<1>2. CASE V!ListenCoor
  BY <1>2 DEF V!ListenCoor, LinkInv, V!TypeOK, OwnOnce, OwnWaits
<1>3. CASE V!Robot
  <2>1. CASE V!OpenFails
    BY <2>1 DEF V!OpenFails, V!Give, V!connection, LinkInv, V!TypeOK, OwnOnce, OwnWaits
  <2>2. CASE V!OpenDataInputStream
    BY <2>2 DEF V!OpenDataInputStream, V!connection, LinkInv, V!TypeOK, OwnOnce, OwnWaits
  <2>3. CASE V!StreamFails
    <3>1. PICK n \in Nat : n = Len(queue) /\ DOMAIN queue = 1 .. n
      BY LenProperties DEF LinkInv, V!TypeOK
    <3>2. PICK t : t = queue' /\ t = [i \in 1 .. n |-> "abandoned"]
      BY <2>3, <3>1 DEF V!StreamFails
    <3>3. t \in [1 .. n -> {"own", "abandoned"}]
      BY <3>2
    <3>4. t \in Seq({"own", "abandoned"}) /\ Len(t) = n
      <4>1. t \in Seq({"own", "abandoned"})
        BY <3>3, SeqDef
      <4>2. QED
        BY <3>3, <4>1, LenProperties
    <3>5. \A i \in DOMAIN t : t[i] # "own"
      BY <3>2
    <3>6. OwnOnce' /\ OwnWaits'
      BY <3>2, <3>5 DEF OwnOnce, OwnWaits
    <3>7. queue' \in Seq({"own", "abandoned"}) /\ Len(queue') <= Backlog
      BY <3>1, <3>2, <3>4 DEF LinkInv, V!TypeOK
    <3>8. V!TypeOK'
      <4>1. /\ call' \in {"idle", "open", "stream", "read"}
            /\ result' \in {"none", V!Failed} \cup V!Message
        BY <2>3 DEF V!StreamFails, V!Give
      <4>2. host' \in {"frame", "accept", "exit", "dead"} /\ stopping' \in BOOLEAN
        BY <2>3 DEF V!StreamFails, LinkInv, V!TypeOK
      <4>3. sent' \in V!Message \cup {"none"}
        BY <2>3 DEF V!StreamFails
      <4>4. arrived' \in 0 .. 8
        BY <2>3 DEF V!StreamFails
      <4>5. closed' \in BOOLEAN
        BY <2>3 DEF V!StreamFails
      <4>6. QED
        BY <3>7, <4>1, <4>2, <4>3, <4>4, <4>5 DEF V!TypeOK
    <3>9. QED
      BY <2>3, <3>6, <3>8 DEF V!StreamFails, V!Give, LinkInv
  <2>4. CASE V!ReadUTF
    <3>1. ~ V!Enough(sent, arrived)
      BY DEF V!Enough, V!Announced, LinkInv, V!TypeOK
    <3>2. closed /\ result' = V!Failed
      BY <2>4, <3>1 DEF V!ReadUTF, V!Give
    <3>3. OwnOnce' /\ OwnWaits'
      BY <2>4, <3>2 DEF V!ReadUTF, LinkInv, OwnOnce, OwnWaits
    <3>4. V!TypeOK'
      <4>1. closed' \in BOOLEAN
        BY <2>4 DEF V!ReadUTF
      <4>2. arrived' \in 0 .. 8 /\ sent' \in V!Message \cup {"none"}
        BY <2>4 DEF V!ReadUTF
      <4>3. UNCHANGED <<host, stopping, queue>> /\ call' = "idle"
        BY <2>4 DEF V!ReadUTF, V!Give
      <4>4. QED
        BY <3>2, <4>1, <4>2, <4>3 DEF LinkInv, V!TypeOK
    <3>5. QED
      BY <2>4, <3>2, <3>3, <3>4 DEF V!ReadUTF, V!Give, LinkInv
  <2>5. QED
    BY <1>3, <2>1, <2>2, <2>3, <2>4, Connected DEF V!Robot
<1>4. CASE V!Analyse
  BY <1>4 DEF V!Analyse, V!robot, V!connection, LinkInv, V!TypeOK, OwnOnce, OwnWaits
<1>5. CASE V!Send
  <2>1. /\ queue # <<>> /\ queue' = Tail(queue) /\ V!TypeOK /\ OwnOnce
        /\ UNCHANGED <<call, result, arrived, closed>>
    BY <1>5 DEF V!Send, V!robot, LinkInv
  <2>2. host' \in {"frame", "accept", "exit", "dead"} /\ stopping' \in BOOLEAN
    BY <1>5 DEF V!Send, LinkInv, V!TypeOK
  <2>3. /\ Head(queue) # "own" => sent' = sent
        /\ Head(queue) = "own" => sent' \in V!Message
    BY <1>5 DEF V!Send, V!Message
  <2>4. Head(queue) = "own" => call \in {"stream", "read"}
    <3>1. queue \in Seq({"own", "abandoned"}) /\ queue # <<>>
      BY <2>1 DEF V!TypeOK
    <3>2. 1 \in DOMAIN queue /\ Head(queue) = queue[1]
      BY <3>1, HeadTailProperties, LenProperties, EmptySeq
    <3>3. QED
      BY <3>2 DEF LinkInv, OwnWaits
  <2>5. V!TypeOK'
    BY <2>1, <2>2, <2>3, Accepted DEF V!TypeOK
  <2>6. OwnOnce' /\ OwnWaits'
    BY <2>1, <2>3, Accepted DEF LinkInv, OwnOnce, OwnWaits
  <2>7. QED
    BY <2>1, <2>3, <2>4, <2>5, <2>6 DEF LinkInv, V!Message
<1>6. CASE V!HostDies
  <2>1. queue' = <<>> /\ queue' \in Seq({"own", "abandoned"}) /\ Len(queue') = 0
    BY <1>6 DEF V!HostDies
  <2>2. closed' \in BOOLEAN
    BY <1>6 DEF V!HostDies, LinkInv, V!TypeOK
  <2>3. call \in {"idle", "open"} => closed' = closed
    BY <1>6 DEF V!HostDies, LinkInv, OwnWaits, V!TypeOK
  <2>4. DOMAIN queue' = {}
    BY <2>1
  <2>5. OwnOnce' /\ OwnWaits'
    BY <2>4 DEF OwnOnce, OwnWaits
  <2>6. V!TypeOK'
    <3>1. host' = "dead" /\ UNCHANGED <<call, result, sent, arrived>>
      BY <1>6 DEF V!HostDies, V!robot
    <3>2. stopping' \in BOOLEAN
      BY <1>6 DEF V!HostDies
    <3>3. QED
      BY <2>1, <2>2, <2>4, <3>1, <3>2, BacklogAssumption DEF LinkInv, V!TypeOK
  <2>7. QED
    BY <1>6, <2>3, <2>5, <2>6 DEF V!HostDies, V!robot, LinkInv
<1>7. CASE V!HostStarts
  BY <1>7 DEF V!HostStarts, V!robot, V!connection, LinkInv, V!TypeOK, OwnOnce, OwnWaits
<1>8. CASE V!Deliver
  <2>1. arrived' \in 0 .. 8
    BY <1>8 DEF V!Deliver, LinkInv, V!TypeOK, V!Size
  <2>2. QED
    BY <1>8, <2>1 DEF V!Deliver, V!robot, LinkInv, V!TypeOK, OwnOnce, OwnWaits
<1>9. CASE V!DeliverEnd
  BY <1>9 DEF V!DeliverEnd, V!robot, LinkInv, V!TypeOK, OwnOnce, OwnWaits
<1>10. CASE UNCHANGED allVars
  BY <1>1, <1>10 DEF allVars
<1>11. QED
  BY <1>1, <1>2, <1>3, <1>4, <1>5, <1>6, <1>7, <1>8, <1>9, <1>10
  DEF NetNext, Thread, V!Host, V!Net

\* For any backlog, and however calls fail and the host breaks down: a connection
\* that an earlier call left behind is never taken for the present one's, and what
\* was received before is gone when a call connects (Network.java:54-81,
\* NetworkTest.py:7-11).
THEOREM ConnectionsApart == NetSpec => []OwnConnection
<1>1. NetInit => LinkInv
  <2> SUFFICES ASSUME V!Init PROVE LinkInv
    BY DEF NetInit
  <2>1. queue \in Seq({"own", "abandoned"}) /\ Len(queue) = 0 /\ DOMAIN queue = {}
    BY DEF V!Init
  <2>2. V!TypeOK
    <3>1. stopping \in BOOLEAN /\ closed \in BOOLEAN
      BY DEF V!Init
    <3>2. /\ call = "idle" /\ result = "none" /\ host \in {"frame", "dead"}
          /\ sent = "none" /\ arrived = 0
      BY DEF V!Init
    <3>3. QED
      BY <2>1, <3>1, <3>2, BacklogAssumption DEF V!TypeOK
  <2>3. QED
    BY <2>1, <2>2 DEF V!Init, LinkInv, OwnOnce, OwnWaits
<1>2. LinkInv => OwnConnection
  BY DEF LinkInv, OwnOnce, OwnWaits, OwnConnection, V!OwnConnection
<1>3. QED
  BY <1>1, <1>2, LinkStep, PTL DEF NetSpec
=============================================================================
