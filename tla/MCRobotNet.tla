----------------------------- MODULE MCRobotNet -----------------------------
(***************************************************************************)
(* The robot thread with the vision link: autonomous() calls listenCoor()  *)
(* and does nothing else before it returns, whatever mode the driver       *)
(* station has selected by then.                                           *)
(***************************************************************************)
EXTENDS Manipulators, Sequences

CONSTANT Backlog

ASSUME BacklogAssumption == Backlog \in Nat

VARIABLES call, result, host, stopping, queue, sent, arrived, closed

link == <<call, result, host, stopping, queue, sent, arrived, closed>>

V == INSTANCE VisionLink

NetInit == Init /\ V!Init

\* A step of the thread outside the call, with the call made in autonomous().
Thread ==
  \/ Autonomous /\ V!ListenCoor
  \/ /\ call = "idle"
     /\ Framework \/ OperatorControl \/ LoopExit \/ Sticks \/ SetOutputs
     /\ UNCHANGED link

NetNext ==
  \/ DriverStationChange /\ UNCHANGED link
  \/ Thread
  \/ (V!Robot \/ V!Host \/ V!HostDies \/ V!HostStarts \/ V!Net) /\ UNCHANGED vars

allVars == <<vars, link>>

NetSpec == NetInit /\ [][NetNext]_allVars /\ WF_allVars(Thread) /\ V!Fairness
-----------------------------------------------------------------------------
\* See VisionLink: the link keeps its types, and however calls fail and the host
\* breaks down, the connections left behind are never taken for the call's own
\* (Network.java:54-81, NetworkTest.py:7-11).
OwnConnection == V!TypeOK /\ V!OwnConnection

\* A driver station that goes on to operator mode during the call of the vision
\* host, and stays there, gets its operator loop: the call holds the thread up,
\* but not for ever, although the host may be busy, end or break down in the
\* middle of it (Robot.java:74, 109; Network.java:54-81; NetworkTest.py:9-11).
OperatorServed ==
  (pc = "autoEnd" /\ ds = "operator") ~> (pc = "loop" \/ ds # "operator")

\* "If error ocurrs returns value "-2,-2"; if no error occurs returns "x,y" or
\* "-1,-1" if nothing found" (Network.java:55-56): when the whole answer of the host
\* has arrived, the call returns it.
AnswerReturned ==
  [][V!ReadUTF /\ sent # "none" /\ arrived = V!Size(sent) => result' = sent]_allVars
=============================================================================
