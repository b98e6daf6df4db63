----------------------------- MODULE VisionLink -----------------------------
(***************************************************************************)
(* The socket between the robot and the vision host.  Network.listenCoor() *)
(* opens a connection, and reads one string in the format of readUTF():    *)
(* two bytes that announce a length, and that many bytes.  The host,       *)
(* 2014 Vision.py with NetworkTest.py, looks at a frame, accepts one       *)
(* connection, sends the characters of a string without a length, and      *)
(* closes.  Connections may fail, queue up, arrive in pieces and break off *)
(* with the host.                                                          *)
(***************************************************************************)
EXTENDS Naturals, Sequences

CONSTANT Backlog   \* connections that can wait for accept() (listen(1) allows 2)

VARIABLES
  call,      \* where listenCoor() is
  result,    \* what it returned last
  host,      \* where the host is
  stopping,  \* the host's loop is over
  queue,     \* connections waiting for accept(): the call's own, or abandoned ones
  sent,      \* what the host has sent on the call's connection
  arrived,   \* the bytes of it that have arrived
  closed     \* the end of the connection has arrived

robot      == <<call, result>>
connection == <<sent, arrived, closed>>
vars       == <<robot, host, stopping, queue, connection>>

Failed  == "-2,-2"
Message == {"1", "Stopped."}

Size(m) == IF m = "1" THEN 1 ELSE 8

\* The length that the first two bytes of "Stopped." announce to readUTF().
Announced(m) == 256 * 83 + 116

Init ==
  /\ call = "idle" /\ result = "none"
  /\ host \in {"frame", "dead"} /\ stopping = FALSE
  /\ queue = <<>> /\ sent = "none" /\ arrived = 0 /\ closed = FALSE
-----------------------------------------------------------------------------
(* Network.listenCoor().  It never closes its socket.                      *)

ListenCoor ==
  /\ call = "idle"
  /\ call' = "open"
  /\ sent' = "none" /\ arrived' = 0 /\ closed' = FALSE
  /\ UNCHANGED <<result, host, stopping, queue>>

Give(r) == result' = r /\ call' = "idle"

\* Connector.open(): the host's kernel connects, long before accept().
Open ==
  /\ call = "open"
  /\ host # "dead" /\ Len(queue) < Backlog
  /\ queue' = Append(queue, "own")
  /\ call' = "stream"
  /\ UNCHANGED <<result, host, stopping, connection>>

\* Error code 221.
OpenFails ==
  /\ call = "open"
  /\ Give(Failed)
  /\ UNCHANGED <<host, stopping, queue, connection>>

OpenDataInputStream ==
  /\ call = "stream"
  /\ call' = "read"
  /\ UNCHANGED <<result, host, stopping, queue, connection>>

\* Mutant: the connection is opened once more.
StreamRetries ==
  /\ call = "stream"
  /\ call' = "open"
  /\ sent' = "none" /\ arrived' = 0 /\ closed' = FALSE
  /\ UNCHANGED <<result, host, stopping, queue>>

\* Error code 222: the connection is abandoned where it is.
StreamFails ==
  /\ call = "stream"
  /\ Give(Failed)
  /\ queue' = [i \in DOMAIN queue |-> "abandoned"]
  /\ sent' = "none" /\ arrived' = 0 /\ closed' = FALSE
  /\ UNCHANGED <<host, stopping>>

\* n bytes of m are a whole string to readUTF().
Enough(m, n) == n >= 2 /\ n >= 2 + Announced(m)

\* readUTF() has a whole string, or the end of the connection comes first and the
\* call gives up with error code 224.
ReadUTF ==
  /\ call = "read"
  /\ Enough(sent, arrived) \/ closed
  /\ Give(IF Enough(sent, arrived) THEN sent ELSE Failed)
  /\ sent' = "none" /\ arrived' = 0 /\ closed' = FALSE
  /\ UNCHANGED <<host, stopping, queue>>
-----------------------------------------------------------------------------
(* The vision host.                                                        *)

\* A frame is analysed.
Analyse ==
  /\ host = "frame"
  /\ host' = "accept"
  /\ UNCHANGED <<robot, stopping, queue, connection>>

\* send(): accept, send, and the connection goes out of scope.  After the last
\* round "Stopped." is sent, and the program ends.
Send ==
  /\ host = "accept" /\ queue # <<>>
  /\ queue' = Tail(queue)
  /\ sent' = IF Head(queue) = "own" THEN (IF stopping THEN "Stopped." ELSE "1") ELSE sent
  /\ \/ ~stopping /\ host' = "frame" /\ UNCHANGED stopping
     \/ ~stopping /\ host' = "accept" /\ stopping' = TRUE
     \/ stopping /\ host' = "exit" /\ UNCHANGED stopping
  /\ UNCHANGED <<robot, arrived, closed>>

\* The process is gone: at its end, because a frame could not be taken or
\* analysed, or because someone stopped it.  Connections that wait are reset.
HostDies ==
  /\ host # "dead"
  /\ host' = "dead" /\ stopping' = FALSE /\ queue' = <<>>
  /\ closed' = (closed \/ \E i \in DOMAIN queue : queue[i] = "own")
  /\ UNCHANGED <<robot, sent, arrived>>

HostStarts ==
  /\ host = "dead"
  /\ host' = "frame"
  /\ UNCHANGED <<robot, stopping, queue, connection>>
-----------------------------------------------------------------------------
(* The network.                                                            *)

Deliver ==
  /\ sent # "none" /\ ~closed
  /\ \E n \in arrived + 1 .. Size(sent) : arrived' = n
  /\ UNCHANGED <<robot, host, stopping, queue, sent, closed>>

\* Mutant: the host keeps its connections.
EndsNever(m) == FALSE

\* The host closes a connection after sending m.
Ends(m) == m \in Message

DeliverEnd ==
  /\ sent # "none" /\ ~closed /\ arrived = Size(sent)
  /\ Ends(sent)
  /\ closed' = TRUE
  /\ UNCHANGED <<robot, host, stopping, queue, sent, arrived>>
-----------------------------------------------------------------------------
Robot == Open \/ OpenFails \/ OpenDataInputStream \/ StreamFails \/ ReadUTF
Host  == Analyse \/ Send \/ (host = "exit" /\ HostDies)
Net   == Deliver \/ DeliverEnd

Next == ListenCoor \/ Robot \/ Host \/ HostDies \/ HostStarts \/ Net

\* A host that is up goes on, and what was sent arrives.
Fairness == WF_vars(Robot) /\ WF_vars(Host) /\ WF_vars(Net)
-----------------------------------------------------------------------------
\* Every variable keeps its type (Network.java:54-81, NetworkTest.py:7-11).
TypeOK ==
  /\ call \in {"idle", "open", "stream", "read"}
  /\ result \in {"none", Failed} \cup Message
  /\ host \in {"frame", "accept", "exit", "dead"} /\ stopping \in BOOLEAN
  /\ queue \in Seq({"own", "abandoned"}) /\ Len(queue) <= Backlog
  /\ sent \in Message \cup {"none"} /\ arrived \in 0 .. 8 /\ closed \in BOOLEAN

\* Whatever became of earlier calls, at most one of the connections that wait for the
\* host is the call's own; the call still knows of it, and nothing was sent on it.
\* A call that is not connected has received nothing
\* (Network.java:60-73, NetworkTest.py:7-11).
OwnConnection ==
  /\ \A i, j \in DOMAIN queue : queue[i] = "own" /\ queue[j] = "own" => i = j
  /\ (\E i \in DOMAIN queue : queue[i] = "own")
        => call \in {"stream", "read"} /\ sent = "none" /\ ~closed
  /\ call \in {"idle", "open"} => sent = "none" /\ ~closed
  /\ sent = "none" => arrived = 0
=============================================================================
