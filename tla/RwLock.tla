------------------------------- MODULE RwLock -------------------------------
(***************************************************************************)
(* What the kernel rw_semaphore promises to its callers: either one writer *)
(* or any number of readers hold it.  Those who cannot have it at once     *)
(* queue.  All readers in front of the first queued writer are let in      *)
(* together; writers are let in in any order, since a running writer may   *)
(* steal the lock from those that still sleep.                             *)
(***************************************************************************)
EXTENDS Naturals, Sequences

CONSTANTS Task, None

VARIABLES
  readers,   \* the tasks that hold the lock for reading
  writer,    \* the task that holds it for writing, or None
  queue      \* struct rwsem_waiter of those that wait, in order of arrival

vars == <<readers, writer, queue>>

Waiter == [task : Task, type : {"read", "write"}]

Waiters == {queue[i].task : i \in DOMAIN queue}

Idle(t) == t \notin readers \cup Waiters /\ t # writer

Init == readers = {} /\ writer = None /\ queue = <<>>

\* Mutant: a reader does not look at the queue.
ReaderMayOvertake == writer = None

\* down_read() and down_write() without a wait, or a successful trylock.  Only
\* readers respect those who wait.
ReaderMayEnter == writer = None /\ queue = <<>>

AcquireRead(t) ==
  /\ Idle(t) /\ ReaderMayEnter
  /\ readers' = readers \cup {t}
  /\ UNCHANGED <<writer, queue>>

AcquireWrite(t) ==
  /\ Idle(t) /\ writer = None /\ readers = {}
  /\ writer' = t
  /\ UNCHANGED <<readers, queue>>

Join(t, type) ==
  /\ Idle(t)
  /\ queue' = Append(queue, [task |-> t, type |-> type])
  /\ UNCHANGED <<readers, writer>>

\* The first n of a wait list are the readers in front of its first writer.
InFront(q, n) ==
  /\ \A i \in 1 .. n : q[i].type = "read"
  /\ n < Len(q) => q[n + 1].type = "write"

\* The lock is held by the readers in S, and perhaps by those in front as well.
HeldBy(S) ==
  \/ readers' = S /\ UNCHANGED queue
  \/ \E n \in 0 .. Len(queue) :
        /\ InFront(queue, n)
        /\ readers' = S \cup {queue[i].task : i \in 1 .. n}
        /\ queue' = SubSeq(queue, n + 1, Len(queue))

GrantReaders ==
  /\ writer = None
  /\ HeldBy(readers)
  /\ UNCHANGED writer

GrantWriter(t) ==
  /\ writer = None /\ readers = {}
  /\ \E n \in 1 .. Len(queue) :
        /\ queue[n] = [task |-> t, type |-> "write"]
        /\ queue' = [i \in 1 .. Len(queue) - 1 |-> IF i < n THEN queue[i] ELSE queue[i + 1]]
  /\ writer' = t
  /\ UNCHANGED readers

ReleaseRead(t) ==
  /\ t \in readers
  /\ readers' = readers \ {t}
  /\ UNCHANGED <<writer, queue>>

\* A build may let the readers in in the step that releases the lock.
ReleaseWrite(t) == writer = t /\ writer' = None /\ HeldBy(readers)

Downgrade(t) == writer = t /\ writer' = None /\ HeldBy(readers \cup {t})

Next ==
  \/ GrantReaders
  \/ \E t \in Task :
        \/ AcquireRead(t) \/ AcquireWrite(t) \/ GrantWriter(t)
        \/ ReleaseRead(t) \/ ReleaseWrite(t) \/ Downgrade(t)
        \/ \E type \in {"read", "write"} : Join(t, type)

Spec == Init /\ [][Next]_vars
-----------------------------------------------------------------------------
\* A writer is alone with the lock (rwsem-xadd.c:100-122, 221-230).
Exclusive == writer # None => readers = {}
=============================================================================
