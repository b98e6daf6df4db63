----------------------------- MODULE RwsemXadd -----------------------------
(***************************************************************************)
(* locking/rwsem-xadd.c with the entry points of locking/rwsem.c.  One     *)
(* signed count says who is active and whether anybody waits; the fast     *)
(* paths change it without any lock, so every access to it is a step.      *)
(* What wait_lock alone protects is done in the step of the access to the  *)
(* count next to it.                                                       *)
(***************************************************************************)
EXTENDS Integers, Sequences, FiniteSets

CONSTANTS
  Task, None,
  Bias     \* RWSEM_ACTIVE_MASK + 1

ASSUME XaddAssumption ==
  /\ None \notin Task
  /\ Bias \in Nat /\ IsFiniteSet(Task) /\ Cardinality(Task) + 1 < Bias

VARIABLES
  count, wait_list,  \* struct rw_semaphore
  wait_lock,         \* the task in a wait_lock section that spans steps
  after,             \* where it goes on after __rwsem_do_wake()
  pc,                \* where a task is
  granted,           \* readers whose waiter.task is NULL
  asleep             \* tasks whose state is TASK_UNINTERRUPTIBLE

vars == <<count, wait_list, wait_lock, after, pc, granted, asleep>>

RWSEM_WAITING_BIAS      == -Bias
RWSEM_ACTIVE_READ_BIAS  == 1
RWSEM_ACTIVE_WRITE_BIAS == RWSEM_WAITING_BIAS + 1

\* count & RWSEM_ACTIVE_MASK
ActivePart(c) == c % Bias

Init ==
  /\ count = 0 /\ wait_list = <<>> /\ wait_lock = None /\ after = "out"
  /\ pc = [t \in Task |-> "out"]
  /\ granted = {} /\ asleep = {}

\* Mutant: the sign is wrong.
NeedsWakeNot(c) == c > 0 /\ ActivePart(c) = 0

\* What is left after an unlock calls for rwsem_wake().
NeedsWake(c) == c < 0 /\ ActivePart(c) = 0

Goto(t, l) == pc' = [pc EXCEPT ![t] = l]

\* rwsem_atomic_update() and rwsem_atomic_add().
Add(n) == count' = count + n
-----------------------------------------------------------------------------
(* __rwsem_do_wake(), called with wait_lock held by t, which goes on at l. *)

\* wait_lock is dropped; a writer sets its task state before it does.
Unlock(t, S, l) ==
  /\ wait_lock' = None /\ after' = "out"
  /\ asleep' = IF l = "writeSleep" THEN S \cup {t} ELSE S
  /\ Goto(t, l)

\* From the call to the first access to the count.  A writer at the head is
\* only woken; "grant", "undo" and "adjust" are the places of the rest.
BeginWake(t, q, type, l) ==
  IF q[1].type = "write"
  THEN Unlock(t, IF type = "any" THEN asleep \ {q[1].task} ELSE asleep, l)
  ELSE /\ wait_lock' = t /\ after' = l
       /\ Goto(t, IF type = "read_owned" THEN "adjust0" ELSE "grant")
       /\ UNCHANGED asleep

\* Mutant: a writer that stole the lock is not noticed.
StolenIgnored(old) == FALSE

Stolen(old) == old < RWSEM_WAITING_BIAS

TryReaderGrant(t) ==
  /\ pc[t] = "grant"
  /\ Add(RWSEM_ACTIVE_READ_BIAS)
  /\ Goto(t, IF Stolen(count) THEN "undo" ELSE "adjust1")
  /\ UNCHANGED <<wait_list, wait_lock, after, granted, asleep>>

\* Without another active locker nobody else will wake the readers.
OthersActive(c) == ActivePart(c) # 0

UndoGrant(t) ==
  /\ pc[t] = "undo"
  /\ Add(-RWSEM_ACTIVE_READ_BIAS)
  /\ IF OthersActive(count')
     THEN Unlock(t, asleep, after)
     ELSE Goto(t, "grant") /\ UNCHANGED <<wait_lock, after, asleep>>
  /\ UNCHANGED <<wait_list, granted>>

FrontReaders == {i \in DOMAIN wait_list : \A j \in 1 .. i : wait_list[j].type = "read"}

\* Mutant: the waiting bias is left when the list becomes empty.
WaitersLeftKept(left) == TRUE

WaitersLeft(left) == left # <<>>

\* Count the readers at the front, make them active, take them off the list
\* and wake them.  adjust1: the first is already counted.
GrantAll(t) ==
  LET woken == Cardinality(FrontReaders)
      left  == SubSeq(wait_list, woken + 1, Len(wait_list))
      out   == {wait_list[i].task : i \in FrontReaders}
  IN
  /\ pc[t] \in {"adjust0", "adjust1"}
  /\ Add(woken * RWSEM_ACTIVE_READ_BIAS
           - (IF pc[t] = "adjust1" THEN RWSEM_ACTIVE_READ_BIAS ELSE 0)
           - (IF WaitersLeft(left) THEN 0 ELSE RWSEM_WAITING_BIAS))
  /\ wait_list' = left
  /\ granted' = granted \cup out
  /\ Unlock(t, asleep \ out, after)

DoWake(t) == TryReaderGrant(t) \/ UndoGrant(t) \/ GrantAll(t)
-----------------------------------------------------------------------------
(* Readers.                                                                *)

\* Mutant: waiting tasks are not respected.
ReadFastLoose(c) == c > RWSEM_WAITING_BIAS

ReadFast(c) == c > 0

\* down_read() and, when it succeeds, down_read_trylock().
DownRead(t) ==
  /\ pc[t] = "out"
  /\ Add(RWSEM_ACTIVE_READ_BIAS)
  /\ Goto(t, IF ReadFast(count') THEN "reading" ELSE "readFailed")
  /\ UNCHANGED <<wait_list, wait_lock, after, granted, asleep>>

\* Queue in the list; the first one also adds the bias that says so.
Enqueue(t, type, bias) ==
  /\ wait_lock = None
  /\ wait_list' = Append(wait_list, [task |-> t, type |-> type])
  /\ Add((IF wait_list = <<>> THEN RWSEM_WAITING_BIAS ELSE 0) - bias)

\* No active lockers, or no writers and we are first in the queue.
ReadersMayJoin(c, first) ==
  \/ c = RWSEM_WAITING_BIAS
  \/ c > RWSEM_WAITING_BIAS /\ first

\* rwsem_down_read_failed() up to the wait.
DownReadFailed(t) ==
  /\ pc[t] = "readFailed"
  /\ Enqueue(t, "read", RWSEM_ACTIVE_READ_BIAS)
  /\ IF ReadersMayJoin(count', wait_list = <<>>)
     THEN BeginWake(t, wait_list', "any", "readWait")
     ELSE Unlock(t, asleep, "readWait")
  /\ UNCHANGED granted

\* set_task_state(), then the test of waiter.task, then schedule().
ReadWait(t) ==
  /\ pc[t] = "readWait"
  /\ asleep' = asleep \cup {t}
  /\ Goto(t, "readTest")
  /\ UNCHANGED <<count, wait_list, wait_lock, after, granted>>

ReadTest(t) ==
  /\ pc[t] = "readTest"
  /\ IF t \in granted
     THEN Goto(t, "reading") /\ asleep' = asleep \ {t} /\ granted' = granted \ {t}
     ELSE Goto(t, "readSleep") /\ UNCHANGED <<asleep, granted>>
  /\ UNCHANGED <<count, wait_list, wait_lock, after>>

ReadWoken(t) ==
  /\ pc[t] = "readSleep" /\ t \notin asleep
  /\ Goto(t, "readWait")
  /\ UNCHANGED <<count, wait_list, wait_lock, after, granted, asleep>>

UpRead(t) ==
  /\ pc[t] = "reading"
  /\ Add(-RWSEM_ACTIVE_READ_BIAS)
  /\ Goto(t, IF NeedsWake(count') THEN "wake" ELSE "out")
  /\ UNCHANGED <<wait_list, wait_lock, after, granted, asleep>>
-----------------------------------------------------------------------------
(* Writers.                                                                *)

\* down_write() and, when it succeeds, down_write_trylock().
DownWrite(t) ==
  /\ pc[t] = "out"
  /\ Add(RWSEM_ACTIVE_WRITE_BIAS)
  /\ Goto(t, IF count = 0 THEN "writing" ELSE "writeFailed")
  /\ UNCHANGED <<wait_list, wait_lock, after, granted, asleep>>

\* rwsem_down_write_failed() up to its first look for the lock.
DownWriteFailed(t) ==
  /\ pc[t] = "writeFailed"
  /\ Enqueue(t, "write", RWSEM_ACTIVE_WRITE_BIAS)
  /\ IF count' > RWSEM_WAITING_BIAS /\ wait_list # <<>>
     THEN BeginWake(t, wait_list', "readers", "writeSleep")
     ELSE IF ActivePart(count') = 0
          THEN wait_lock' = t /\ Goto(t, "writeTry") /\ UNCHANGED <<after, asleep>>
          ELSE Unlock(t, asleep, "writeSleep")
  /\ UNCHANGED granted

OthersWait == Len(wait_list) > 1

\* The cmpxchg() of the count, with wait_lock held since DownWriteFailed or
\* taken again.
TryWrite(t) ==
  /\ \/ pc[t] = "writeTry"
     \/ pc[t] = "writeLock" /\ wait_lock = None
  /\ IF count = RWSEM_WAITING_BIAS
     THEN /\ count' = RWSEM_ACTIVE_WRITE_BIAS
                        + (IF OthersWait THEN RWSEM_WAITING_BIAS ELSE 0)
          /\ wait_list' = SelectSeq(wait_list, LAMBDA w : w.task # t)
          /\ Unlock(t, asleep \ {t}, "writing")
     ELSE /\ wait_lock' = None
          /\ asleep' = IF pc[t] = "writeTry" THEN asleep \cup {t} ELSE asleep
          /\ Goto(t, "writeSleep")
          /\ UNCHANGED <<count, wait_list, after>>
  /\ UNCHANGED granted

WriteWoken(t) ==
  /\ pc[t] = "writeSleep" /\ t \notin asleep
  /\ asleep' = asleep \cup {t}
  /\ Goto(t, "writeLook")
  /\ UNCHANGED <<count, wait_list, wait_lock, after, granted>>

WriteLook(t) ==
  /\ pc[t] = "writeLook"
  /\ Goto(t, IF ActivePart(count) # 0 THEN "writeSleep" ELSE "writeLock")
  /\ UNCHANGED <<count, wait_list, wait_lock, after, granted, asleep>>

UpWrite(t) ==
  /\ pc[t] = "writing"
  /\ Add(-RWSEM_ACTIVE_WRITE_BIAS)
  /\ Goto(t, IF NeedsWake(count') THEN "wake" ELSE "out")
  /\ UNCHANGED <<wait_list, wait_lock, after, granted, asleep>>

DowngradeWrite(t) ==
  /\ pc[t] = "writing"
  /\ Add(-RWSEM_WAITING_BIAS)
  /\ Goto(t, IF count' < 0 THEN "downgrade" ELSE "reading")
  /\ UNCHANGED <<wait_list, wait_lock, after, granted, asleep>>

\* rwsem_wake() and rwsem_downgrade_wake().
RwsemWake(t) ==
  /\ pc[t] \in {"wake", "downgrade"}
  /\ wait_lock = None
  /\ LET l    == IF pc[t] = "wake" THEN "out" ELSE "reading"
         type == IF pc[t] = "wake" THEN "any" ELSE "read_owned" IN
     IF wait_list # <<>>
     THEN BeginWake(t, wait_list, type, l)
     ELSE Unlock(t, asleep, l)
  /\ UNCHANGED <<count, wait_list, granted>>
-----------------------------------------------------------------------------
\* wake_up_process() by somebody else.
SpuriousWake(t) ==
  /\ pc[t] \in {"readTest", "readSleep", "writeSleep", "writeLook", "writeLock"}
  /\ t \in asleep
  /\ asleep' = asleep \ {t}
  /\ UNCHANGED <<count, wait_list, wait_lock, after, pc, granted>>

\* What a task does inside the functions.
Step(t) ==
  \/ DoWake(t) \/ RwsemWake(t)
  \/ DownReadFailed(t) \/ ReadWait(t) \/ ReadTest(t) \/ ReadWoken(t)
  \/ DownWriteFailed(t) \/ TryWrite(t) \/ WriteWoken(t) \/ WriteLook(t)

Release(t) == UpRead(t) \/ UpWrite(t)

Next == \E t \in Task :
  DownRead(t) \/ DownWrite(t) \/ Step(t) \/ Release(t) \/ DowngradeWrite(t) \/ SpuriousWake(t)

Spec == Init /\ [][Next]_vars
-----------------------------------------------------------------------------
At(S) == {t \in Task : pc[t] \in S}

Readers == At({"reading", "downgrade"}) \cup granted
           \cup {t \in {wait_lock} \cap Task : after = "reading"}

Writers == At({"writing"})

\* Every variable keeps its type, and the active part of the count never runs
\* into the waiting part (rwsem-xadd.c:54-55).
TypeOK ==
  /\ count \in RWSEM_WAITING_BIAS * (Cardinality(Task) + 1) .. Cardinality(Task)
  /\ wait_list \in Seq([task : Task, type : {"read", "write"}])
  /\ wait_lock \in Task \cup {None}
  /\ after \in {"out", "readWait", "writeSleep", "reading"}
  /\ pc \in [Task -> {"out", "grant", "undo", "adjust0", "adjust1", "wake", "downgrade",
                      "readFailed", "readWait", "readTest", "readSleep", "reading",
                      "writeFailed", "writeTry", "writeSleep", "writeLook", "writeLock",
                      "writing"}]
  /\ granted \subseteq Task /\ asleep \subseteq Task

\* The count is the ledger of everybody in the functions: those who hold the
\* lock, those who have added their bias and are about to find out that they
\* must wait, a grant that may have to be taken back, and whether anybody waits
\* (rwsem-xadd.c:54-55, 119, 158-163, 204-209).
Ledger ==
  count = Cardinality(Readers) + Cardinality(At({"readFailed", "undo", "adjust1"}))
            + RWSEM_ACTIVE_WRITE_BIAS * Cardinality(Writers \cup At({"writeFailed"}))
            + (IF wait_list # <<>> THEN RWSEM_WAITING_BIAS ELSE 0)

\* A lock for which tasks wait does not stay free (rwsem-xadd.c:92-96, 165-173,
\* 235-239).
LockIsUsed == (wait_list # <<>>) ~> (Readers \cup Writers # {})

\* The mapping to the promise: a granted reader holds the lock before it runs.
Promise == INSTANCE RwLock WITH
  readers <- Readers,
  writer  <- IF Writers = {} THEN None ELSE CHOOSE t \in Writers : TRUE,
  queue   <- wait_list

\* locking/rwsem-xadd.c implements RwLock, whatever fast paths run during a
\* wake-up and whichever writer steals the lock (rwsem-xadd.c:61-288).
Implements == Promise!Spec

\* At most one task writes, and then nobody reads (rwsem-xadd.c:89-97, 227-229).
Exclusion == \A t \in Writers : Writers = {t} /\ Readers = {}
=============================================================================
