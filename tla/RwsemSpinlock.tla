--------------------------- MODULE RwsemSpinlock ---------------------------
(***************************************************************************)
(* locking/rwsem-spinlock.c, the build of the rw_semaphore for machines    *)
(* without a suitable atomic add.  Everything between taking and dropping  *)
(* wait_lock is one step.                                                  *)
(***************************************************************************)
EXTENDS Integers, Sequences, FiniteSets

CONSTANT Task

VARIABLES
  activity, wait_list,  \* struct rw_semaphore
  pc,                   \* where a task is
  granted,              \* readers whose waiter.task is NULL
  asleep                \* tasks whose state is TASK_UNINTERRUPTIBLE

vars == <<activity, wait_list, pc, granted, asleep>>

Init ==
  /\ activity = 0 /\ wait_list = <<>>
  /\ pc = [t \in Task |-> "out"]
  /\ granted = {} /\ asleep = {}

Goto(t, l) == pc' = [pc EXCEPT ![t] = l]

FrontReaders == {i \in DOMAIN wait_list : \A j \in 1 .. i : wait_list[j].type = "read"}

Woken == Cardinality(FrontReaders)

\* __rwsem_do_wake() with the lock in state act.
DoWake(act, wakewrite) ==
  IF wait_list[1].type = "write"
  THEN /\ asleep' = IF wakewrite THEN asleep \ {wait_list[1].task} ELSE asleep
       /\ activity' = act
       /\ UNCHANGED <<wait_list, granted>>
  ELSE LET out == {wait_list[i].task : i \in 1 .. Woken} IN
       /\ wait_list' = SubSeq(wait_list, Woken + 1, Len(wait_list))
       /\ granted' = granted \cup out
       /\ asleep' = asleep \ out
       /\ activity' = act + Woken

MayRead == activity >= 0 /\ wait_list = <<>>

\* __down_read() and, when it succeeds, __down_read_trylock().
DownRead(t) ==
  /\ pc[t] = "out"
  /\ IF MayRead
     THEN activity' = activity + 1 /\ Goto(t, "reading") /\ UNCHANGED <<wait_list, asleep>>
     ELSE /\ asleep' = asleep \cup {t}
          /\ wait_list' = Append(wait_list, [task |-> t, type |-> "read"])
          /\ Goto(t, "readTest")
          /\ UNCHANGED activity
  /\ UNCHANGED granted

ReadTest(t) ==
  /\ pc[t] = "readTest"
  /\ IF t \in granted
     THEN Goto(t, "reading") /\ asleep' = asleep \ {t} /\ granted' = granted \ {t}
     ELSE Goto(t, "readSleep") /\ UNCHANGED <<asleep, granted>>
  /\ UNCHANGED <<activity, wait_list>>

\* schedule() returns, and the task state is set again.
ReadWoken(t) ==
  /\ pc[t] = "readSleep" /\ t \notin asleep
  /\ asleep' = asleep \cup {t}
  /\ Goto(t, "readTest")
  /\ UNCHANGED <<activity, wait_list, granted>>

\* __down_write_trylock(), when it succeeds.
DownWriteTrylock(t) ==
  /\ pc[t] = "out" /\ activity = 0
  /\ activity' = -1
  /\ Goto(t, "writing")
  /\ UNCHANGED <<wait_list, granted, asleep>>

\* list_del(&waiter.list) for the waiter of t.
ListDel(q, t) ==
  LET n == CHOOSE i \in DOMAIN q : q[i].task = t IN
  [i \in 1 .. Len(q) - 1 |-> IF i < n THEN q[i] ELSE q[i + 1]]

\* __down_write() with its entry in list q: take a free lock or sleep.
TakeOrSleep(t, q) ==
  /\ IF activity = 0
     THEN /\ activity' = -1
          /\ wait_list' = ListDel(q, t)
          /\ Goto(t, "writing") /\ UNCHANGED asleep
     ELSE /\ asleep' = asleep \cup {t}
          /\ wait_list' = q
          /\ Goto(t, "writeSleep") /\ UNCHANGED activity
  /\ UNCHANGED granted

DownWrite(t) ==
  /\ pc[t] = "out"
  /\ TakeOrSleep(t, Append(wait_list, [task |-> t, type |-> "write"]))

WriteWoken(t) ==
  /\ pc[t] = "writeSleep" /\ t \notin asleep
  /\ TakeOrSleep(t, wait_list)

\* __rwsem_wake_one_writer() wakes the head of the list, whatever it is.
UpRead(t) ==
  /\ pc[t] = "reading"
  /\ activity' = activity - 1
  /\ asleep' = IF activity = 1 /\ wait_list # <<>> THEN asleep \ {wait_list[1].task} ELSE asleep
  /\ Goto(t, "out")
  /\ UNCHANGED <<wait_list, granted>>

\* __up_write() and __downgrade_write() leave the lock in state act.
Unlock(act, wakewrite) ==
  IF wait_list # <<>>
  THEN DoWake(act, wakewrite)
  ELSE activity' = act /\ UNCHANGED <<wait_list, granted, asleep>>

UpWrite(t) ==
  /\ pc[t] = "writing"
  /\ Unlock(0, TRUE)
  /\ Goto(t, "out")

DowngradeWrite(t) ==
  /\ pc[t] = "writing"
  /\ Unlock(1, FALSE)
  /\ Goto(t, "reading")

SpuriousWake(t) ==
  /\ pc[t] \in {"readTest", "readSleep", "writeSleep"} /\ t \in asleep
  /\ asleep' = asleep \ {t}
  /\ UNCHANGED <<activity, wait_list, pc, granted>>

Step(t) == ReadTest(t) \/ ReadWoken(t) \/ WriteWoken(t)

Release(t) == UpRead(t) \/ UpWrite(t)

Next == \E t \in Task :
  \/ DownRead(t) \/ DownWriteTrylock(t) \/ DownWrite(t)
  \/ Step(t) \/ Release(t) \/ DowngradeWrite(t) \/ SpuriousWake(t)

Spec == Init /\ [][Next]_vars
-----------------------------------------------------------------------------
Readers == {t \in Task : pc[t] = "reading"} \cup granted

Writers == {t \in Task : pc[t] = "writing"}

\* activity is -1 for a writer and the number of readers otherwise, the ones that
\* have been let in and do not know it yet included (rwsem-spinlock.c:62-63, 94).
Ledger == activity = IF Writers # {} THEN -1 ELSE Cardinality(Readers)

\* Whoever is first in the list of a lock no writer holds is a writer: that is
\* why __up_read() may wake it without looking (rwsem-spinlock.c:107-116, 258).
HeadIsWriter == activity >= 0 /\ wait_list # <<>> => wait_list[1].type = "write"

=============================================================================
