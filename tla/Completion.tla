----------------------------- MODULE Completion -----------------------------
(***************************************************************************)
(* sched/completion.c.  A completion counts the calls of complete() that   *)
(* no waiter has taken yet.  As in Semaphore, a section under x->wait.lock *)
(* is one step.  Unlike there, complete() hands nothing over: it wakes a   *)
(* waiter, which has to find the counter positive when it gets to run.     *)
(***************************************************************************)
EXTENDS TaskSleep, Naturals, Sequences, FiniteSets

CONSTANTS
  UintMax,     \* largest value of the counter (2^32 - 1)
  MaxPosted,   \* bound on calls of complete()
  MaxAll       \* bound on calls of complete_all()

ASSUME CompletionAssumption ==
  UintMax \in Nat \ {0} /\ MaxPosted \in Nat /\ MaxAll \in Nat

VARIABLES
  done,      \* x->done
  wait,      \* x->wait.task_list
  posted,    \* calls of complete()
  alls,      \* calls of complete_all()
  taken,     \* completions taken by waiters
  owed       \* tasks that waited at a complete_all() and did not get through since

x    == <<done, wait, posted, alls, taken, owed>>
vars == <<x, task>>

Init ==
  /\ SleepInit
  /\ done = 0 /\ wait = <<>>
  /\ posted = 0 /\ alls = 0 /\ taken = 0 /\ owed = {}

\* The queue without t, __remove_wait_queue().
Without(t) ==
  LET n == CHOOSE i \in DOMAIN wait : wait[i] = t IN
  [i \in 1 .. Len(wait) - 1 |-> IF i < n THEN wait[i] ELSE wait[i + 1]]

\* The tasks in the queue.
Queued == {wait[i] : i \in DOMAIN wait}

\* x->done--
Take ==
  /\ done > 0
  /\ done' = done - 1
  /\ taken' = taken + 1
  /\ UNCHANGED <<posted, alls>>
-----------------------------------------------------------------------------
(* The waiting side, do_wait_for_common() and try_wait_for_completion().   *)

WaitFast(t) ==
  /\ pc[t] = "out"
  /\ Take
  /\ UNCHANGED <<wait, owed, task>>

\* With a signal pending the task queues and unqueues under the lock.
WaitSlow(t, k) ==
  /\ pc[t] = "out"
  /\ done = 0
  /\ ~SignalPending(k, signal[t])
  /\ wait' = Append(wait, t)
  /\ Enter(t, k)
  /\ UNCHANGED <<done, posted, taken, alls, owed>>

\* Back under the lock the counter comes first, even if time is up.
Completed(t) ==
  /\ pc[t] = "relock"
  /\ Take
  /\ wait' = Without(t)
  /\ owed' = owed \ {t}
  /\ Leave(t, "out")

\* Mutant: the waiter is not taken off the queue.
GiveUpQueued(t) ==
  /\ pc[t] = "relock"
  /\ done = 0 /\ Disturbed(t)
  /\ Leave(t, "out")
  /\ UNCHANGED x

\* Mutant: the timeout and the signal come before the counter.
GiveUpFirst(t) ==
  /\ pc[t] = "relock"
  /\ Disturbed(t)
  /\ wait' = Without(t)
  /\ Leave(t, "out")
  /\ UNCHANGED <<done, posted, taken, alls, owed>>

GiveUp(t) ==
  /\ pc[t] = "relock"
  /\ done = 0 /\ Disturbed(t)
  /\ wait' = Without(t)
  /\ Leave(t, "out")
  /\ UNCHANGED <<done, posted, taken, alls, owed>>

\* Mutant: do { } while (timeout), the counter is not looked at.
SleepAgainBlind(t) ==
  /\ pc[t] = "relock"
  /\ ~Disturbed(t)
  /\ SleepOn(t)
  /\ UNCHANGED x

SleepAgain(t) ==
  /\ pc[t] = "relock"
  /\ done = 0 /\ ~Disturbed(t)
  /\ SleepOn(t)
  /\ UNCHANGED x
-----------------------------------------------------------------------------
(* The completing side.                                                    *)

\* Mutant: only the head of the queue is tried.
WakeOneHead == {wait[i] : i \in DOMAIN wait \cap {1}}

\* __wake_up_common() with one exclusive wake-up: the first queued task that
\* try_to_wake_up() finds asleep; a waiter that runs already is passed over.
WakeOne ==
  {wait[i] : i \in {j \in DOMAIN wait :
                      /\ state[wait[j]] = "SLEEP"
                      /\ \A h \in 1 .. j - 1 : state[wait[h]] = "RUNNING"}}

Complete ==
  /\ posted < MaxPosted
  /\ done' = (done + 1) % (UintMax + 1)
  /\ posted' = posted + 1
  /\ Wake(WakeOne)
  /\ UNCHANGED <<wait, taken, alls, owed, pc, kind, signal, expired>>

\* done += UINT_MAX/2, and everybody wakes up.
CompleteAll ==
  /\ alls < MaxAll
  /\ done' = (done + UintMax \div 2) % (UintMax + 1)
  /\ alls' = alls + 1
  /\ owed' = owed \cup Queued
  /\ Wake(Queued)
  /\ UNCHANGED <<wait, posted, taken, pc, kind, signal, expired>>
-----------------------------------------------------------------------------
Waiter(t) ==
  \/ Scheduled(t) /\ UNCHANGED x
  \/ Completed(t) \/ GiveUp(t) \/ SleepAgain(t)

Next ==
  \/ \E t \in Task :
        \/ WaitFast(t) \/ Waiter(t)
        \/ \E k \in Kinds : WaitSlow(t, k)
        \/ Disturb(t) /\ UNCHANGED x
  \/ Complete \/ CompleteAll

Spec == Init /\ [][Next]_vars

\* A runnable waiter runs.
FairSpec == Spec /\ \A t \in Task : WF_vars(Waiter(t))
-----------------------------------------------------------------------------
\* The counter stays an unsigned number, and the queue holds the waiting tasks, once
\* each: an entry is on the stack of its task (completion.c:34, 54, 67, 78, 82).
TypeOK ==
  /\ SleepTypeOK
  /\ done \in 0 .. UintMax
  /\ wait \in Seq(Task)
  /\ Len(wait) = Cardinality({t \in Task : pc[t] # "out"})
  /\ \A t \in Task : pc[t] # "out" => \E i \in DOMAIN wait : wait[i] = t
  /\ posted \in 0 .. MaxPosted /\ alls \in 0 .. MaxAll /\ taken \in Nat
  /\ owed \subseteq Task

\* A task that waits at a complete_all() is let through: from then on it is awake
\* in the queue until it finds the counter positive, and it neither gives up nor
\* sleeps again, whether its timeout has run down or a signal is pending, and
\* whoever takes completions before it.  This holds until half the range of the
\* counter was taken, which complete_all() counts as everybody, and unless the
\* counter has wrapped (completion.c:54-55, 72-83).
AllLetThrough ==
  /\ posted + alls * (UintMax \div 2) <= UintMax
  /\ taken < UintMax \div 2
  => \A t \in owed : pc[t] # "out" /\ state[t] = "RUNNING"

\* There are as many queued tasks awake as can be let through, so no
\* completion is stuck behind a sleeper (completion.c:35, 55, wait.c:69-75).
EnoughAwake ==
  LET awake == {t \in Task : pc[t] # "out" /\ state[t] = "RUNNING"} IN
  Cardinality(awake) >= done \/ Cardinality(awake) = Len(wait)

\* A completion does not lie idle while tasks wait for it
\* (completion.c:64-83).
Taken == (done > 0 /\ wait # <<>>) ~> (done = 0 \/ wait = <<>>)
=============================================================================
