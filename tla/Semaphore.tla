----------------------------- MODULE Semaphore -----------------------------
(***************************************************************************)
(* locking/semaphore.c.  Everything between taking and dropping sem->lock  *)
(* is one step; a waiter drops the lock, goes through schedule_timeout()   *)
(* and takes the lock again, and meanwhile anything can happen: up(), a    *)
(* signal, the timeout, a spurious wake-up.                                *)
(***************************************************************************)
EXTENDS TaskSleep, Naturals, Sequences, FiniteSets

CONSTANTS
  Permits,   \* initial count
  MaxExtra   \* bound on calls of up() by tasks that hold nothing

ASSUME PermitsAssumption == Permits \in Nat /\ MaxExtra \in Nat

VARIABLES
  count, wait_list,  \* struct semaphore
  up,                \* the waiters with semaphore_waiter.up set
  extra              \* calls of up() without a permit

sem  == <<count, wait_list, up, extra>>
vars == <<sem, task>>

Init ==
  /\ SleepInit
  /\ count = Permits /\ wait_list = <<>> /\ up = {} /\ extra = 0

\* Mutant: the waiter is left on the list.
WithoutNobody(t) == wait_list

\* The wait list without t, list_del(&waiter.list).
Without(t) ==
  LET n == CHOOSE i \in DOMAIN wait_list : wait_list[i] = t IN
  [i \in 1 .. Len(wait_list) - 1 |-> IF i < n THEN wait_list[i] ELSE wait_list[i + 1]]
-----------------------------------------------------------------------------
(* Down.                                                                   *)

CountPositive == count > 0

\* Mutant: the signal and the timeout are looked at first.
UpIgnored(t) == TRUE

\* The permit was not handed over, !waiter.up.
NotUp(t) == t \notin up

\* Uncontended: all functions, and a successful down_trylock().
DownFast(t) ==
  /\ pc[t] = "out"
  /\ CountPositive
  /\ count' = count - 1
  /\ pc' = [pc EXCEPT ![t] = "held"]
  /\ UNCHANGED <<wait_list, up, extra, kind, state, signal, expired>>

\* Contended: __down_common() up to its first unlock.  With a signal pending
\* or no time to wait it queues and unqueues under the lock: nothing changes.
DownSlow(t, k) ==
  /\ pc[t] = "out"
  /\ count = 0
  /\ ~SignalPending(k, signal[t])
  /\ wait_list' = Append(wait_list, t)
  /\ Enter(t, k)
  /\ UNCHANGED <<count, up, extra>>

\* The lock is taken again: the permit was handed over ...
Granted(t) ==
  /\ pc[t] = "relock"
  /\ t \in up
  /\ up' = up \ {t}
  /\ Leave(t, "held")
  /\ UNCHANGED <<count, wait_list, extra>>

\* ... or the wait is over without it, -EINTR or -ETIME ...
GiveUp(t) ==
  /\ pc[t] = "relock"
  /\ NotUp(t) /\ Disturbed(t)
  /\ wait_list' = Without(t)
  /\ Leave(t, "out")
  /\ UNCHANGED <<count, up, extra>>

\* ... or the task goes to sleep once more.
SleepAgain(t) ==
  /\ pc[t] = "relock"
  /\ NotUp(t) /\ ~Disturbed(t)
  /\ SleepOn(t)
  /\ UNCHANGED sem
-----------------------------------------------------------------------------
(* Up.                                                                     *)

\* Mutant: the last waiter gets the permit.
LastWaiter == wait_list[Len(wait_list)]

FirstWaiter == Head(wait_list)

\* Mutant: the waiter is not woken.
HandSilently ==
  /\ wait_list # <<>>
  /\ wait_list' = Without(FirstWaiter)
  /\ up' = up \cup {FirstWaiter}
  /\ UNCHANGED <<count, state>>

\* __up(): the first waiter gets the permit; the count stays.
HandToFirst ==
  /\ wait_list # <<>>
  /\ wait_list' = Without(FirstWaiter)
  /\ up' = up \cup {FirstWaiter}
  /\ Wake({FirstWaiter})
  /\ UNCHANGED count

Up ==
  \/ wait_list = <<>> /\ count' = count + 1 /\ UNCHANGED <<wait_list, up, state>>
  \/ HandToFirst

\* up() by the owner of a permit.
Release(t) ==
  /\ pc[t] = "held"
  /\ Up
  /\ pc' = [pc EXCEPT ![t] = "out"]
  /\ UNCHANGED <<extra, kind, signal, expired>>

\* up() by a task or an interrupt that never called down().
UpByOther ==
  /\ extra < MaxExtra
  /\ Up
  /\ extra' = extra + 1
  /\ UNCHANGED <<pc, kind, signal, expired>>
-----------------------------------------------------------------------------
Waiter(t) ==
  \/ Scheduled(t) /\ UNCHANGED sem
  \/ Granted(t) \/ GiveUp(t) \/ SleepAgain(t)

Next ==
  \/ \E t \in Task :
        \/ DownFast(t) \/ Waiter(t) \/ Release(t)
        \/ \E k \in Kinds : DownSlow(t, k)
        \/ Disturb(t) /\ UNCHANGED sem
  \/ UpByOther

Spec == Init /\ [][Next]_vars

\* A runnable task runs, and whoever holds a permit gives it back.
FairSpec == Spec /\ \A t \in Task : WF_vars(Waiter(t)) /\ WF_vars(Release(t))
-----------------------------------------------------------------------------
Queued == {wait_list[i] : i \in DOMAIN wait_list}

\* The count is unsigned and never exceeds the permits there are; a task is queued,
\* once, exactly while it waits and was not handed a permit, so the list never keeps
\* a waiter whose stack frame is gone (semaphore.c:58-59, 183-184, 208-234, 256-262).
TypeOK ==
  /\ SleepTypeOK
  /\ count \in 0 .. Permits + MaxExtra
  /\ wait_list \in Seq(Task)
  /\ \A i, j \in DOMAIN wait_list : wait_list[i] = wait_list[j] => i = j
  /\ Queued = {t \in Task : pc[t] \in {"sched", "relock"} /\ t \notin up}
  /\ up \subseteq Task
  /\ extra \in 0 .. MaxExtra

\* Nobody overtakes: a task that asks for a permit does not get it while others
\* wait, and a permit is handed to the task that has waited longest; a wait that
\* ignores signals and has no timeout ends with the permit only (semaphore.c:58, 136,
\* 216-225, 258).
Fifo ==
  [][/\ \A t \in Task : pc[t] = "out" /\ pc'[t] = "held" => wait_list = <<>>
     /\ \A t \in up' \ up : t = Head(wait_list)
     /\ \A t \in Task : pc[t] = "relock" /\ kind[t] = "plain" => pc'[t] # "out"]_vars

\* Every wait ends, although others come and go (semaphore.c:214-225).
WaitEnds == \A t \in Task : []<>(pc[t] \in {"held", "out"})

\* The mapping to the promise: an owner is a task that was handed a permit,
\* even before it runs.
Promise == INSTANCE CountingSemaphore WITH
  free    <- count,
  waiting <- Queued,
  holding <- {t \in Task : pc[t] = "held"} \cup up

\* locking/semaphore.c implements CountingSemaphore: no permit is lost or made
\* up in any race of up() with a signal or a timeout (semaphore.c:53-263).
Implements == Promise!Spec
=============================================================================
