-------------------------- MODULE SemaphoreProofs --------------------------
(***************************************************************************)
(* semaphore.c implements the counting semaphore and keeps its permits,    *)
(* for any number of tasks and permits and all kinds of waiting.  Below    *)
(* it, the spinlock build of the rw_semaphore, which is on its own.        *)
(***************************************************************************)
EXTENDS Semaphore, Integers, SequenceTheorems, FiniteSetTheorems, FunctionTheorems,
        NaturalsInduction, WellFoundedInduction, TLAPS

Distinct(q) == \A i, j \in 1 .. Len(q) : q[i] = q[j] => i = j

\* The list holds the tasks that wait and were not handed a permit, once each.
ListInv ==
  /\ wait_list \in Seq(Task) /\ Distinct(wait_list)
  /\ Queued = {t \in Task : pc[t] \in {"sched", "relock"} /\ t \notin up}

\* A permit that was handed over belongs to a task that still waits.
UpInv == up \subseteq Task /\ \A t \in up : pc[t] \in {"sched", "relock"}

\* Time runs down only for those that wait with a timeout.
TimeInv == \A t \in Task : expired[t] => Timed(kind[t]) /\ pc[t] \in {"sched", "relock"}

SemInv ==
  /\ SleepTypeOK /\ count \in Nat /\ extra \in Nat
  /\ ListInv /\ UpInv /\ TimeInv
  /\ count > 0 => wait_list = <<>>
-----------------------------------------------------------------------------
\* The list and the set of those in it.
LEMMA ListFacts ==
  ASSUME wait_list \in Seq(Task)
  PROVE  /\ Len(wait_list) \in Nat /\ DOMAIN wait_list = 1 .. Len(wait_list)
         /\ Queued \subseteq Task
         /\ wait_list = <<>> <=> Queued = {}
         /\ wait_list # <<>> => /\ 1 \in DOMAIN wait_list /\ Head(wait_list) = wait_list[1]
                                /\ Head(wait_list) \in Queued
<1>1. Len(wait_list) \in Nat /\ DOMAIN wait_list = 1 .. Len(wait_list)
  BY LenProperties
<1>2. Queued \subseteq Task
  BY <1>1, ElementOfSeq DEF Queued
<1>3. wait_list = <<>> => Queued = {}
  BY EmptySeq DEF Queued
<1>4. ASSUME wait_list # <<>>
      PROVE  1 \in DOMAIN wait_list /\ Head(wait_list) = wait_list[1]
  <2>1. Len(wait_list) # 0
    BY <1>4, EmptySeq
  <2>2. 1 \in DOMAIN wait_list
    BY <1>1, <2>1
  <2>3. QED
    BY <1>4, <2>2, HeadTailProperties
<1>5. wait_list # <<>> => Head(wait_list) \in Queued
  BY <1>4 DEF Queued
<1>6. QED
  BY <1>1, <1>2, <1>3, <1>4, <1>5

\* list_del(&waiter.list)
LEMMA Deleted ==
  ASSUME wait_list \in Seq(Task), Distinct(wait_list), NEW t \in Queued,
         wait_list' = Without(t)
  PROVE  wait_list' \in Seq(Task) /\ Distinct(wait_list)' /\ Queued' = Queued \ {t}
<1>1. PICK n \in Nat : n = Len(wait_list) /\ DOMAIN wait_list = 1 .. n
  BY LenProperties
<1>2. PICK c : c = CHOOSE i \in DOMAIN wait_list : wait_list[i] = t
  OBVIOUS
<1>3. c \in 1 .. n /\ wait_list[c] = t
  BY <1>1, <1>2 DEF Queued
<1>4. PICK q : q = wait_list'
  OBVIOUS
<1>5. q = [i \in 1 .. n - 1 |-> IF i < c THEN wait_list[i] ELSE wait_list[i + 1]]
  BY <1>1, <1>2, <1>4 DEF Without
<1>6. \A i \in 1 .. n : wait_list[i] \in Task
  BY <1>1, ElementOfSeq
<1>7. n - 1 \in Nat /\ q \in [1 .. n - 1 -> Task]
  BY <1>3, <1>5, <1>6
<1>8. q \in Seq(Task) /\ Len(q) = n - 1 /\ DOMAIN q = 1 .. n - 1
  <2>1. q \in Seq(Task)
    BY <1>7, SeqDef
  <2>2. QED
    BY <1>7, <2>1, LenProperties
<1>9. \A i, j \in 1 .. n : wait_list[i] = wait_list[j] => i = j
  BY <1>1 DEF Distinct
<1>10. PICK h : h = [i \in 1 .. n - 1 |-> IF i < c THEN i ELSE i + 1]
  BY Zenon
<1>11. \A i \in 1 .. n - 1 : h[i] \in 1 .. n /\ h[i] # c /\ q[i] = wait_list[h[i]]
  BY <1>3, <1>5, <1>10
<1>12. \A i, j \in 1 .. n - 1 : h[i] = h[j] => i = j
  BY <1>3, <1>10
<1>13. Distinct(q)
  <2> SUFFICES ASSUME NEW i \in 1 .. n - 1, NEW j \in 1 .. n - 1, q[i] = q[j] PROVE i = j
    BY <1>8 DEF Distinct
  <2>1. h[i] = h[j]
    BY <1>9, <1>11
  <2>2. QED
    BY <1>12, <2>1
<1>14. ASSUME NEW u PROVE u \in {q[i] : i \in DOMAIN q} <=> u \in Queued \ {t}
  <2>1. ASSUME NEW i \in 1 .. n - 1 PROVE q[i] \in Queued \ {t}
    <3>1. h[i] \in 1 .. n /\ h[i] # c /\ q[i] = wait_list[h[i]]
      BY <1>11
    <3>2. wait_list[h[i]] # t
      BY <1>3, <1>9, <3>1
    <3>3. wait_list[h[i]] \in Queued
      BY <1>1, <3>1 DEF Queued
    <3>4. QED
      BY <3>1, <3>2, <3>3
  <2>2. ASSUME NEW k \in 1 .. n, wait_list[k] # t
        PROVE  \E i \in 1 .. n - 1 : q[i] = wait_list[k]
    <3>1. k # c
      BY <1>3, <2>2
    <3>2. CASE k < c
      <4>1. k \in 1 .. n - 1 /\ q[k] = wait_list[k]
        BY <1>3, <1>5, <3>2
      <4>2. QED
        BY <4>1
    <3>3. CASE k > c
      <4>1. k - 1 \in 1 .. n - 1 /\ ~ (k - 1 < c) /\ (k - 1) + 1 = k
        BY <1>3, <3>3
      <4>2. q[k - 1] = wait_list[k]
        BY <1>5, <4>1
      <4>3. QED
        BY <4>1, <4>2
    <3>4. QED
      BY <1>3, <3>1, <3>2, <3>3
  <2>3. ASSUME u \in {q[i] : i \in DOMAIN q} PROVE u \in Queued \ {t}
    <3>1. PICK i \in 1 .. n - 1 : u = q[i]
      BY <1>8, <2>3
    <3>2. QED
      BY <2>1, <3>1
  <2>4. ASSUME u \in Queued, u # t PROVE u \in {q[i] : i \in DOMAIN q}
    <3>1. PICK k \in 1 .. n : u = wait_list[k]
      BY <1>1, <2>4 DEF Queued
    <3>2. PICK i \in 1 .. n - 1 : q[i] = u
      BY <2>2, <2>4, <3>1
    <3>3. QED
      BY <1>8, <3>2
  <2>5. QED
    BY <2>3, <2>4
<1>15. {q[i] : i \in DOMAIN q} = Queued \ {t}
  BY <1>14
<1>16. wait_list' \in Seq(Task)
  BY <1>4, <1>8
<1>17. Distinct(wait_list)'
  BY <1>4, <1>13 DEF Distinct
<1>18. Queued' = {q[i] : i \in DOMAIN q}
  BY <1>4 DEF Queued
<1>19. QED
  BY <1>15, <1>16, <1>17, <1>18

\* list_add_tail(&waiter.list, &sem->wait_list)
LEMMA Appended ==
  ASSUME wait_list \in Seq(Task), Distinct(wait_list), NEW t \in Task, t \notin Queued,
         wait_list' = Append(wait_list, t)
  PROVE  wait_list' \in Seq(Task) /\ Distinct(wait_list)' /\ Queued' = Queued \cup {t}
<1>1. PICK n \in Nat : n = Len(wait_list) /\ DOMAIN wait_list = 1 .. n
  BY LenProperties
<1>2. PICK q : q = wait_list'
  OBVIOUS
<1>3. /\ q \in Seq(Task) /\ Len(q) = n + 1 /\ q[n + 1] = t
      /\ \A i \in 1 .. n : q[i] = wait_list[i]
  BY <1>1, <1>2, AppendProperties
<1>4. DOMAIN q = 1 .. n + 1
  BY <1>3, LenProperties
<1>5. 1 .. n + 1 = 1 .. n \cup {n + 1} /\ n + 1 \notin 1 .. n
  OBVIOUS
<1>6. \A i \in 1 .. n : q[i] # t
  BY <1>1, <1>3 DEF Queued
<1>7. \A i, j \in 1 .. n : q[i] = q[j] => i = j
  BY <1>1, <1>3 DEF Distinct
<1>8. \A i, j \in 1 .. n \cup {n + 1} : q[i] = q[j] => i = j
  BY <1>3, <1>6, <1>7
<1>9. Distinct(q)
  BY <1>3, <1>5, <1>8 DEF Distinct
<1>10. {q[i] : i \in DOMAIN q} = Queued \cup {t}
  BY <1>1, <1>3, <1>4, <1>5 DEF Queued
<1>11. QED
  BY <1>2, <1>3, <1>9, <1>10 DEF Distinct, Queued
-----------------------------------------------------------------------------
Owners == {t \in Task : pc[t] = "held"} \cup up

FifoStep ==
  /\ \A t \in Task : pc[t] = "out" /\ pc'[t] = "held" => wait_list = <<>>
  /\ \A t \in up' \ up : t = Head(wait_list)
  /\ \A t \in Task : pc[t] = "relock" /\ kind[t] = "plain" => pc'[t] # "out"

\* What a step of the program does, seen from the promise.
Kept == SemInv' /\ FifoStep /\ (Promise!Next \/ UNCHANGED <<count, Queued, Owners, extra>>)

\* down() without a wait.
LEMMA KeepDownFast ==
  ASSUME SemInv, NEW t \in Task, DownFast(t) PROVE Kept
<1> USE DEF SemInv, UpInv, ListInv, TimeInv, SleepTypeOK, DownFast, CountPositive
<1>1. wait_list = <<>>
  OBVIOUS
<1>2. pc' \in [Task -> {"out", "sched", "relock", "held"}]
  OBVIOUS
<1>3. Queued' = Queued /\ Queued = {}
  BY <1>1, ListFacts DEF Queued
<1>4. Queued' = {u \in Task : pc'[u] \in {"sched", "relock"} /\ u \notin up'}
  BY <1>3
<1>5. SemInv'
  BY <1>1, <1>2, <1>4 DEF Distinct
<1>6. FifoStep
  BY <1>1 DEF FifoStep
<1>7. t \notin Queued \cup Owners /\ Owners' = Owners \cup {t}
  BY <1>3 DEF Owners
<1>8. Promise!Acquire(t)
  BY <1>3, <1>7 DEF Promise!Acquire, Owners
<1>9. QED
  BY <1>5, <1>6, <1>8 DEF Kept, Promise!Next

\* down() that has to wait.
LEMMA KeepDownSlow ==
  ASSUME SemInv, NEW t \in Task, NEW k \in Kinds, DownSlow(t, k) PROVE Kept
<1> USE DEF SemInv, UpInv, ListInv, TimeInv, SleepTypeOK, DownSlow, Enter
<1>1. t \notin Queued /\ t \notin Owners
  BY DEF Owners
<1>2. wait_list' \in Seq(Task) /\ Distinct(wait_list)' /\ Queued' = Queued \cup {t}
  BY <1>1, Appended
<1>3. /\ pc' \in [Task -> {"out", "sched", "relock", "held"}] /\ kind' \in [Task -> Kind]
      /\ state' \in [Task -> {"RUNNING", "SLEEP"}]
  BY SleepAssumption
<1>4. Queued' = {u \in Task : pc'[u] \in {"sched", "relock"} /\ u \notin up'}
  BY <1>1, <1>2 DEF Owners
<1>5. TimeInv'
  BY DEF DownSlow
<1>6. SemInv'
  BY <1>2, <1>3, <1>4, <1>5
<1>7. FifoStep
  BY DEF FifoStep
<1>8. Owners' = Owners
  BY DEF Owners
<1>9. Promise!Wait(t)
  BY <1>1, <1>2, <1>8 DEF Promise!Wait, Owners
<1>10. QED
  BY <1>6, <1>7, <1>9 DEF Kept, Promise!Next

\* Steps that only move a waiter or happen to a task.
LEMMA KeepMoves ==
  ASSUME SemInv, NEW t \in Task,
         (Scheduled(t) /\ UNCHANGED sem) \/ SleepAgain(t) \/ (Disturb(t) /\ UNCHANGED sem)
  PROVE  Kept
<1> USE DEF SemInv, UpInv, ListInv, TimeInv, sem
<1>1. UNCHANGED <<count, wait_list, up, extra>>
  BY DEF SleepAgain
<1>2. /\ SleepTypeOK' /\ TimeInv'
      /\ \A u \in Task : pc'[u] = pc[u] \/ {pc[u], pc'[u]} \subseteq {"sched", "relock"}
  <2>1. CASE Scheduled(t)
    BY <2>1 DEF Scheduled, SleepTypeOK
  <2>2. CASE SleepAgain(t)
    BY <2>2 DEF SleepAgain, SleepOn, SleepTypeOK
  <2>3. CASE Disturb(t)
    <3>1. CASE \E s \in Signals : SendSignal(t, s)
      BY <3>1, SleepAssumption DEF SendSignal, Wake, SleepTypeOK
    <3>2. CASE SignalHandled(t)
      BY <3>2 DEF SignalHandled, SleepTypeOK, Signal
    <3>3. CASE Timeout(t)
      <4>1. SleepTypeOK'
        BY <3>3 DEF Timeout, Wake, SleepTypeOK
      <4>2. TimeInv'
        BY <3>3 DEF Timeout, SleepTypeOK
      <4>3. QED
        BY <3>3, <4>1, <4>2 DEF Timeout
    <3>4. CASE SpuriousWake(t)
      BY <3>4 DEF SpuriousWake, Wake, SleepTypeOK
    <3>5. QED
      BY <2>3, <3>1, <3>2, <3>3, <3>4 DEF Disturb
  <2>4. QED
    BY <2>1, <2>2, <2>3
<1>3. UNCHANGED <<Queued, Owners>>
  BY <1>1, <1>2 DEF Queued, Owners
<1>4. Queued' = {u \in Task : pc'[u] \in {"sched", "relock"} /\ u \notin up'}
  BY <1>1, <1>2, <1>3
<1>5. SemInv'
  BY <1>1, <1>2, <1>4 DEF Distinct
<1>6. FifoStep
  BY <1>1, <1>2 DEF FifoStep
<1>7. QED
  BY <1>1, <1>3, <1>5, <1>6 DEF Kept

\* The waiter finds that it was handed a permit.
LEMMA KeepGranted ==
  ASSUME SemInv, NEW t \in Task, Granted(t) PROVE Kept
<1> USE DEF SemInv, UpInv, ListInv, TimeInv, SleepTypeOK, Granted, Leave
<1>1. UNCHANGED <<Queued, Owners>>
  BY DEF Queued, Owners
<1>2. /\ pc' \in [Task -> {"out", "sched", "relock", "held"}] /\ kind' \in [Task -> Kind]
      /\ expired' \in [Task -> BOOLEAN]
  BY DEF Kind
<1>3. Queued' = {u \in Task : pc'[u] \in {"sched", "relock"} /\ u \notin up'}
  BY <1>1
<1>4. SemInv'
  BY <1>2, <1>3 DEF Distinct
<1>5. FifoStep
  BY DEF FifoStep
<1>6. QED
  BY <1>1, <1>4, <1>5 DEF Kept

\* The waiter leaves on a signal or a timeout.
LEMMA KeepGiveUp ==
  ASSUME SemInv, NEW t \in Task, GiveUp(t) PROVE Kept
<1> USE DEF SemInv, UpInv, ListInv, TimeInv, SleepTypeOK, GiveUp, Leave, NotUp
<1>1. t \in Queued
  OBVIOUS
<1>2. wait_list' \in Seq(Task) /\ Distinct(wait_list)' /\ Queued' = Queued \ {t}
  BY <1>1, Deleted
<1>3. /\ pc' \in [Task -> {"out", "sched", "relock", "held"}] /\ kind' \in [Task -> Kind]
      /\ expired' \in [Task -> BOOLEAN]
  BY DEF Kind
<1>4. Queued' = {u \in Task : pc'[u] \in {"sched", "relock"} /\ u \notin up'}
  BY <1>2
<1>5. count' > 0 => wait_list' = <<>>
  BY <1>1, ListFacts
<1>6. SemInv'
  BY <1>2, <1>3, <1>4, <1>5
<1>7. kind[t] # "plain"
  BY DEF Disturbed, SignalPending, Timed
<1>8. FifoStep
  BY <1>7 DEF FifoStep
<1>9. Owners' = Owners
  BY DEF Owners
<1>10. Promise!GiveUp(t)
  BY <1>1, <1>2, <1>9 DEF Promise!GiveUp, Owners
<1>11. QED
  BY <1>6, <1>8, <1>10 DEF Kept, Promise!Next

\* up(), whoever calls it: the list, the count and the permit of the first waiter.
LEMMA UpEffect ==
  ASSUME SemInv, Up
  PROVE  /\ wait_list' \in Seq(Task) /\ Distinct(wait_list)' /\ count' \in Nat
         /\ state' \in [Task -> {"RUNNING", "SLEEP"}]
         /\ count' > 0 => wait_list' = <<>>
         /\ \A u \in up' \ up : u = Head(wait_list)
         /\ \/ Queued = {} /\ Queued' = {} /\ up' = up /\ count' = count + 1
            \/ \E w \in Queued : Queued' = Queued \ {w} /\ up' = up \cup {w} /\ count' = count
<1> USE DEF SemInv, ListInv, SleepTypeOK
<1>1. CASE wait_list = <<>> /\ count' = count + 1 /\ UNCHANGED <<wait_list, up, state>>
  <2>1. Queued = {} /\ Queued' = {}
    BY <1>1, ListFacts DEF Queued
  <2>2. QED
    BY <1>1, <2>1 DEF Distinct
<1>2. CASE HandToFirst
  <2>1. PICK w \in Queued : w = Head(wait_list)
    BY <1>2, ListFacts DEF HandToFirst
  <2>2. wait_list' \in Seq(Task) /\ Distinct(wait_list)' /\ Queued' = Queued \ {w}
    BY <1>2, <2>1, Deleted DEF HandToFirst, FirstWaiter
  <2>3. state' \in [Task -> {"RUNNING", "SLEEP"}]
    BY <1>2 DEF HandToFirst, Wake
  <2>4. count' = count /\ ~ (count > 0)
    BY <1>2 DEF HandToFirst
  <2>5. up' = up \cup {w}
    BY <1>2, <2>1 DEF HandToFirst, FirstWaiter
  <2>6. QED
    BY <2>1, <2>2, <2>3, <2>4, <2>5
<1>3. QED
  BY <1>1, <1>2 DEF Up

\* up() by an owner.
LEMMA KeepRelease ==
  ASSUME SemInv, NEW t \in Task, Release(t) PROVE Kept
<1> USE DEF SemInv, UpInv, ListInv, TimeInv, SleepTypeOK, Release
<1>1. t \in Owners /\ t \notin Queued /\ t \notin up
  BY DEF Owners
<1>2. pc' \in [Task -> {"out", "sched", "relock", "held"}]
  OBVIOUS
<1>3. CASE Queued = {} /\ Queued' = {} /\ up' = up /\ count' = count + 1
  <2>1. Owners' = Owners \ {t}
    BY <1>1, <1>3 DEF Owners
  <2>2. Promise!Release(t)
    BY <1>1, <1>3, <2>1 DEF Promise!Release, Owners
  <2>3. Queued' = {u \in Task : pc'[u] \in {"sched", "relock"} /\ u \notin up'} /\ UpInv'
    BY <1>1, <1>3
  <2>4. QED
    BY <2>2, <2>3, <1>2, UpEffect DEF Kept, Promise!Next, FifoStep
<1>4. ASSUME NEW w \in Queued, Queued' = Queued \ {w}, up' = up \cup {w}, count' = count
      PROVE  Kept
  <2>1. w \in Task /\ w # t /\ pc[w] \in {"sched", "relock"}
    BY <1>1
  <2>2. Owners' = (Owners \ {t}) \cup {w}
    BY <1>1, <1>4, <2>1 DEF Owners
  <2>3. Promise!HandOver(t, w)
    BY <1>1, <1>4, <2>2 DEF Promise!HandOver, Owners
  <2>4. Queued' = {u \in Task : pc'[u] \in {"sched", "relock"} /\ u \notin up'} /\ UpInv'
    BY <1>1, <1>4, <2>1
  <2>5. SemInv' /\ FifoStep
    BY <2>4, <1>2, UpEffect DEF FifoStep
  <2>6. QED
    BY <2>1, <2>3, <2>5 DEF Kept, Promise!Next
<1>5. QED
  BY <1>3, <1>4, UpEffect

\* up() by somebody who owns nothing.
LEMMA KeepUpByOther ==
  ASSUME SemInv, UpByOther PROVE Kept
<1> USE DEF SemInv, UpInv, ListInv, TimeInv, SleepTypeOK, UpByOther
<1>1. CASE Queued = {} /\ Queued' = {} /\ up' = up /\ count' = count + 1
  <2>1. Owners' = Owners
    BY <1>1 DEF Owners
  <2>2. Promise!Add
    BY <1>1, <2>1 DEF Promise!Add, Owners
  <2>3. Queued' = {u \in Task : pc'[u] \in {"sched", "relock"} /\ u \notin up'} /\ UpInv'
    BY <1>1
  <2>4. SemInv' /\ FifoStep
    BY <2>3, UpEffect DEF FifoStep
  <2>5. QED
    BY <2>2, <2>4 DEF Kept, Promise!Next
<1>2. ASSUME NEW w \in Queued, Queued' = Queued \ {w}, up' = up \cup {w}, count' = count
      PROVE  Kept
  <2>1. w \in Task /\ pc[w] \in {"sched", "relock"}
    OBVIOUS
  <2>2. Owners' = Owners \cup {w}
    BY <1>2 DEF Owners
  <2>3. Promise!Give(w)
    BY <1>2, <2>2 DEF Promise!Give, Owners
  <2>4. Queued' = {u \in Task : pc'[u] \in {"sched", "relock"} /\ u \notin up'} /\ UpInv'
    BY <1>2, <2>1
  <2>5. SemInv' /\ FifoStep
    BY <2>4, UpEffect DEF FifoStep
  <2>6. QED
    BY <2>1, <2>3, <2>5 DEF Kept, Promise!Next
<1>3. QED
  BY <1>1, <1>2, UpEffect
-----------------------------------------------------------------------------
\* After sema_init() the invariant holds and the promise is in its initial state.
LEMMA Start == Init => SemInv /\ Promise!Init
<1> SUFFICES ASSUME Init PROVE SemInv /\ Promise!Init
  OBVIOUS
<1> USE DEF Init, SleepInit
<1>1. wait_list \in Seq(Task) /\ Distinct(wait_list) /\ Queued = {}
  BY DEF Distinct, Queued
<1>2. SemInv
  BY <1>1, PermitsAssumption DEF SemInv, ListInv, UpInv, TimeInv, SleepTypeOK, Kind, Signal
<1>3. Promise!Init
  BY <1>1 DEF Promise!Init
<1>4. QED
  BY <1>2, <1>3

\* Each step of semaphore.c keeps the invariant and the order of the queue, and is
\* a step of the promise or leaves the permits alone.
LEMMA Step ==
  SemInv /\ [Next]_vars => SemInv' /\ [FifoStep]_vars /\ [Promise!Next]_(Promise!vars)
<1> SUFFICES ASSUME SemInv, [Next]_vars
             PROVE  SemInv' /\ [FifoStep]_vars /\ [Promise!Next]_(Promise!vars)
  OBVIOUS
<1>1. Kept => SemInv' /\ [FifoStep]_vars /\ [Promise!Next]_(Promise!vars)
  BY DEF Kept, Promise!vars, Owners
<1>2. CASE UNCHANGED vars
  <2>1. SemInv'
    BY <1>2 DEF vars, sem, task, SemInv, ListInv, UpInv, TimeInv, SleepTypeOK, Distinct, Queued
  <2>2. UNCHANGED Promise!vars
    BY <1>2 DEF vars, sem, task, Promise!vars, Queued
  <2>3. QED
    BY <1>2, <2>1, <2>2
<1>3. CASE Next
  <2>1. Kept
    BY <1>3, KeepDownFast, KeepDownSlow, KeepMoves, KeepGranted, KeepGiveUp, KeepRelease,
       KeepUpByOther DEF Next, Waiter
  <2>2. QED
    BY <1>1, <2>1
<1>4. QED
  BY <1>2, <1>3

\* locking/semaphore.c implements the counting semaphore, for any number of tasks
\* and permits: whatever up(), signals, timeouts and wake-ups do between them, no
\* permit is lost, made up or given twice (semaphore.c:53-263).
THEOREM SemaphoreImplements == Spec => Implements
<1>1. Init => SemInv /\ Promise!Init
  BY Start
<1>2. SemInv /\ [Next]_vars => SemInv' /\ [Promise!Next]_(Promise!vars)
  BY Step
<1>3. QED
  BY <1>1, <1>2, PTL DEF Spec, Implements, Promise!Spec

\* Nobody overtakes a waiter, the permit goes to the one that waited longest, and
\* a wait without signals and timeout ends with the permit only (semaphore.c:58,
\* 216-225, 258).
THEOREM SemaphoreFifo == Spec => Fifo
<1>1. Init => SemInv
  BY Start
<1>2. SemInv /\ [Next]_vars => SemInv' /\ [FifoStep]_vars
  BY Step
<1>3. QED
  BY <1>1, <1>2, PTL DEF Spec, Fifo, FifoStep
-----------------------------------------------------------------------------
(* The permits are counted.                                                *)

\* The permits that are free and those that are owned make up what sema_init() and
\* the extra calls of up() put in.
Conserved == count + Cardinality(Owners) = Permits + extra

PermitInv == SemInv /\ extra <= MaxExtra /\ Conserved

\* What a step of the promise does to the permits and their owners.
LEMMA Moves ==
  ASSUME SemInv, Promise!Next \/ UNCHANGED <<count, Queued, Owners, extra>>
  PROVE  \/ count' = count /\ extra' = extra /\ Owners' = Owners
         \/ \E t \in Task \ Owners : /\ count > 0 /\ count' = count - 1
                                     /\ extra' = extra /\ Owners' = Owners \cup {t}
         \/ \E t \in Owners : count' = count + 1 /\ extra' = extra /\ Owners' = Owners \ {t}
         \/ \E t \in Owners, w \in Task \ Owners :
              count' = count /\ extra' = extra /\ Owners' = (Owners \ {t}) \cup {w}
         \/ /\ extra < MaxExtra /\ extra' = extra + 1
            /\ \/ count' = count + 1 /\ Owners' = Owners
               \/ \E w \in Task \ Owners : count' = count /\ Owners' = Owners \cup {w}
<1>1. Queued \cap Owners = {} /\ Queued \subseteq Task
  BY DEF SemInv, ListInv, Owners, SleepTypeOK
<1>2. CASE \E t \in Task : Promise!Acquire(t)
  BY <1>2 DEF Promise!Acquire, Owners
<1>3. CASE \E t \in Task : Promise!Wait(t) \/ Promise!GiveUp(t)
  BY <1>3 DEF Promise!Wait, Promise!GiveUp, Owners
<1>4. CASE \E t \in Task : Promise!Release(t)
  BY <1>4 DEF Promise!Release, Owners
<1>5. CASE \E t \in Task : Promise!Give(t)
  BY <1>1, <1>5 DEF Promise!Give, Owners
<1>6. CASE \E t, w \in Task : Promise!HandOver(t, w)
  BY <1>1, <1>6 DEF Promise!HandOver, Owners
<1>7. CASE Promise!Add
  BY <1>7 DEF Promise!Add, Owners
<1>8. QED
  BY <1>2, <1>3, <1>4, <1>5, <1>6, <1>7 DEF Promise!Next

\* No step loses or makes up a permit.
LEMMA PermitStep ==
  ASSUME IsFiniteSet(Task), PermitInv, [Next]_vars
  PROVE  PermitInv'
<1>1. SemInv /\ SemInv' /\ count \in Nat /\ extra \in Nat /\ extra <= MaxExtra
  BY Step DEF PermitInv, SemInv
<1>2. PICK o : o = Owners
  OBVIOUS
<1>3. PICK p : p = Owners'
  OBVIOUS
<1>4. o \subseteq Task /\ p \subseteq Task /\ IsFiniteSet(o) /\ Cardinality(o) \in Nat
  <2>1. o \subseteq Task /\ p \subseteq Task
    BY <1>1, <1>2, <1>3 DEF SemInv, UpInv, Owners
  <2>2. QED
    BY <2>1, FS_Subset, FS_CardinalityType
<1>5. count + Cardinality(o) = Permits + extra
  BY <1>2 DEF PermitInv, Conserved
<1>6. extra' <= MaxExtra /\ count' + Cardinality(p) = Permits + extra'
  <2> USE PermitsAssumption
  <2>1. ASSUME NEW t \in Task \ o PROVE Cardinality(o \cup {t}) = Cardinality(o) + 1
    BY <1>4, FS_AddElement, Zenon
  <2>2. ASSUME NEW t \in o
        PROVE  IsFiniteSet(o \ {t}) /\ Cardinality(o \ {t}) = Cardinality(o) - 1
    BY <1>4, FS_RemoveElement
  <2>3. ASSUME NEW t \in o, NEW w \in Task \ o
        PROVE  Cardinality((o \ {t}) \cup {w}) = Cardinality(o)
    <3>1. Cardinality((o \ {t}) \cup {w}) = Cardinality(o \ {t}) + 1
      BY <2>2, FS_AddElement
    <3>2. QED
      BY <1>4, <2>2, <3>1
  <2>4. PICK n \in Nat : n = Cardinality(o)
    BY <1>4
  <2>5. \/ count' = count /\ extra' = extra /\ p = o
        \/ \E t \in Task \ o : /\ count > 0 /\ count' = count - 1
                              /\ extra' = extra /\ p = o \cup {t}
        \/ \E t \in o : count' = count + 1 /\ extra' = extra /\ p = o \ {t}
        \/ \E t \in o, w \in Task \ o :
             count' = count /\ extra' = extra /\ p = (o \ {t}) \cup {w}
        \/ /\ extra < MaxExtra /\ extra' = extra + 1
           /\ \/ count' = count + 1 /\ p = o
              \/ \E w \in Task \ o : count' = count /\ p = o \cup {w}
    <3>1. Promise!Next \/ UNCHANGED <<count, Queued, Owners, extra>>
      BY <1>1, Step DEF Promise!vars, Owners
    <3>2. QED
      BY <1>1, <1>2, <1>3, <3>1, Moves
  <2>6. \/ count' = count /\ extra' = extra /\ Cardinality(p) = n
        \/ count' = count - 1 /\ extra' = extra /\ Cardinality(p) = n + 1
        \/ count' = count + 1 /\ extra' = extra /\ Cardinality(p) = n - 1
        \/ /\ extra < MaxExtra /\ extra' = extra + 1
           /\ \/ count' = count + 1 /\ Cardinality(p) = n
              \/ count' = count /\ Cardinality(p) = n + 1
    BY <2>1, <2>2, <2>3, <2>4, <2>5
  <2>7. QED
    BY <1>1, <1>5, <2>4, <2>6
<1>7. QED
  BY <1>1, <1>3, <1>6 DEF PermitInv, Conserved

\* Permits are conserved in every reachable state.
LEMMA PermitInvariant ==
  ASSUME IsFiniteSet(Task) PROVE Spec => []PermitInv
<1>1. Init => PermitInv
  <2> SUFFICES ASSUME Init PROVE PermitInv
    OBVIOUS
  <2>1. Owners = {}
    BY DEF Init, SleepInit, Owners
  <2>2. Conserved
    BY <2>1, FS_EmptySet, PermitsAssumption DEF Init, Conserved
  <2>3. QED
    BY <2>2, Start, PermitsAssumption DEF Init, PermitInv
<1>2. QED
  BY <1>1, PermitStep, PTL DEF Spec

\* However up(), signals, timeouts and wake-ups interleave, no permit is lost or made
\* up, and nobody waits while one is free (semaphore.c:58-62, 183-187, 223-233).
THEOREM PermitsKept ==
  ASSUME IsFiniteSet(Task)
  PROVE  Spec => [](Conserved /\ (Queued # {} => count = 0))
<1>1. PermitInv => Conserved /\ (Queued # {} => count = 0)
  BY ListFacts DEF PermitInv, SemInv, ListInv
<1>2. QED
  BY <1>1, PermitInvariant, PTL

\* The unsigned count never exceeds the permits there are, and the list holds a
\* waiter once, exactly until it is handed a permit or leaves (semaphore.c:58-59,
\* 183-184, 208-234, 256-262).
THEOREM SemaphoreTyped ==
  ASSUME IsFiniteSet(Task)
  PROVE  Spec => []TypeOK
<1>1. PermitInv => TypeOK
  <2> SUFFICES ASSUME PermitInv PROVE TypeOK
    OBVIOUS
  <2> USE DEF PermitInv, SemInv, ListInv, UpInv
  <2>1. IsFiniteSet(Owners)
    BY FS_Subset DEF Owners
  <2>2. PICK n \in Nat : n = Cardinality(Owners)
    BY <2>1, FS_CardinalityType
  <2>3. count \in 0 .. Permits + MaxExtra
    BY <2>2, PermitsAssumption DEF Conserved
  <2>4. \A i, j \in DOMAIN wait_list : wait_list[i] = wait_list[j] => i = j
    BY ListFacts DEF Distinct
  <2>5. QED
    BY <2>3, <2>4, PermitsAssumption DEF TypeOK
<1>2. QED
  BY <1>1, PermitInvariant, PTL
-----------------------------------------------------------------------------
(* The spinlock build of the rw_semaphore, RwsemSpinlock: it excludes      *)
(* writers, counts its holders right and keeps a writer at the head of its *)
(* list, for any number of tasks.                                          *)

VARIABLES activity, rw_list, rw_pc, granted, asleep

Spin == INSTANCE RwsemSpinlock WITH wait_list <- rw_list, pc <- rw_pc

RwWaiter == [task : Task, type : {"read", "write"}]

SpinPc == {"out", "readTest", "readSleep", "reading", "writeSleep", "writing"}

SpinType ==
  /\ activity \in Int
  /\ rw_list \in Seq(RwWaiter)
  /\ rw_pc \in [Task -> SpinPc]
  /\ granted \subseteq Task

\* A waiter in the list waits, and is not let in.
Standing(w, p, g) ==
  IF w.type = "read" THEN p[w.task] \in {"readTest", "readSleep"} /\ w.task \notin g
                     ELSE p[w.task] = "writeSleep"

\* The list holds tasks that wait, once each.
ListOK(q, p, g) ==
  /\ \A i \in 1 .. Len(q) : Standing(q[i], p, g)
  /\ \A i, j \in 1 .. Len(q) : q[i].task = q[j].task => i = j

\* A writer that waits is in the list.
Listed(q, p) == \A u \in Task : p[u] = "writeSleep" => \E i \in 1 .. Len(q) : q[i].task = u

\* A reader that was let in and does not know it yet waits for nothing else.
LetIn == \A t \in granted : rw_pc[t] \in {"readTest", "readSleep"}

Alone == \A t \in Spin!Writers : Spin!Writers = {t} /\ Spin!Readers = {}

SpinInv ==
  /\ SpinType /\ ListOK(rw_list, rw_pc, granted) /\ Listed(rw_list, rw_pc) /\ LetIn
  /\ Alone /\ Spin!Ledger /\ Spin!HeadIsWriter
-----------------------------------------------------------------------------
\* The instance brings its own name for the cardinality of a set.
LEMMA SameCardinality == ASSUME NEW S PROVE Spin!Cardinality(S) = Cardinality(S)
BY DEF Spin!Cardinality, Cardinality

\* The readers at the front of a list are a prefix of it, followed by a writer.
LEMMA Prefix ==
  ASSUME NEW q \in Seq(RwWaiter)
  PROVE  LET F == {i \in DOMAIN q : \A j \in 1 .. i : q[j].type = "read"} IN
         \E k \in 0 .. Len(q) :
            F = 1 .. k /\ Cardinality(F) = k /\ (k < Len(q) => q[k + 1].type = "write")
<1> DEFINE F == {i \in DOMAIN q : \A j \in 1 .. i : q[j].type = "read"}
           T == {i \in 1 .. Len(q) : q[i].type # "read"}
<1>11. Len(q) \in Nat /\ DOMAIN q = 1 .. Len(q)
  BY LenProperties
<1>12. \A i \in 1 .. Len(q) : q[i] \in RwWaiter
  BY ElementOfSeq
<1>0. /\ Len(q) \in Nat /\ DOMAIN q = 1 .. Len(q)
      /\ \A i \in 1 .. Len(q) : q[i].type \in {"read", "write"}
  BY <1>11, <1>12 DEF RwWaiter
<1>1. \E k \in 0 .. Len(q) : F = 1 .. k /\ (k < Len(q) => q[k + 1].type = "write")
  <2>1. CASE T = {}
    <3>1. F = 1 .. Len(q)
      BY <1>0, <2>1
    <3>2. QED
      BY <1>0, <3>1
  <2>2. CASE T # {}
    <3>1. T \subseteq Nat
      BY <1>0
    <3>2. PICK m \in T : \A y \in T : ~ (<<y, m>> \in OpToRel(<, Nat))
      BY <2>2, <3>1, NatLessThanWellFounded, WFMin, Zenon
    <3>3. \A y \in T : m <= y
      <4> SUFFICES ASSUME NEW y \in T, y < m PROVE FALSE
        BY <3>1
      <4>1. <<y, m>> \in OpToRel(<, Nat)
        BY <3>1 DEF OpToRel
      <4>2. QED
        BY <3>2, <4>1, Zenon
    <3>4. \A j \in 1 .. m - 1 : q[j].type = "read"
      BY <1>0, <3>1, <3>3
    <3>5. F = 1 .. m - 1
      BY <1>0, <3>4
    <3>6. m - 1 \in 0 .. Len(q) /\ q[(m - 1) + 1].type = "write"
      BY <1>0
    <3>7. QED
      BY <3>5, <3>6
  <2>3. QED
    BY <2>1, <2>2
<1>2. PICK k \in 0 .. Len(q) : F = 1 .. k /\ (k < Len(q) => q[k + 1].type = "write")
  BY <1>1
<1>3. Cardinality(1 .. k) = k
  <2>1. k \in Nat
    BY <1>0
  <2>2. QED
    BY <2>1, FS_Interval
<1>4. QED
  BY <1>2, <1>3, Zenon

\* A list made of some of the waiters of another one.
LEMMA ListMap ==
  ASSUME NEW q, NEW r, NEW p, NEW g, NEW p2, NEW g2,
         NEW h \in [1 .. Len(r) -> 1 .. Len(q)],
         \A i, j \in 1 .. Len(r) : h[i] = h[j] => i = j,
         \A i \in 1 .. Len(r) : r[i] = q[h[i]] /\ Standing(r[i], p2, g2),
         ListOK(q, p, g)
  PROVE  ListOK(r, p2, g2)
<1>1. ASSUME NEW i \in 1 .. Len(r), NEW j \in 1 .. Len(r), r[i].task = r[j].task
      PROVE  i = j
  <2>1. h[i] \in 1 .. Len(q) /\ h[j] \in 1 .. Len(q)
    OBVIOUS
  <2>2. q[h[i]].task = q[h[j]].task
    BY <1>1
  <2>3. h[i] = h[j]
    BY <2>1, <2>2 DEF ListOK
  <2>4. QED
    BY <2>3
<1>2. QED
  BY <1>1 DEF ListOK

\* Steps of one task that is not in the list, or stays in it as a reader.
LEMMA ListStays ==
  ASSUME SpinType, LetIn, NEW t \in Task, NEW l \in SpinPc, NEW g2 \in SUBSET granted,
         ListOK(rw_list, rw_pc, granted),
         \/ rw_pc[t] \in {"out", "reading", "writing"} \/ t \in granted
         \/ rw_pc[t] \in {"readTest", "readSleep"} /\ l \in {"readTest", "readSleep"}
         \/ l = rw_pc[t]
  PROVE  ListOK(rw_list, [rw_pc EXCEPT ![t] = l], g2)
<1>1. \A i \in 1 .. Len(rw_list) : rw_list[i] \in RwWaiter
  BY ElementOfSeq DEF SpinType
<1>2. ASSUME NEW i \in 1 .. Len(rw_list)
      PROVE  Standing(rw_list[i], [rw_pc EXCEPT ![t] = l], g2)
  <2> DEFINE w == rw_list[i]
  <2>1. w.task \in Task /\ Standing(w, rw_pc, granted) /\ rw_pc \in [Task -> SpinPc]
    BY <1>1 DEF ListOK, SpinType, RwWaiter
  <2>2. CASE w.task = t
    BY <2>1, <2>2 DEF Standing, LetIn
  <2>3. CASE w.task # t
    BY <2>1, <2>3 DEF Standing
  <2>4. QED
    BY <2>2, <2>3
<1>3. QED
  BY <1>2, Zenon DEF ListOK

\* A task that queues.
LEMMA ListAppend ==
  ASSUME SpinType, LetIn, NEW t \in Task, rw_pc[t] = "out",
         NEW type, NEW l,
         (type = "read" /\ l = "readTest") \/ (type = "write" /\ l = "writeSleep"),
         ListOK(rw_list, rw_pc, granted)
  PROVE  LET q == Append(rw_list, [task |-> t, type |-> type]) IN
         q \in Seq(RwWaiter) /\ ListOK(q, [rw_pc EXCEPT ![t] = l], granted)
<1> DEFINE w == [task |-> t, type |-> type]
           q == Append(rw_list, w)
           p == [rw_pc EXCEPT ![t] = l]
<1>1. w \in RwWaiter /\ rw_list \in Seq(RwWaiter) /\ w.task = t /\ w.type = type
  BY DEF RwWaiter, SpinType
<1>2. /\ q \in Seq(RwWaiter) /\ Len(q) = Len(rw_list) + 1
      /\ \A i \in 1 .. Len(rw_list) : q[i] = rw_list[i]
      /\ q[Len(rw_list) + 1] = w
  BY <1>1, AppendProperties
<1>3. Len(rw_list) \in Nat /\ \A i \in 1 .. Len(rw_list) : rw_list[i] \in RwWaiter
  BY <1>1, LenProperties, ElementOfSeq
<1>4. \A i \in 1 .. Len(rw_list) : rw_list[i].task # t /\ Standing(rw_list[i], p, granted)
  BY <1>3 DEF ListOK, Standing, SpinType, RwWaiter
<1>5. Standing(w, p, granted)
  BY <1>1 DEF Standing, LetIn, SpinType
<1>6. \A i \in 1 .. Len(q) : Standing(q[i], p, granted)
  <2> SUFFICES ASSUME NEW i \in 1 .. Len(q) PROVE Standing(q[i], p, granted)
    BY Zenon
  <2>1. CASE i = Len(rw_list) + 1
    BY <1>2, <1>5, <2>1
  <2>2. CASE i # Len(rw_list) + 1
    <3>1. i \in 1 .. Len(rw_list)
      BY <1>2, <1>3, <2>2
    <3>2. QED
      BY <1>2, <1>4, <3>1, Zenon
  <2>3. QED
    BY <2>1, <2>2
<1>7. \A i, j \in 1 .. Len(q) : q[i].task = q[j].task => i = j
  BY <1>1, <1>2, <1>3, <1>4 DEF ListOK
<1>8. QED
  BY <1>2, <1>6, <1>7, Zenon DEF ListOK

\* The waiter of a writer leaves the list.
LEMMA ListDelete ==
  ASSUME NEW q \in Seq(RwWaiter), NEW t \in Task, NEW p \in [Task -> SpinPc], NEW g,
         \E i \in DOMAIN q : q[i].task = t,
         ListOK(q, p, g)
  PROVE  /\ Spin!ListDel(q, t) \in Seq(RwWaiter)
         /\ ListOK(Spin!ListDel(q, t), [p EXCEPT ![t] = "writing"], g)
<1> DEFINE n == CHOOSE i \in DOMAIN q : q[i].task = t
           r == Spin!ListDel(q, t)
           h == [i \in 1 .. Len(q) - 1 |-> IF i < n THEN i ELSE i + 1]
           p2 == [p EXCEPT ![t] = "writing"]
<1>1. Len(q) \in Nat /\ DOMAIN q = 1 .. Len(q)
  BY LenProperties
<1>2. \A i \in 1 .. Len(q) : q[i] \in RwWaiter
  BY ElementOfSeq
<1>3. n \in 1 .. Len(q) /\ q[n].task = t
  BY <1>1
<1>4. r = [i \in 1 .. Len(q) - 1 |-> IF i < n THEN q[i] ELSE q[i + 1]]
  BY DEF Spin!ListDel
<1> HIDE DEF n
<1>5. Len(q) - 1 \in Nat
  BY <1>1, <1>3
<1>6. \A i \in 1 .. Len(q) - 1 : h[i] \in 1 .. Len(q) /\ h[i] # n /\ r[i] = q[h[i]]
  BY <1>1, <1>3, <1>4
<1>7. \A i, j \in 1 .. Len(q) - 1 : h[i] = h[j] => i = j
  BY <1>1, <1>3
<1>8. r \in [1 .. Len(q) - 1 -> RwWaiter]
  BY <1>1, <1>2, <1>3, <1>4
<1>9. r \in Seq(RwWaiter)
  BY <1>5, <1>8, SeqDef
<1>10. Len(r) = Len(q) - 1
  BY <1>5, <1>8, <1>9, LenProperties
<1>11. ASSUME NEW i \in 1 .. Len(r) PROVE Standing(r[i], p2, g)
  <2>1. h[i] \in 1 .. Len(q) /\ h[i] # n /\ r[i] = q[h[i]]
    BY <1>6, <1>10
  <2>2. Standing(q[h[i]], p, g) /\ q[h[i]].task # t /\ q[h[i]].task \in Task
    BY <1>2, <1>3, <2>1 DEF ListOK, RwWaiter
  <2>3. QED
    BY <2>1, <2>2 DEF Standing
<1>12. h \in [1 .. Len(r) -> 1 .. Len(q)]
  BY <1>6, <1>10
<1>13. ListOK(r, p2, g)
  <2> HIDE DEF h, r, p2
  <2>1. \A i, j \in 1 .. Len(r) : h[i] = h[j] => i = j
    BY <1>7, <1>10
  <2>2. \A i \in 1 .. Len(r) : r[i] = q[h[i]] /\ Standing(r[i], p2, g)
    BY <1>6, <1>10, <1>11
  <2>3. QED
    BY <1>12, <2>1, <2>2, ListMap
<1>14. QED
  BY <1>9, <1>13

\* What SubSeq() leaves of a list without its first k waiters.
LEMMA Suffix ==
  ASSUME NEW s \in Seq(RwWaiter), NEW k \in 0 .. Len(s)
  PROVE  LET q == SubSeq(s, k + 1, Len(s)) IN
         /\ q \in Seq(RwWaiter) /\ Len(q) = Len(s) - k
         /\ \A i \in 1 .. Len(s) - k : i + k \in 1 .. Len(s) /\ q[i] = s[i + k]
<1> DEFINE q == SubSeq(s, k + 1, Len(s))
<1>1. PICK n \in Nat : n = Len(s)
  BY LenProperties
<1>2. k \in Nat /\ k <= n /\ k + 1 \in Int /\ n \in Int
  BY <1>1
<1>3. \A i \in k + 1 .. n : s[i] \in RwWaiter
  BY <1>1, <1>2, ElementOfSeq
<1>4. /\ SubSeq(s, k + 1, n) \in Seq(RwWaiter)
      /\ Len(SubSeq(s, k + 1, n)) = IF k + 1 <= n THEN n - (k + 1) + 1 ELSE 0
      /\ \A i \in 1 .. n - (k + 1) + 1 : SubSeq(s, k + 1, n)[i] = s[(k + 1) + i - 1]
  BY <1>2, <1>3, SubSeqProperties
<1>5. \A m : m = (IF k + 1 <= n THEN n - (k + 1) + 1 ELSE 0) => m = n - k
  BY <1>2
<1>6. n - (k + 1) + 1 = n - k
  BY <1>2
<1>7. \A i \in 1 .. n - k : (k + 1) + i - 1 = i + k /\ i + k \in 1 .. n
  BY <1>2
<1>8. Len(SubSeq(s, k + 1, n)) = n - k
  BY <1>4, <1>5, Zenon
<1>9. \A i \in 1 .. n - k : SubSeq(s, k + 1, n)[i] = s[i + k]
  <2> SUFFICES ASSUME NEW i \in 1 .. n - k
               PROVE  SubSeq(s, k + 1, n)[i] = s[i + k]
    OBVIOUS
  <2>1. SubSeq(s, k + 1, n)[i] = s[(k + 1) + i - 1]
    BY <1>4, <1>6, Zenon
  <2>2. QED
    BY <1>7, <2>1, Zenon
<1>10. QED
  BY <1>1, <1>4, <1>7, <1>8, <1>9, Zenon

\* The k readers at the front of a list are let in.
LEMMA ListCut ==
  ASSUME SpinType, LetIn, ListOK(rw_list, rw_pc, granted),
         NEW t \in Task, rw_pc[t] = "writing", NEW l \in {"out", "reading"},
         NEW k \in 0 .. Len(rw_list),
         \A i \in 1 .. k : rw_list[i].type = "read",
         k < Len(rw_list) => rw_list[k + 1].type = "write"
  PROVE  LET out == {rw_list[i].task : i \in 1 .. k}
             q   == SubSeq(rw_list, k + 1, Len(rw_list)) IN
         /\ q \in Seq(RwWaiter)
         /\ ListOK(q, [rw_pc EXCEPT ![t] = l], granted \cup out)
         /\ q # <<>> => q[1].type = "write"
         /\ out \subseteq Task /\ t \notin out /\ out \cap granted = {}
         /\ \A u \in out : rw_pc[u] \in {"readTest", "readSleep"}
         /\ IsFiniteSet(out) /\ Cardinality(out) = k
<1> DEFINE out == {rw_list[i].task : i \in 1 .. k}
           p == [rw_pc EXCEPT ![t] = l]
<1>1. PICK n \in Nat : n = Len(rw_list)
  BY LenProperties DEF SpinType
<1>2. PICK q : q = SubSeq(rw_list, k + 1, Len(rw_list))
  BY Zenon
<1>21. k \in Nat
  BY <1>1
<1>3. k \in Nat /\ k <= n /\ n - k \in Nat /\ 1 .. k \subseteq 1 .. n
  BY <1>1
<1>4. /\ q \in Seq(RwWaiter) /\ Len(q) = n - k
      /\ \A i \in 1 .. n - k : i + k \in 1 .. n /\ q[i] = rw_list[i + k]
  BY <1>1, <1>2, Suffix DEF SpinType
<1>5. \A i \in 1 .. n : rw_list[i] \in RwWaiter
  BY <1>1, ElementOfSeq DEF SpinType
<1>6. ASSUME NEW i \in 1 .. k
      PROVE  LET u == rw_list[i].task IN
             /\ u \in Task /\ u \notin granted /\ u # t
             /\ rw_pc[u] \in {"readTest", "readSleep"}
  <2>1. i \in 1 .. n /\ rw_list[i].type = "read"
    BY <1>3
  <2>2. Standing(rw_list[i], rw_pc, granted)
    BY <1>1, <2>1 DEF ListOK
  <2>3. QED
    BY <1>5, <2>1, <2>2 DEF Standing, RwWaiter
<1>7. /\ out \subseteq Task /\ t \notin out /\ out \cap granted = {}
      /\ \A u \in out : rw_pc[u] \in {"readTest", "readSleep"}
  BY <1>6
<1>8. \A i, j \in 1 .. n : rw_list[i].task = rw_list[j].task => i = j
  BY <1>1 DEF ListOK
<1>9. IsFiniteSet(out) /\ Cardinality(out) = k
  <2> DEFINE f == [i \in 1 .. k |-> rw_list[i].task]
  <2>1. \A i, j \in 1 .. k : rw_list[i].task = rw_list[j].task => i = j
    BY <1>3, <1>8
  <2>2. f \in Bijection(1 .. k, out)
    BY <2>1 DEF Bijection, Injection, Surjection, IsInjective
  <2>3. ExistsBijection(1 .. k, out)
    BY <2>2 DEF ExistsBijection
  <2>4. IsFiniteSet(1 .. k) /\ Cardinality(1 .. k) = k
    <3> HIDE DEF out, p, f
    <3>1. QED
      BY <1>21, FS_Interval
  <2> HIDE DEF out
  <2>5. QED
    BY <2>3, <2>4, FS_Bijection
<1>10. ASSUME NEW i \in 1 .. n - k PROVE Standing(q[i], p, granted \cup out)
  <2>1. PICK w : w = rw_list[i + k]
    OBVIOUS
  <2>2. i + k \in 1 .. n /\ q[i] = w
    BY <1>4, <2>1
  <2>3. Standing(w, rw_pc, granted) /\ w \in RwWaiter
    BY <1>1, <1>5, <2>1, <2>2 DEF ListOK
  <2>4. w.task \in Task /\ w.task # t
    BY <2>3 DEF Standing, RwWaiter
  <2>5. w.task \notin out
    <3> SUFFICES ASSUME NEW j \in 1 .. k, rw_list[j].task = w.task PROVE FALSE
      OBVIOUS
    <3>1. j = i + k
      BY <1>3, <1>8, <2>1, <2>2
    <3>2. j # i + k
      <4> HIDE DEF p, out
      <4>1. QED
        BY <1>3
    <3>3. QED
      BY <3>1, <3>2
  <2>6. Standing(w, p, granted \cup out)
    BY <2>3, <2>4, <2>5 DEF Standing, SpinType
  <2>7. QED
    BY <2>2, <2>6
<1>11. ListOK(q, p, granted \cup out)
  <2> HIDE DEF out, p
  <2>1. ASSUME NEW i \in 1 .. n - k, NEW j \in 1 .. n - k, q[i].task = q[j].task
        PROVE  i = j
    <3>1. /\ i + k \in 1 .. n /\ q[i] = rw_list[i + k]
          /\ j + k \in 1 .. n /\ q[j] = rw_list[j + k]
      BY <1>4, Zenon
    <3>2. i + k = j + k
      BY <1>8, <2>1, <3>1, Zenon
    <3>3. QED
      BY <1>21, <1>3, <3>2
  <2>2. QED
    BY <1>4, <1>10, <2>1, Zenon DEF ListOK
<1>12. ASSUME q # <<>> PROVE q[1].type = "write"
  <2>1. n - k # 0
    BY <1>4, <1>12, EmptySeq
  <2>2. 1 \in 1 .. n - k /\ k < n /\ 1 + k = k + 1
    BY <1>3, <2>1
  <2>3. q[1] = rw_list[k + 1]
    BY <1>4, <2>2
  <2>4. QED
    BY <1>1, <2>2, <2>3
<1>13. QED
  BY <1>2, <1>4, <1>7, <1>9, <1>11, <1>12, Zenon

\* What __rwsem_do_wake() does to the list when it finds a reader first.
LEMMA ListWake ==
  ASSUME SpinType, LetIn, ListOK(rw_list, rw_pc, granted),
         NEW t \in Task, rw_pc[t] = "writing", NEW l \in {"out", "reading"}
  PROVE  LET out == {rw_list[i].task : i \in 1 .. Spin!Woken}
             q   == SubSeq(rw_list, Spin!Woken + 1, Len(rw_list)) IN
         /\ q \in Seq(RwWaiter)
         /\ ListOK(q, [rw_pc EXCEPT ![t] = l], granted \cup out)
         /\ q # <<>> => q[1].type = "write"
         /\ out \subseteq Task /\ t \notin out /\ out \cap granted = {}
         /\ \A u \in out : rw_pc[u] \in {"readTest", "readSleep"}
         /\ IsFiniteSet(out) /\ Cardinality(out) = Spin!Woken /\ Spin!Woken \in Nat
<1>1. rw_list \in Seq(RwWaiter) /\ Len(rw_list) \in Nat
  BY LenProperties DEF SpinType
<1>2. PICK k \in 0 .. Len(rw_list) :
         /\ Spin!FrontReaders = 1 .. k /\ Spin!Woken = k
         /\ k < Len(rw_list) => rw_list[k + 1].type = "write"
  BY <1>1, Prefix, SameCardinality DEF Spin!Woken, Spin!FrontReaders
<1>3. k \in Nat /\ \A i \in 1 .. k : i \in 1 .. i
  BY <1>1
<1>4. \A i \in 1 .. k : rw_list[i].type = "read"
  BY <1>2, <1>3 DEF Spin!FrontReaders
<1>5. Spin!Woken = k
  BY <1>2
<1>6. QED
  BY <1>2, <1>3, <1>4, <1>5, ListCut, Zenon

\* No waiting writer leaves the list in a step that makes no task wait to write.
LEMMA ListedStays ==
  ASSUME SpinType, Listed(rw_list, rw_pc), NEW t \in Task, NEW l, l # "writeSleep"
  PROVE  Listed(rw_list, [rw_pc EXCEPT ![t] = l])
BY DEF Listed, SpinType

LEMMA ListedAppend ==
  ASSUME SpinType, Listed(rw_list, rw_pc), NEW t \in Task, NEW l,
         NEW w \in RwWaiter, w.task = t
  PROVE  Listed(Append(rw_list, w), [rw_pc EXCEPT ![t] = l])
<1>1. PICK n \in Nat : n = Len(rw_list)
  BY LenProperties DEF SpinType
<1>2. PICK q : q = Append(rw_list, w)
  BY Zenon
<1>3. /\ Len(q) = n + 1 /\ q[n + 1] = w
      /\ \A i \in 1 .. n : q[i] = rw_list[i]
  BY <1>1, <1>2, AppendProperties DEF SpinType
<1>4. n + 1 \in 1 .. n + 1 /\ \A i \in 1 .. n : i \in 1 .. n + 1
  OBVIOUS
<1>5. ASSUME NEW u \in Task, [rw_pc EXCEPT ![t] = l][u] = "writeSleep"
      PROVE  \E i \in 1 .. n + 1 : q[i].task = u
  <2>1. CASE u = t
    BY <1>3, <1>4, <2>1
  <2>2. CASE u # t
    <3>1. PICK i \in 1 .. n : rw_list[i].task = u
      BY <1>1, <1>5, <2>2 DEF Listed, SpinType
    <3>2. QED
      BY <1>3, <1>4, <3>1
  <2>3. QED
    BY <2>1, <2>2
<1>6. QED
  BY <1>2, <1>3, <1>5 DEF Listed

LEMMA ListedDelete ==
  ASSUME NEW q \in Seq(RwWaiter), NEW t \in Task, NEW p \in [Task -> SpinPc],
         \E i \in DOMAIN q : q[i].task = t, Listed(q, p)
  PROVE  Listed(Spin!ListDel(q, t), [p EXCEPT ![t] = "writing"])
<1> DEFINE p2 == [p EXCEPT ![t] = "writing"]
<1>1. PICK n \in Nat : n = Len(q) /\ DOMAIN q = 1 .. n
  BY LenProperties
<1>2. PICK c : c = CHOOSE i \in DOMAIN q : q[i].task = t
  OBVIOUS
<1>3. c \in 1 .. n /\ q[c].task = t
  BY <1>1, <1>2
<1>4. PICK r : r = Spin!ListDel(q, t)
  OBVIOUS
<1>5. r = [i \in 1 .. n - 1 |-> IF i < c THEN q[i] ELSE q[i + 1]]
  BY <1>1, <1>2, <1>4 DEF Spin!ListDel
<1>6. n - 1 \in Nat
  BY <1>3
<1>7. Len(r) = n - 1
  BY <1>5, <1>6
<1>8. ASSUME NEW u \in Task, p2[u] = "writeSleep"
      PROVE  \E i \in 1 .. n - 1 : r[i].task = u
  <2>1. u # t /\ p[u] = "writeSleep"
    BY <1>8
  <2>2. PICK i \in 1 .. n : q[i].task = u
    BY <1>1, <2>1 DEF Listed
  <2>3. i # c
    BY <1>3, <2>1, <2>2
  <2>4. CASE i < c
    <3>1. i \in 1 .. n - 1 /\ r[i] = q[i]
      BY <1>3, <1>5, <2>4
    <3>2. QED
      BY <2>2, <3>1
  <2>5. CASE i > c
    <3>1. i - 1 \in 1 .. n - 1 /\ ~ (i - 1 < c) /\ (i - 1) + 1 = i
      BY <1>3, <2>5
    <3>2. r[i - 1] = q[i]
      BY <1>5, <3>1
    <3>3. QED
      BY <2>2, <3>1, <3>2
  <2>6. QED
    BY <1>3, <2>3, <2>4, <2>5
<1>9. QED
  BY <1>4, <1>7, <1>8 DEF Listed

LEMMA ListedCut ==
  ASSUME SpinType, Listed(rw_list, rw_pc), ListOK(rw_list, rw_pc, granted),
         NEW t \in Task, NEW l \in {"out", "reading"}
  PROVE  Listed(SubSeq(rw_list, Spin!Woken + 1, Len(rw_list)), [rw_pc EXCEPT ![t] = l])
<1> DEFINE p == [rw_pc EXCEPT ![t] = l]
<1>1. PICK n \in Nat : n = Len(rw_list) /\ rw_list \in Seq(RwWaiter)
  BY LenProperties DEF SpinType
<1>2. PICK k \in 0 .. n : Spin!FrontReaders = 1 .. k /\ Spin!Woken = k
  BY <1>1, Prefix, SameCardinality DEF Spin!Woken, Spin!FrontReaders
<1>3. PICK q : q = SubSeq(rw_list, k + 1, Len(rw_list))
  BY Zenon
<1>4. Len(q) = n - k /\ \A i \in 1 .. n - k : q[i] = rw_list[i + k]
  BY <1>1, <1>3, Suffix, Zenon
<1>5. \A i \in 1 .. k : rw_list[i].type = "read"
  <2>1. \A i \in 1 .. k : i \in 1 .. i
    OBVIOUS
  <2>2. QED
    BY <1>2, <2>1 DEF Spin!FrontReaders
<1>6. ASSUME NEW u \in Task, p[u] = "writeSleep"
      PROVE  \E i \in 1 .. n - k : q[i].task = u
  <2>1. rw_pc[u] = "writeSleep"
    BY <1>6 DEF SpinType
  <2>2. PICK i \in 1 .. n : rw_list[i].task = u
    BY <1>1, <2>1 DEF Listed
  <2>3. Standing(rw_list[i], rw_pc, granted)
    BY <1>1 DEF ListOK
  <2>4. rw_list[i].type # "read"
    BY <2>1, <2>2, <2>3 DEF Standing
  <2>5. i \notin 1 .. k
    BY <1>5, <2>4
  <2>6. i - k \in 1 .. n - k /\ (i - k) + k = i
    BY <2>5
  <2>7. q[i - k].task = u
    BY <1>4, <2>2, <2>6
  <2>8. QED
    BY <2>6, <2>7
<1>7. QED
  BY <1>2, <1>3, <1>4, <1>6 DEF Listed

-----------------------------------------------------------------------------
\* What the lock word says of the holders.
LEMMA Holders ==
  ASSUME IsFiniteSet(Task), SpinInv
  PROVE  /\ IsFiniteSet(Spin!Readers) /\ Cardinality(Spin!Readers) \in Nat
         /\ activity >= 0 => Spin!Writers = {} /\ activity = Cardinality(Spin!Readers)
         /\ activity = 0 => Spin!Readers = {}
         /\ \A t \in Spin!Readers : Spin!Writers = {} /\ activity = Cardinality(Spin!Readers)
<1>1. Spin!Readers \subseteq Task
  BY DEF SpinInv, SpinType, Spin!Readers
<1>2. IsFiniteSet(Spin!Readers)
  BY <1>1, FS_Subset
<1>3. Cardinality(Spin!Readers) \in Nat
  BY <1>2, FS_CardinalityType
<1>4. activity >= 0 => Spin!Writers = {} /\ activity = Cardinality(Spin!Readers)
  BY <1>3, SameCardinality DEF SpinInv, Spin!Ledger
<1>5. activity = 0 => Spin!Readers = {}
  BY <1>2, <1>4, FS_EmptySet
<1>6. \A t \in Spin!Readers : Spin!Writers = {} /\ activity = Cardinality(Spin!Readers)
  BY SameCardinality DEF SpinInv, Alone, Spin!Ledger
<1>7. QED
  BY <1>2, <1>3, <1>4, <1>5, <1>6

\* A task that waits, or stops waiting, without the lock changing hands.
LEMMA SameHolders ==
  ASSUME SpinInv, Spin!Readers' = Spin!Readers, Spin!Writers' = Spin!Writers, activity' = activity
  PROVE  Alone' /\ Spin!Ledger'
BY DEF SpinInv, Alone, Spin!Ledger

LEMMA DownReadOK ==
  ASSUME IsFiniteSet(Task), SpinInv, NEW t \in Task, Spin!DownRead(t) PROVE SpinInv'
<1> USE DEF SpinInv
<1>1. rw_pc[t] = "out" /\ t \notin granted
  BY DEF Spin!DownRead, LetIn
<1>2. CASE Spin!MayRead
  <2>1. /\ activity' = activity + 1 /\ rw_pc' = [rw_pc EXCEPT ![t] = "reading"]
        /\ rw_list' = rw_list /\ granted' = granted
    BY <1>2 DEF Spin!DownRead, Spin!Goto
  <2>2. SpinType'
    BY <2>1 DEF SpinType, SpinPc
  <2>3. ListOK(rw_list, rw_pc, granted)'
    <3>1. "reading" \in SpinPc /\ granted \in SUBSET granted
      BY DEF SpinPc
    <3>2. ListOK(rw_list, [rw_pc EXCEPT ![t] = "reading"], granted)
      BY <1>1, <3>1, ListStays
    <3>3. QED
      BY <2>1, <3>2
  <2>4. Listed(rw_list, rw_pc)'
    BY <2>1, ListedStays, Zenon
  <2>5. LetIn'
    BY <1>1, <2>1 DEF LetIn, SpinType
  <2>6. Spin!Readers' = Spin!Readers \cup {t} /\ t \notin Spin!Readers
    BY <1>1, <2>1 DEF Spin!Readers, SpinType
  <2>7. Spin!Writers' = {}
    BY <1>1, <1>2, <2>1, Holders DEF Spin!MayRead, Spin!Writers, SpinType
  <2>8. Cardinality(Spin!Readers') = Cardinality(Spin!Readers) + 1
    BY <2>6, Holders, FS_AddElement, Zenon
  <2>9. Alone' /\ Spin!Ledger'
    BY <1>2, <2>1, <2>7, <2>8, Holders, SameCardinality DEF Alone, Spin!Ledger, Spin!MayRead
  <2>10. Spin!HeadIsWriter'
    BY <1>2, <2>1 DEF Spin!HeadIsWriter, Spin!MayRead
  <2>11. QED
    BY <2>2, <2>3, <2>4, <2>5, <2>9, <2>10
<1>3. CASE ~ Spin!MayRead
  <2> DEFINE w == [task |-> t, type |-> "read"]
  <2>1. /\ activity' = activity /\ rw_pc' = [rw_pc EXCEPT ![t] = "readTest"]
        /\ rw_list' = Append(rw_list, w) /\ granted' = granted
    BY <1>3 DEF Spin!DownRead, Spin!Goto
  <2>2. w \in RwWaiter /\ w.task = t
    BY DEF RwWaiter
  <2>3. rw_list' \in Seq(RwWaiter) /\ ListOK(rw_list, rw_pc, granted)'
    BY <1>1, <2>1, ListAppend, Zenon
  <2>4. SpinType'
    BY <2>1, <2>3 DEF SpinType, SpinPc
  <2>5. Listed(rw_list, rw_pc)'
    BY <2>1, <2>2, ListedAppend, Zenon
  <2>6. LetIn'
    BY <1>1, <2>1 DEF LetIn, SpinType
  <2>7. Spin!Readers' = Spin!Readers /\ Spin!Writers' = Spin!Writers
    BY <1>1, <2>1 DEF Spin!Readers, Spin!Writers, SpinType
  <2>8. Alone' /\ Spin!Ledger'
    BY <2>1, <2>7, SameHolders
  <2>9. Spin!HeadIsWriter'
    <3> SUFFICES ASSUME activity >= 0 PROVE rw_list'[1].type = "write"
      BY <2>1 DEF Spin!HeadIsWriter
    <3>1. rw_list # <<>> /\ rw_list[1].type = "write"
      BY <1>3 DEF Spin!MayRead, Spin!HeadIsWriter
    <3>2. 1 \in 1 .. Len(rw_list)
      BY <3>1, EmptySeq, LenProperties DEF SpinType
    <3>3. rw_list'[1] = rw_list[1]
      BY <2>1, <2>2, <3>2, AppendProperties DEF SpinType
    <3>4. QED
      BY <3>1, <3>3
  <2>10. QED
    BY <2>3, <2>4, <2>5, <2>6, <2>8, <2>9
<1>4. QED
  BY <1>2, <1>3

LEMMA ReaderStepOK ==
  ASSUME IsFiniteSet(Task), SpinInv, NEW t \in Task, Spin!ReadTest(t) \/ Spin!ReadWoken(t)
  PROVE  SpinInv'
<1> USE DEF SpinInv
<1>1. PICK l \in {"reading", "readTest", "readSleep"} :
         /\ rw_pc' = [rw_pc EXCEPT ![t] = l] /\ rw_list' = rw_list /\ activity' = activity
         /\ granted' = IF l = "reading" THEN granted \ {t} ELSE granted
         /\ rw_pc[t] \in {"readTest", "readSleep"} /\ (l = "reading" => t \in granted)
  BY DEF Spin!ReadTest, Spin!ReadWoken, Spin!Goto
<1>2. SpinType'
  BY <1>1 DEF SpinType, SpinPc
<1>3. ListOK(rw_list, rw_pc, granted)'
  <2>1. l \in SpinPc /\ granted' \in SUBSET granted
    BY <1>1 DEF SpinPc
  <2>2. ListOK(rw_list, [rw_pc EXCEPT ![t] = l], granted')
    BY <1>1, <2>1, ListStays, Zenon
  <2>3. QED
    BY <1>1, <2>2
<1>4. Listed(rw_list, rw_pc)'
  BY <1>1, ListedStays, Zenon
<1>5. LetIn'
  BY <1>1 DEF LetIn, SpinType
<1>6. Spin!Readers' = Spin!Readers /\ Spin!Writers' = Spin!Writers
  BY <1>1 DEF Spin!Readers, Spin!Writers, SpinType
<1>7. Alone' /\ Spin!Ledger'
  BY <1>1, <1>6, SameHolders
<1>8. Spin!HeadIsWriter'
  BY <1>1 DEF Spin!HeadIsWriter
<1>9. QED
  BY <1>2, <1>3, <1>4, <1>5, <1>7, <1>8

\* A writer gets the lock: nobody held it, and the list that stays is q.
LEMMA TakeOK ==
  ASSUME IsFiniteSet(Task), SpinInv, NEW t \in Task, rw_pc[t] \in {"out", "writeSleep"},
         activity = 0, activity' = -1, rw_pc' = [rw_pc EXCEPT ![t] = "writing"],
         granted' = granted, rw_list' \in Seq(RwWaiter),
         ListOK(rw_list', rw_pc', granted'), Listed(rw_list', rw_pc')
  PROVE  SpinInv'
<1> USE DEF SpinInv
<1>1. SpinType'
  BY DEF SpinType, SpinPc
<1>2. t \notin granted
  BY DEF LetIn
<1>3. LetIn'
  BY <1>2 DEF LetIn, SpinType
<1>4. Spin!Readers = {} /\ Spin!Writers = {}
  BY Holders
<1>5. Spin!Readers' = {} /\ Spin!Writers' = {t}
  BY <1>4 DEF Spin!Readers, Spin!Writers, SpinType
<1>6. Alone' /\ Spin!Ledger'
  BY <1>5 DEF Alone, Spin!Ledger
<1>7. Spin!HeadIsWriter'
  BY DEF Spin!HeadIsWriter
<1>8. QED
  BY <1>1, <1>3, <1>6, <1>7

LEMMA DownWriteTrylockOK ==
  ASSUME IsFiniteSet(Task), SpinInv, NEW t \in Task, Spin!DownWriteTrylock(t) PROVE SpinInv'
<1> USE DEF SpinInv
<1>1. /\ rw_pc[t] = "out" /\ activity = 0 /\ activity' = -1
      /\ rw_pc' = [rw_pc EXCEPT ![t] = "writing"] /\ granted' = granted /\ rw_list' = rw_list
  BY DEF Spin!DownWriteTrylock, Spin!Goto
<1>2. rw_list' \in Seq(RwWaiter) /\ Listed(rw_list', rw_pc')
  BY <1>1, ListedStays, Zenon DEF SpinType
<1>3. ListOK(rw_list', rw_pc', granted')
  <2>1. "writing" \in SpinPc /\ granted \in SUBSET granted
    BY DEF SpinPc
  <2>2. ListOK(rw_list, [rw_pc EXCEPT ![t] = "writing"], granted)
    BY <1>1, <2>1, ListStays, Zenon
  <2>3. QED
    BY <1>1, <2>2
<1>4. QED
  BY <1>1, <1>2, <1>3, TakeOK, Zenon

\* __down_write() once its waiter is in list q.
LEMMA TakeOrSleepOK ==
  ASSUME IsFiniteSet(Task), SpinInv, NEW t \in Task, rw_pc[t] \in {"out", "writeSleep"},
         NEW q \in Seq(RwWaiter), ListOK(q, [rw_pc EXCEPT ![t] = "writeSleep"], granted),
         Listed(q, [rw_pc EXCEPT ![t] = "writeSleep"]),
         activity > 0 => q[1].type = "write",
         Spin!TakeOrSleep(t, q)
  PROVE  SpinInv'
<1> USE DEF SpinInv
<1> DEFINE p == [rw_pc EXCEPT ![t] = "writeSleep"]
<1>1. /\ p \in [Task -> SpinPc] /\ p[t] = "writeSleep"
      /\ [p EXCEPT ![t] = "writing"] = [rw_pc EXCEPT ![t] = "writing"]
  BY DEF SpinType, SpinPc
<1>2. CASE activity = 0
  <2>1. /\ activity' = -1 /\ rw_list' = Spin!ListDel(q, t) /\ granted' = granted
        /\ rw_pc' = [rw_pc EXCEPT ![t] = "writing"]
    BY <1>2 DEF Spin!TakeOrSleep, Spin!Goto
  <2>2. \E i \in DOMAIN q : q[i].task = t
    <3>1. DOMAIN q = 1 .. Len(q)
      BY LenProperties
    <3>2. QED
      BY <1>1, <3>1 DEF Listed
  <2> HIDE DEF p
  <2>3. /\ Spin!ListDel(q, t) \in Seq(RwWaiter)
        /\ ListOK(Spin!ListDel(q, t), [p EXCEPT ![t] = "writing"], granted)
    BY <1>1, <2>2, ListDelete DEF p
  <2>4. Listed(Spin!ListDel(q, t), [p EXCEPT ![t] = "writing"])
    BY <1>1, <2>2, ListedDelete DEF p
  <2>5. /\ rw_list' \in Seq(RwWaiter) /\ ListOK(rw_list', rw_pc', granted')
        /\ Listed(rw_list', rw_pc')
    BY <1>1, <2>1, <2>3, <2>4
  <2>6. QED
    BY <1>2, <2>1, <2>5, TakeOK, Zenon
<1>3. CASE activity # 0
  <2>1. activity' = activity /\ rw_list' = q /\ granted' = granted /\ rw_pc' = p
    BY <1>3 DEF Spin!TakeOrSleep, Spin!Goto
  <2>2. SpinType'
    BY <1>1, <2>1 DEF SpinType
  <2>3. t \notin granted
    BY DEF LetIn
  <2>4. LetIn'
    BY <2>1, <2>3 DEF LetIn, SpinType
  <2>5. Spin!Readers' = Spin!Readers /\ Spin!Writers' = Spin!Writers
    BY <2>1 DEF Spin!Readers, Spin!Writers, SpinType
  <2>6. Alone' /\ Spin!Ledger'
    BY <2>1, <2>5, SameHolders
  <2>7. Spin!HeadIsWriter'
    BY <1>3, <2>1 DEF Spin!HeadIsWriter, SpinType
  <2>8. QED
    BY <2>1, <2>2, <2>4, <2>6, <2>7
<1>4. QED
  BY <1>2, <1>3

LEMMA DownWriteOK ==
  ASSUME IsFiniteSet(Task), SpinInv, NEW t \in Task, Spin!DownWrite(t) PROVE SpinInv'
<1> USE DEF SpinInv
<1>1. PICK w : w = [task |-> t, type |-> "write"]
  BY Zenon
<1>2. PICK q : q = Append(rw_list, w)
  BY Zenon
<1>3. rw_pc[t] = "out" /\ Spin!TakeOrSleep(t, q) /\ w \in RwWaiter /\ w.task = t
  BY <1>1, <1>2 DEF Spin!DownWrite, RwWaiter
<1>4. q \in Seq(RwWaiter) /\ ListOK(q, [rw_pc EXCEPT ![t] = "writeSleep"], granted)
  BY <1>1, <1>2, <1>3, ListAppend, Zenon
<1>5. Listed(q, [rw_pc EXCEPT ![t] = "writeSleep"])
  BY <1>2, <1>3, ListedAppend
<1>6. ASSUME activity > 0 PROVE q[1].type = "write"
  <2>1. PICK n \in Nat : n = Len(rw_list)
    BY LenProperties DEF SpinType
  <2>2. q[n + 1] = w /\ \A i \in 1 .. n : q[i] = rw_list[i]
    BY <1>2, <1>3, <2>1, AppendProperties DEF SpinType
  <2>3. CASE n = 0
    BY <1>1, <2>2, <2>3
  <2>4. CASE n # 0
    <3>1. rw_list # <<>> /\ 1 \in 1 .. n
      BY <2>1, <2>4, EmptySeq
    <3>2. QED
      BY <1>6, <2>2, <3>1 DEF Spin!HeadIsWriter, SpinType
  <2>5. QED
    BY <2>3, <2>4
<1>7. QED
  BY <1>3, <1>4, <1>5, <1>6, TakeOrSleepOK, Zenon

LEMMA WriteWokenOK ==
  ASSUME IsFiniteSet(Task), SpinInv, NEW t \in Task, Spin!WriteWoken(t) PROVE SpinInv'
<1> USE DEF SpinInv
<1>1. rw_pc[t] = "writeSleep" /\ Spin!TakeOrSleep(t, rw_list)
  BY DEF Spin!WriteWoken
<1>2. [rw_pc EXCEPT ![t] = "writeSleep"] = rw_pc /\ rw_list \in Seq(RwWaiter)
  BY <1>1 DEF SpinType
<1>3. ASSUME activity > 0 PROVE rw_list[1].type = "write"
  <2>1. PICK i \in 1 .. Len(rw_list) : rw_list[i].task = t
    BY <1>1 DEF Listed
  <2>2. rw_list # <<>>
    BY <1>2, <2>1, EmptySeq
  <2>3. QED
    BY <1>3, <2>2 DEF Spin!HeadIsWriter, SpinType
<1>4. QED
  BY <1>1, <1>2, <1>3, TakeOrSleepOK

LEMMA UpReadOK ==
  ASSUME IsFiniteSet(Task), SpinInv, NEW t \in Task, Spin!UpRead(t) PROVE SpinInv'
<1> USE DEF SpinInv
<1>1. /\ rw_pc[t] = "reading" /\ activity' = activity - 1 /\ rw_pc' = [rw_pc EXCEPT ![t] = "out"]
      /\ rw_list' = rw_list /\ granted' = granted
  BY DEF Spin!UpRead, Spin!Goto
<1>2. SpinType'
  BY <1>1 DEF SpinType, SpinPc
<1>3. ListOK(rw_list, rw_pc, granted)'
  <2>1. "out" \in SpinPc /\ granted \in SUBSET granted
    BY DEF SpinPc
  <2>2. ListOK(rw_list, [rw_pc EXCEPT ![t] = "out"], granted)
    BY <1>1, <2>1, ListStays, Zenon
  <2>3. QED
    BY <1>1, <2>2
<1>4. Listed(rw_list, rw_pc)'
  BY <1>1, ListedStays, Zenon
<1>5. t \notin granted /\ t \in Spin!Readers
  BY <1>1 DEF LetIn, Spin!Readers
<1>6. LetIn'
  BY <1>1, <1>5 DEF LetIn, SpinType
<1>7. Spin!Readers' = Spin!Readers \ {t}
  BY <1>1, <1>5 DEF Spin!Readers, SpinType
<1>8. Spin!Writers' = {} /\ activity = Cardinality(Spin!Readers) /\ activity \in Nat
  <2>1. /\ Spin!Writers = {} /\ activity = Cardinality(Spin!Readers)
        /\ Cardinality(Spin!Readers) \in Nat
    BY <1>5, Holders
  <2>2. QED
    BY <1>1, <2>1 DEF Spin!Writers, SpinType
<1>9. Cardinality(Spin!Readers') = activity'
  BY <1>1, <1>5, <1>7, <1>8, Holders, FS_RemoveElement, Zenon
<1>10. Alone' /\ Spin!Ledger'
  BY <1>8, <1>9, SameCardinality DEF Alone, Spin!Ledger
<1>11. Spin!HeadIsWriter'
  BY <1>1, <1>8 DEF Spin!HeadIsWriter
<1>12. QED
  BY <1>2, <1>3, <1>4, <1>6, <1>10, <1>11

\* The writer lets go (l = "out", act = 0) or becomes a reader (l = "reading", act = 1).
LEMMA UnlockOK ==
  ASSUME IsFiniteSet(Task), SpinInv, NEW t \in Task, rw_pc[t] = "writing",
         NEW l, NEW act, NEW ww \in BOOLEAN,
         (l = "out" /\ act = 0) \/ (l = "reading" /\ act = 1),
         Spin!Unlock(act, ww), rw_pc' = [rw_pc EXCEPT ![t] = l]
  PROVE  SpinInv'
<1> USE DEF SpinInv
<1>1. Spin!Readers = {} /\ Spin!Writers = {t}
  BY DEF Alone, Spin!Writers
<1>2. granted = {} /\ l \in {"out", "reading"} /\ l \in SpinPc /\ act \in Nat
  BY <1>1 DEF Spin!Readers, SpinPc
<1>3. Spin!Writers' = {}
  BY <1>1, <1>2 DEF Spin!Writers, SpinType
<1>4. PICK own \in SUBSET {t} :
        /\ {u \in Task : rw_pc'[u] = "reading"} = own
        /\ IsFiniteSet(own) /\ Cardinality(own) = act
  <2>1. CASE l = "out"
    <3>1. {u \in Task : rw_pc'[u] = "reading"} = {}
      BY <1>1, <2>1 DEF Spin!Readers, SpinType
    <3>2. QED
      BY <2>1, <3>1, FS_EmptySet
  <2>2. CASE l = "reading"
    <3>1. {u \in Task : rw_pc'[u] = "reading"} = {t}
      BY <1>1, <2>2 DEF Spin!Readers, SpinType
    <3>2. IsFiniteSet({t}) /\ Cardinality({t}) = 1
      BY FS_Singleton, Zenon
    <3>3. QED
      BY <2>2, <3>1, <3>2
  <2>3. QED
    BY <1>2, <2>1, <2>2
<1>5. CASE rw_list = <<>> \/ rw_list[1].type = "write"
  <2>1. activity' = act /\ rw_list' = rw_list /\ granted' = granted
    BY <1>5 DEF Spin!Unlock, Spin!DoWake
  <2>2. SpinType'
    BY <1>2, <2>1 DEF SpinType
  <2>3. ListOK(rw_list, rw_pc, granted)'
    <3>1. granted \in SUBSET granted
      OBVIOUS
    <3>2. ListOK(rw_list, [rw_pc EXCEPT ![t] = l], granted)
      BY <1>2, <3>1, ListStays, Zenon
    <3>3. QED
      BY <2>1, <3>2
  <2>4. Listed(rw_list, rw_pc)'
    BY <1>2, <2>1, ListedStays, Zenon
  <2>5. LetIn' /\ Spin!HeadIsWriter'
    BY <1>2, <1>5, <2>1 DEF LetIn, Spin!HeadIsWriter
  <2>6. Spin!Readers' = own
    BY <1>2, <1>4, <2>1 DEF Spin!Readers
  <2>7. Alone' /\ Spin!Ledger'
    BY <1>3, <1>4, <2>1, <2>6, SameCardinality DEF Alone, Spin!Ledger
  <2>8. QED
    BY <2>2, <2>3, <2>4, <2>5, <2>7
<1>6. CASE ~ (rw_list = <<>> \/ rw_list[1].type = "write")
  <2>1. PICK out : out = {rw_list[i].task : i \in 1 .. Spin!Woken}
    BY Zenon
  <2>2. /\ activity' = act + Spin!Woken /\ granted' = granted \cup out
        /\ rw_list' = SubSeq(rw_list, Spin!Woken + 1, Len(rw_list))
    BY <1>6, <2>1 DEF Spin!Unlock, Spin!DoWake
  <2>3. /\ rw_list' \in Seq(RwWaiter)
        /\ ListOK(rw_list', rw_pc', granted')
        /\ rw_list' # <<>> => rw_list'[1].type = "write"
        /\ out \subseteq Task /\ t \notin out
        /\ \A u \in out : rw_pc[u] \in {"readTest", "readSleep"}
        /\ IsFiniteSet(out) /\ Cardinality(out) = Spin!Woken /\ Spin!Woken \in Nat
    BY <1>2, <2>1, <2>2, ListWake, Zenon
  <2>4. Listed(rw_list, rw_pc)'
    BY <1>2, <2>2, ListedCut, Zenon
  <2>5. SpinType'
    BY <1>2, <2>2, <2>3 DEF SpinType
  <2>6. LetIn' /\ Spin!HeadIsWriter'
    BY <1>2, <2>2, <2>3 DEF LetIn, Spin!HeadIsWriter, SpinType
  <2>7. Spin!Readers' = own \cup out /\ own \cap out = {}
    BY <1>2, <1>4, <2>2, <2>3 DEF Spin!Readers
  <2>8. Cardinality(own \cup out) = Cardinality(own) + Cardinality(out) - Cardinality(own \cap out)
    BY <1>4, <2>3, FS_Union
  <2>9. Cardinality(own \cap out) = 0
    BY <2>7, FS_EmptySet
  <2>10. Cardinality(Spin!Readers') = act + Spin!Woken
    BY <1>2, <1>4, <2>3, <2>7, <2>8, <2>9
  <2>11. Alone' /\ Spin!Ledger'
    BY <1>3, <2>2, <2>10, SameCardinality DEF Alone, Spin!Ledger
  <2>12. QED
    BY <2>3, <2>4, <2>5, <2>6, <2>11
<1>7. QED
  BY <1>5, <1>6

\* The steps of __rwsem_do_wake() and of the five lock operations keep the
\* invariant.
LEMMA NextOK == ASSUME IsFiniteSet(Task), SpinInv, [Spin!Next]_Spin!vars PROVE SpinInv'
<1>1. CASE UNCHANGED Spin!vars
  BY <1>1 DEF Spin!vars, SpinInv, SpinType, LetIn, Alone, Spin!Ledger, Spin!HeadIsWriter,
              Spin!Readers, Spin!Writers
<1>2. ASSUME NEW t \in Task, Spin!DownRead(t) PROVE SpinInv'
  BY <1>2, DownReadOK
<1>3. ASSUME NEW t \in Task, Spin!DownWriteTrylock(t) PROVE SpinInv'
  BY <1>3, DownWriteTrylockOK
<1>4. ASSUME NEW t \in Task, Spin!DownWrite(t) PROVE SpinInv'
  BY <1>4, DownWriteOK
<1>5. ASSUME NEW t \in Task, Spin!Step(t) PROVE SpinInv'
  BY <1>5, ReaderStepOK, WriteWokenOK DEF Spin!Step
<1>6. ASSUME NEW t \in Task, Spin!UpRead(t) PROVE SpinInv'
  BY <1>6, UpReadOK
<1>7. ASSUME NEW t \in Task, Spin!UpWrite(t) PROVE SpinInv'
  <2>1. rw_pc[t] = "writing" /\ Spin!Unlock(0, TRUE) /\ rw_pc' = [rw_pc EXCEPT ![t] = "out"]
    BY <1>7, Zenon DEF Spin!UpWrite, Spin!Goto
  <2>2. QED
    BY <2>1, UnlockOK, Zenon
<1>8. ASSUME NEW t \in Task, Spin!DowngradeWrite(t) PROVE SpinInv'
  <2>1. rw_pc[t] = "writing" /\ Spin!Unlock(1, FALSE) /\ rw_pc' = [rw_pc EXCEPT ![t] = "reading"]
    BY <1>8, Zenon DEF Spin!DowngradeWrite, Spin!Goto
  <2>2. QED
    BY <2>1, UnlockOK, Zenon
<1>9. ASSUME NEW t \in Task, Spin!SpuriousWake(t) PROVE SpinInv'
  BY <1>9
     DEF Spin!SpuriousWake, SpinInv, SpinType, LetIn, Alone, Spin!Ledger, Spin!HeadIsWriter,
         Spin!Readers, Spin!Writers
<1>10. QED
  BY <1>1, <1>2, <1>3, <1>4, <1>5, <1>6, <1>7, <1>8, <1>9 DEF Spin!Next, Spin!Release

\* However many tasks use the lock: activity counts the readers (the ones that
\* __rwsem_do_wake() let in and that do not know it yet included) or is -1 for the
\* writer, a writer holds the lock alone, and the head of the list of a lock no
\* writer holds is a writer, so that __up_read() may hand the lock to it unseen.
THEOREM SpinlockSafe ==
  ASSUME IsFiniteSet(Task)
  PROVE  Spin!Spec => [](Spin!Ledger /\ Alone /\ Spin!HeadIsWriter)
<1>1. Spin!Init => SpinInv
  <2> SUFFICES ASSUME Spin!Init PROVE SpinInv
    OBVIOUS
  <2> USE DEF Spin!Init
  <2>1. SpinType
    <3>1. <<>> \in Seq(RwWaiter)
      BY EmptySeq
    <3>2. QED
      BY <3>1 DEF SpinType, SpinPc
  <2>2. Len(rw_list) = 0
    BY EmptySeq
  <2>3. ListOK(rw_list, rw_pc, granted) /\ Listed(rw_list, rw_pc) /\ LetIn /\ Spin!HeadIsWriter
    BY <2>2 DEF ListOK, Listed, LetIn, Spin!HeadIsWriter
  <2>4. Spin!Readers = {} /\ Spin!Writers = {}
    BY DEF Spin!Readers, Spin!Writers
  <2>5. Alone /\ Spin!Ledger
    BY <2>4, FS_EmptySet, SameCardinality DEF Alone, Spin!Ledger
  <2>6. QED
    BY <2>1, <2>3, <2>5 DEF SpinInv
<1>2. SpinInv /\ [Spin!Next]_Spin!vars => SpinInv'
  BY NextOK
<1>3. SpinInv => Spin!Ledger /\ Alone /\ Spin!HeadIsWriter
  BY DEF SpinInv
<1>4. QED
  BY <1>1, <1>2, <1>3, PTL DEF Spin!Spec
=============================================================================
