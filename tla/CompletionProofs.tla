-------------------------- MODULE CompletionProofs --------------------------
(***************************************************************************)
(* The ledger and the queue of a completion, for any number of tasks and   *)
(* any width of the counter.                                               *)
(***************************************************************************)
EXTENDS Completion, Integers, SequenceTheorems, FiniteSetTheorems,
        NaturalsInduction, WellFoundedInduction, TLAPS

Half  == UintMax \div 2
Given == posted + alls * Half

CountInv ==
  /\ done \in 0 .. UintMax /\ posted \in Nat /\ alls \in Nat /\ taken \in Nat
  /\ Given <= UintMax => done + taken = Given

\* What complete_all() adds is at most half of the range, and its products are
\* numbers.
LEMMA HalfNat == /\ Half \in Nat
                 /\ \A n \in Nat : n * Half \in Nat /\ (n + 1) * Half = n * Half + Half
<1>1. Half \in Nat
  BY CompletionAssumption DEF Half
<1> HIDE DEF Half
<1>2. QED
  BY <1>1

\* A counter that grows by n wraps only when more than its range was given.
LEMMA Grow ==
  ASSUME CountInv, NEW n \in Nat, NEW g \in Nat, g = Given + n, g <= UintMax
  PROVE  ((done + n) % (UintMax + 1)) + taken = g
<1>1. PICK a \in Nat : a = alls * Half
  BY HalfNat DEF CountInv
<1>2. PICK d \in Nat : d = done + n
  BY CompletionAssumption DEF CountInv
<1>3. Given \in Nat /\ Given <= UintMax /\ UintMax \in Nat
  BY <1>1, CompletionAssumption DEF CountInv, Given
<1> HIDE DEF Given
<1>4. d + taken = g
  BY <1>2, <1>3 DEF CountInv
<1>5. d < UintMax + 1
  BY <1>3, <1>4 DEF CountInv
<1>6. d % (UintMax + 1) = d
  BY <1>3, <1>5
<1>7. QED
  BY <1>2, <1>4, <1>6

\* The counter stays in its range whatever is added to it.
LEMMA InRange == ASSUME NEW n \in Nat PROVE n % (UintMax + 1) \in 0 .. UintMax
<1>1. PICK m \in Nat : m = UintMax + 1 /\ m > 0
  BY CompletionAssumption
<1>2. n % m \in 0 .. m - 1
  BY <1>1
<1>3. QED
  BY <1>1, <1>2, CompletionAssumption

\* x->done--
LEMMA TakeOK == ASSUME CountInv, Take PROVE CountInv'
<1>1. /\ done > 0 /\ done' = done - 1 /\ taken' = taken + 1
      /\ posted' = posted /\ alls' = alls
  BY DEF Take
<1>2. Given' = Given
  BY <1>1 DEF Given
<1>3. Given \in Nat
  BY HalfNat DEF Given, CountInv
<1> HIDE DEF Given
<1>4. QED
  BY <1>1, <1>2, <1>3, CompletionAssumption DEF CountInv

LEMMA CompleteOK == ASSUME CountInv, Complete PROVE CountInv'
<1>1. /\ done' = (done + 1) % (UintMax + 1) /\ posted' = posted + 1
      /\ taken' = taken /\ alls' = alls
  BY DEF Complete
<1>2. PICK a \in Nat : a = alls * Half
  BY HalfNat DEF CountInv
<1>3. Given' = Given + 1 /\ Given' \in Nat
  BY <1>1, <1>2 DEF Given, CountInv
<1>4. done' \in 0 .. UintMax
  BY <1>1, InRange, CompletionAssumption DEF CountInv
<1>5. ASSUME Given' <= UintMax PROVE done' + taken' = Given'
  BY <1>1, <1>3, <1>5, Grow
<1>6. QED
  BY <1>1, <1>4, <1>5 DEF CountInv

LEMMA CompleteAllOK == ASSUME CountInv, CompleteAll PROVE CountInv'
<1>1. /\ done' = (done + Half) % (UintMax + 1) /\ posted' = posted
      /\ taken' = taken /\ alls' = alls + 1
  BY DEF CompleteAll, Half
<1>2. PICK a \in Nat : a = alls * Half /\ (alls + 1) * Half = a + Half
  BY HalfNat DEF CountInv
<1>3. Given' = posted + (a + Half) /\ Given = posted + a
  BY <1>1, <1>2 DEF Given, Half
<1>4. Given' = Given + Half /\ Given' \in Nat /\ Half \in Nat
  BY <1>3, HalfNat DEF CountInv
<1>5. done + Half \in Nat
  BY <1>4, CompletionAssumption DEF CountInv
<1>6. done' \in 0 .. UintMax
  BY <1>1, <1>5, InRange
<1>7. ASSUME Given' <= UintMax PROVE done' + taken' = Given'
  BY <1>1, <1>4, <1>7, Grow
<1>8. QED
  BY <1>1, <1>6, <1>7 DEF CountInv

\* Steps that leave the ledger alone.
LEMMA StaysOK ==
  ASSUME CountInv, UNCHANGED <<done, posted, alls, taken>> PROVE CountInv'
BY DEF CountInv, Given

LEMMA CountStep == CountInv /\ [Next]_vars => CountInv'
<1> SUFFICES ASSUME CountInv, [Next]_vars PROVE CountInv'
  OBVIOUS
<1>1. ASSUME NEW t \in Task, WaitFast(t) \/ Completed(t) PROVE CountInv'
  BY <1>1, TakeOK DEF WaitFast, Completed
<1>2. ASSUME NEW t \in Task, Waiter(t) PROVE CountInv'
  BY <1>1, <1>2, StaysOK DEF Waiter, GiveUp, SleepAgain, x
<1>3. ASSUME NEW t \in Task, NEW k \in Kinds, WaitSlow(t, k) PROVE CountInv'
  BY <1>3, StaysOK DEF WaitSlow
<1>4. CASE Complete \/ CompleteAll
  BY <1>4, CompleteOK, CompleteAllOK
<1>5. CASE UNCHANGED x
  BY <1>5, StaysOK DEF x
<1>6. CASE UNCHANGED vars
  BY <1>6, <1>5 DEF vars
<1>7. QED
  BY <1>1, <1>2, <1>3, <1>4, <1>5, <1>6 DEF Next

\* For every number of tasks, every width of the counter and every number of calls:
\* until more completions were given than the counter can hold, those that are left
\* and those that were taken are exactly the ones that were given
\* (completion.c:34, 54, 77-82).
LEMMA CompletionsCounted == Spec => []CountInv
<1>1. Init => CountInv
  <2> SUFFICES ASSUME Init PROVE CountInv
    OBVIOUS
  <2>1. Given = 0
    BY HalfNat DEF Init, Given
  <2>2. QED
    BY <2>1, CompletionAssumption DEF Init, CountInv
<1>2. QED
  BY <1>1, CountStep, PTL DEF Spec
-----------------------------------------------------------------------------
(* The queue.                                                              *)

Distinct(q) == \A i, j \in 1 .. Len(q) : q[i] = q[j] => i = j

Waiting == {t \in Task : pc[t] # "out"}
Awake   == {t \in Task : pc[t] # "out" /\ state[t] = "RUNNING"}

\* The queue holds the waiting tasks, once each; a task that is back from
\* schedule_timeout() is awake.
QueueInv ==
  /\ SleepTypeOK /\ pc \in [Task -> {"out", "sched", "relock"}]
  /\ wait \in Seq(Task) /\ Distinct(wait)
  /\ Queued = Waiting /\ Len(wait) = Cardinality(Waiting)
  /\ \A t \in Task : pc[t] = "relock" => state[t] = "RUNNING"
  /\ done \in 0 .. UintMax
  /\ posted \in 0 .. MaxPosted /\ alls \in 0 .. MaxAll /\ taken \in Nat
  /\ owed \subseteq Task

AwakeInv == QueueInv /\ (Cardinality(Awake) >= done \/ Awake = Waiting)

\* The list and the set of those in it.
LEMMA ListFacts ==
  ASSUME wait \in Seq(Task)
  PROVE  /\ Len(wait) \in Nat /\ DOMAIN wait = 1 .. Len(wait)
         /\ Queued \subseteq Task
         /\ wait = <<>> <=> Queued = {}
         /\ wait # <<>> => /\ 1 \in DOMAIN wait /\ Head(wait) = wait[1]
                                /\ Head(wait) \in Queued
<1>1. Len(wait) \in Nat /\ DOMAIN wait = 1 .. Len(wait)
  BY LenProperties
<1>2. Queued \subseteq Task
  BY <1>1, ElementOfSeq DEF Queued
<1>3. wait = <<>> => Queued = {}
  BY EmptySeq DEF Queued
<1>4. ASSUME wait # <<>>
      PROVE  1 \in DOMAIN wait /\ Head(wait) = wait[1]
  <2>1. Len(wait) # 0
    BY <1>4, EmptySeq
  <2>2. 1 \in DOMAIN wait
    BY <1>1, <2>1
  <2>3. QED
    BY <1>4, <2>2, HeadTailProperties
<1>5. wait # <<>> => Head(wait) \in Queued
  BY <1>4 DEF Queued
<1>6. QED
  BY <1>1, <1>2, <1>3, <1>4, <1>5

\* __remove_wait_queue()
LEMMA Deleted ==
  ASSUME wait \in Seq(Task), Distinct(wait), NEW t \in Queued,
         wait' = Without(t)
  PROVE  /\ wait' \in Seq(Task) /\ Distinct(wait)' /\ Queued' = Queued \ {t}
         /\ Len(wait)' = Len(wait) - 1
<1>1. PICK n \in Nat : n = Len(wait) /\ DOMAIN wait = 1 .. n
  BY LenProperties
<1>2. PICK c : c = CHOOSE i \in DOMAIN wait : wait[i] = t
  OBVIOUS
<1>3. c \in 1 .. n /\ wait[c] = t
  BY <1>1, <1>2 DEF Queued
<1>4. PICK q : q = wait'
  OBVIOUS
<1>5. q = [i \in 1 .. n - 1 |-> IF i < c THEN wait[i] ELSE wait[i + 1]]
  BY <1>1, <1>2, <1>4 DEF Without
<1>6. \A i \in 1 .. n : wait[i] \in Task
  BY <1>1, ElementOfSeq
<1>7. n - 1 \in Nat /\ q \in [1 .. n - 1 -> Task]
  BY <1>3, <1>5, <1>6
<1>8. q \in Seq(Task) /\ Len(q) = n - 1 /\ DOMAIN q = 1 .. n - 1
  <2>1. q \in Seq(Task)
    BY <1>7, SeqDef
  <2>2. QED
    BY <1>7, <2>1, LenProperties
<1>9. \A i, j \in 1 .. n : wait[i] = wait[j] => i = j
  BY <1>1 DEF Distinct
<1>10. PICK h : h = [i \in 1 .. n - 1 |-> IF i < c THEN i ELSE i + 1]
  OBVIOUS
<1>11. \A i \in 1 .. n - 1 : h[i] \in 1 .. n /\ h[i] # c /\ q[i] = wait[h[i]]
  BY <1>3, <1>5, <1>10
<1>12. \A i, j \in 1 .. n - 1 : h[i] = h[j] => i = j
  BY <1>3, <1>10
<1>13. Distinct(q)
  <2> SUFFICES ASSUME NEW i \in 1 .. n - 1, NEW j \in 1 .. n - 1, q[i] = q[j] PROVE i = j
    BY <1>8 DEF Distinct
  <2>1. h[i] = h[j]
    BY <1>9, <1>11
  <2>2. QED
    BY <1>12, <2>1
<1>14. ASSUME NEW u PROVE u \in {q[i] : i \in DOMAIN q} <=> u \in Queued \ {t}
  <2>1. ASSUME NEW i \in 1 .. n - 1 PROVE q[i] \in Queued \ {t}
    <3>1. h[i] \in 1 .. n /\ h[i] # c /\ q[i] = wait[h[i]]
      BY <1>11
    <3>2. wait[h[i]] # t
      BY <1>3, <1>9, <3>1
    <3>3. wait[h[i]] \in Queued
      BY <1>1, <3>1 DEF Queued
    <3>4. QED
      BY <3>1, <3>2, <3>3
  <2>2. ASSUME NEW k \in 1 .. n, wait[k] # t
        PROVE  \E i \in 1 .. n - 1 : q[i] = wait[k]
    <3>1. k # c
      BY <1>3, <2>2
    <3>2. CASE k < c
      <4>1. k \in 1 .. n - 1 /\ q[k] = wait[k]
        BY <1>3, <1>5, <3>2
      <4>2. QED
        BY <4>1
    <3>3. CASE k > c
      <4>1. k - 1 \in 1 .. n - 1 /\ ~ (k - 1 < c) /\ (k - 1) + 1 = k
        BY <1>3, <3>3
      <4>2. q[k - 1] = wait[k]
        BY <1>5, <4>1
      <4>3. QED
        BY <4>1, <4>2
    <3>4. QED
      BY <1>3, <3>1, <3>2, <3>3
  <2>3. ASSUME u \in {q[i] : i \in DOMAIN q} PROVE u \in Queued \ {t}
    <3>1. PICK i \in 1 .. n - 1 : u = q[i]
      BY <1>8, <2>3
    <3>2. QED
      BY <2>1, <3>1
  <2>4. ASSUME u \in Queued, u # t PROVE u \in {q[i] : i \in DOMAIN q}
    <3>1. PICK k \in 1 .. n : u = wait[k]
      BY <1>1, <2>4 DEF Queued
    <3>2. PICK i \in 1 .. n - 1 : q[i] = u
      BY <2>2, <2>4, <3>1
    <3>3. QED
      BY <1>8, <3>2
  <2>5. QED
    BY <2>3, <2>4
<1>15. {q[i] : i \in DOMAIN q} = Queued \ {t}
  BY <1>14
<1>16. wait' \in Seq(Task)
  BY <1>4, <1>8
<1>17. Distinct(wait)'
  BY <1>4, <1>13 DEF Distinct
<1>18. Queued' = {q[i] : i \in DOMAIN q}
  BY <1>4 DEF Queued
<1>19. Len(wait)' = Len(wait) - 1
  BY <1>1, <1>4, <1>8
<1>20. QED
  BY <1>15, <1>16, <1>17, <1>18, <1>19

\* __add_wait_queue_tail_exclusive()
LEMMA Appended ==
  ASSUME wait \in Seq(Task), Distinct(wait), NEW t \in Task, t \notin Queued,
         wait' = Append(wait, t)
  PROVE  /\ wait' \in Seq(Task) /\ Distinct(wait)' /\ Queued' = Queued \cup {t}
         /\ Len(wait)' = Len(wait) + 1
<1>1. PICK n \in Nat : n = Len(wait) /\ DOMAIN wait = 1 .. n
  BY LenProperties
<1>2. PICK q : q = wait'
  OBVIOUS
<1>3. /\ q \in Seq(Task) /\ Len(q) = n + 1 /\ q[n + 1] = t
      /\ \A i \in 1 .. n : q[i] = wait[i]
  BY <1>1, <1>2, AppendProperties
<1>4. DOMAIN q = 1 .. n + 1
  BY <1>3, LenProperties
<1>5. 1 .. n + 1 = 1 .. n \cup {n + 1} /\ n + 1 \notin 1 .. n
  OBVIOUS
<1>6. \A i \in 1 .. n : q[i] # t
  BY <1>1, <1>3 DEF Queued
<1>7. \A i, j \in 1 .. n : q[i] = q[j] => i = j
  BY <1>1, <1>3 DEF Distinct
<1>8. \A i, j \in 1 .. n \cup {n + 1} : q[i] = q[j] => i = j
  BY <1>3, <1>6, <1>7
<1>9. Distinct(q)
  BY <1>3, <1>5, <1>8 DEF Distinct
<1>10. {q[i] : i \in DOMAIN q} = Queued \cup {t}
  BY <1>1, <1>3, <1>4, <1>5 DEF Queued
<1>11. Len(wait)' = Len(wait) + 1
  BY <1>1, <1>2, <1>3
<1>12. QED
  BY <1>2, <1>3, <1>9, <1>10, <1>11 DEF Distinct, Queued
-----------------------------------------------------------------------------
\* The counter and the ledger stay in their ranges.
LEMMA TakeTyped ==
  ASSUME QueueInv, Take
  PROVE  /\ done' \in 0 .. UintMax /\ taken' \in Nat
         /\ posted' \in 0 .. MaxPosted /\ alls' \in 0 .. MaxAll
BY CompletionAssumption DEF QueueInv, Take

\* A waiter queues and goes to sleep.
LEMMA QueueEnter ==
  ASSUME IsFiniteSet(Task), QueueInv, NEW t \in Task, NEW k \in Kinds, WaitSlow(t, k)
  PROVE  QueueInv'
<1> USE DEF QueueInv, SleepTypeOK, WaitSlow, Enter
<1>1. t \notin Queued /\ Waiting' = Waiting \cup {t} /\ t \notin Waiting
  BY DEF Waiting
<1>2. /\ wait' \in Seq(Task) /\ Distinct(wait)' /\ Queued' = Queued \cup {t}
      /\ Len(wait)' = Len(wait) + 1
  BY <1>1, Appended
<1>3. IsFiniteSet(Waiting)
  BY FS_Subset DEF Waiting
<1>4. Cardinality(Waiting \cup {t}) = Cardinality(Waiting) + 1
  BY <1>1, <1>3, FS_AddElement
<1>5. PICK w : w = Waiting'
  OBVIOUS
<1>6. Len(wait') = Cardinality(w)
  BY <1>1, <1>2, <1>4, <1>5
<1>7. /\ pc' \in [Task -> {"out", "sched", "relock"}] /\ kind' \in [Task -> Kind]
      /\ state' \in [Task -> {"RUNNING", "SLEEP"}]
      /\ \A u \in Task : pc'[u] = "relock" => state'[u] = "RUNNING"
  BY SleepAssumption
<1>8. Queued' = Waiting'
  BY <1>1, <1>2
<1>9. SleepTypeOK'
  BY <1>7
<1>10. QED
  BY <1>2, <1>5, <1>6, <1>7, <1>8, <1>9 DEF WaitSlow

\* A waiter leaves the queue.
LEMMA QueueLeave ==
  ASSUME IsFiniteSet(Task), QueueInv, NEW t \in Task, Completed(t) \/ GiveUp(t)
  PROVE  QueueInv' /\ Waiting' = Waiting \ {t} /\ Awake' = Awake \ {t} /\ t \in Awake
<1> USE DEF QueueInv, SleepTypeOK, Leave
<1>1. pc[t] = "relock" /\ wait' = Without(t) /\ Leave(t, "out")
  BY DEF Completed, GiveUp
<1>2. t \in Queued /\ Waiting' = Waiting \ {t} /\ t \in Waiting
  BY <1>1 DEF Waiting
<1>3. /\ wait' \in Seq(Task) /\ Distinct(wait)' /\ Queued' = Queued \ {t}
      /\ Len(wait)' = Len(wait) - 1
  BY <1>1, <1>2, Deleted
<1>4. IsFiniteSet(Waiting)
  BY FS_Subset DEF Waiting
<1>5. Cardinality(Waiting \ {t}) = Cardinality(Waiting) - 1
  BY <1>2, <1>4, FS_RemoveElement
<1>6. PICK w : w = Waiting'
  OBVIOUS
<1>7. Len(wait') = Cardinality(w)
  BY <1>2, <1>3, <1>5, <1>6
<1>8. /\ pc' \in [Task -> {"out", "sched", "relock"}] /\ kind' \in [Task -> Kind]
      /\ expired' \in [Task -> BOOLEAN] /\ state' = state /\ signal' = signal
      /\ \A u \in Task : pc'[u] = "relock" => state'[u] = "RUNNING"
  BY <1>1 DEF Kind
<1>9. Queued' = Waiting'
  BY <1>2, <1>3
<1>10. /\ done' \in 0 .. UintMax /\ taken' \in Nat
       /\ posted' \in 0 .. MaxPosted /\ alls' \in 0 .. MaxAll
       /\ owed' \subseteq Task
  BY TakeTyped DEF Completed, GiveUp
<1>11. SleepTypeOK'
  BY <1>8
<1>12. QueueInv'
  BY <1>3, <1>6, <1>7, <1>8, <1>9, <1>10, <1>11
<1>13. Awake' = Awake \ {t} /\ t \in Awake
  BY <1>1, <1>8 DEF Awake
<1>14. QED
  BY <1>2, <1>12, <1>13

\* Steps that leave the queue alone: the set of waiting tasks stays, and unless a
\* waiter lies down again nobody falls asleep.
LEMMA QueueStays ==
  ASSUME QueueInv, wait' = wait, SleepTypeOK',
         \A u \in Task : pc'[u] = pc[u] \/ {pc[u], pc'[u]} \subseteq {"sched", "relock"},
         \A u \in Task : pc'[u] = "relock" => state'[u] = "RUNNING",
         /\ done' \in 0 .. UintMax /\ taken' \in Nat
         /\ posted' \in 0 .. MaxPosted /\ alls' \in 0 .. MaxAll
         /\ owed' \subseteq Task
  PROVE  QueueInv' /\ Waiting' = Waiting
<1> USE DEF QueueInv, SleepTypeOK
<1>0. \A u \in Task : pc'[u] # "out" <=> pc[u] # "out"
  OBVIOUS
<1>1. Waiting' = Waiting /\ Queued' = Queued
  BY <1>0 DEF Waiting, Queued
<1>2. PICK w : w = Waiting' /\ w = Waiting
  BY <1>1
<1>3. Len(wait') = Cardinality(w) /\ Distinct(wait')
  BY <1>2
<1>4. pc' \in [Task -> {"out", "sched", "relock"}]
  OBVIOUS
<1>5. QED
  BY <1>1, <1>2, <1>3, <1>4

\* What happens to a task at any time, and its way through schedule_timeout().
LEMMA QueueMoves ==
  ASSUME QueueInv, NEW t \in Task, (Scheduled(t) \/ Disturb(t)) /\ UNCHANGED x
  PROVE  QueueInv' /\ Waiting' = Waiting /\ Awake \subseteq Awake'
<1> USE DEF QueueInv, x
<1>1. /\ SleepTypeOK'
      /\ \A u \in Task : pc'[u] = pc[u] \/ {pc[u], pc'[u]} \subseteq {"sched", "relock"}
      /\ \A u \in Task : state[u] = "RUNNING" => state'[u] = "RUNNING"
      /\ \A u \in Task : pc'[u] = "relock" => state'[u] = "RUNNING"
  <2>1. CASE Scheduled(t)
    BY <2>1 DEF Scheduled, SleepTypeOK
  <2>2. CASE \E s \in Signals : SendSignal(t, s)
    BY <2>2, SleepAssumption DEF SendSignal, Wake, SleepTypeOK
  <2>3. CASE SignalHandled(t)
    BY <2>3 DEF SignalHandled, SleepTypeOK, Signal
  <2>4. CASE Timeout(t)
    BY <2>4 DEF Timeout, Wake, SleepTypeOK
  <2>5. CASE SpuriousWake(t)
    BY <2>5 DEF SpuriousWake, Wake, SleepTypeOK
  <2>6. QED
    BY <2>1, <2>2, <2>3, <2>4, <2>5 DEF Disturb
<1>2. QueueInv' /\ Waiting' = Waiting
  BY <1>1, QueueStays
<1>3. Awake \subseteq Awake'
  BY <1>1 DEF Awake, SleepTypeOK
<1>4. QED
  BY <1>2, <1>3

\* The waiter sleeps again: nothing is left to take.
LEMMA QueueAgain ==
  ASSUME QueueInv, NEW t \in Task, SleepAgain(t)
  PROVE  QueueInv'
<1>1. /\ SleepTypeOK'
      /\ \A u \in Task : pc'[u] = pc[u] \/ {pc[u], pc'[u]} \subseteq {"sched", "relock"}
      /\ \A u \in Task : pc'[u] = "relock" => state'[u] = "RUNNING"
  BY DEF SleepAgain, SleepOn, SleepTypeOK, QueueInv
<1>2. QED
  BY <1>1, QueueStays DEF SleepAgain, x, QueueInv

\* complete() and complete_all() wake some of the queue.
LEMMA QueueWakes ==
  ASSUME QueueInv, Complete \/ CompleteAll
  PROVE  QueueInv' /\ Waiting' = Waiting /\ Awake \subseteq Awake'
<1> USE DEF QueueInv
<1>1. PICK S : Wake(S) /\ UNCHANGED <<wait, taken, pc, kind, signal, expired>>
  BY DEF Complete, CompleteAll
<1>2. done' \in 0 .. UintMax
  <2>1. done + 1 \in Nat /\ done + (UintMax \div 2) \in Nat
    BY CompletionAssumption, HalfNat DEF Half
  <2>2. QED
    BY <2>1, InRange DEF Complete, CompleteAll
<1>3. posted' \in 0 .. MaxPosted /\ alls' \in 0 .. MaxAll /\ owed' \subseteq Task
  BY CompletionAssumption, ListFacts DEF Complete, CompleteAll
<1>4. /\ SleepTypeOK' /\ \A u \in Task : state[u] = "RUNNING" => state'[u] = "RUNNING"
      /\ \A u \in Task : pc'[u] = "relock" => state'[u] = "RUNNING"
  BY <1>1 DEF Wake, SleepTypeOK
<1>5. QueueInv' /\ Waiting' = Waiting
  BY <1>1, <1>2, <1>3, <1>4, QueueStays
<1>6. Awake \subseteq Awake'
  BY <1>1, <1>4 DEF Awake
<1>7. QED
  BY <1>5, <1>6
-----------------------------------------------------------------------------
(* Enough waiters are awake.                                               *)

LEMMA Sizes ==
  ASSUME IsFiniteSet(Task)
  PROVE  /\ Awake \subseteq Waiting /\ IsFiniteSet(Waiting) /\ IsFiniteSet(Awake)
         /\ Cardinality(Awake) \in Nat /\ Cardinality(Waiting) \in Nat
<1>1. Awake \subseteq Waiting /\ Waiting \subseteq Task
  BY DEF Awake, Waiting
<1>2. IsFiniteSet(Waiting) /\ IsFiniteSet(Awake)
  BY <1>1, FS_Subset
<1>3. QED
  BY <1>1, <1>2, FS_CardinalityType

\* A task that sleeps in the queue makes __wake_up_common() wake one.
LEMMA WakesOne ==
  ASSUME QueueInv, Awake # Waiting
  PROVE  \E t \in WakeOne : t \in Waiting /\ t \notin Awake
<1> USE DEF QueueInv
<1>1. PICK n \in Nat : n = Len(wait) /\ DOMAIN wait = 1 .. n
  BY LenProperties
<1>2. PICK T : T = {i \in 1 .. n : state[wait[i]] = "SLEEP"}
  OBVIOUS
<1>3. \A i \in 1 .. n : wait[i] \in Task /\ wait[i] \in Waiting
  BY <1>1, ElementOfSeq DEF Queued
<1>4. T # {}
  <2>1. PICK u \in Waiting : u \notin Awake
    BY DEF Awake, Waiting
  <2>2. u \in Task /\ state[u] = "SLEEP"
    BY <2>1 DEF Awake, Waiting, SleepTypeOK
  <2>3. PICK i \in 1 .. n : wait[i] = u
    BY <1>1, <2>1 DEF Queued
  <2>4. QED
    BY <1>2, <2>2, <2>3
<1>5. T \subseteq Nat
  BY <1>2
<1>6. PICK m \in T : \A y \in T : ~ (<<y, m>> \in OpToRel(<, Nat))
  BY <1>4, <1>5, NatLessThanWellFounded, WFMin
<1>7. m \in 1 .. n /\ state[wait[m]] = "SLEEP"
  BY <1>2
<1>8. \A h \in 1 .. m - 1 : h \in 1 .. n /\ h \notin T
  <2> SUFFICES ASSUME NEW h \in 1 .. m - 1 PROVE h \in 1 .. n /\ h \notin T
    OBVIOUS
  <2>1. h \in 1 .. n /\ h < m /\ h \in Nat /\ m \in Nat
    BY <1>7
  <2>2. QED
    BY <1>6, <2>1 DEF OpToRel
<1>9. \A h \in 1 .. m - 1 : state[wait[h]] = "RUNNING"
  BY <1>2, <1>3, <1>8 DEF SleepTypeOK
<1>10. wait[m] \in WakeOne
  BY <1>1, <1>7, <1>9 DEF WakeOne
<1>11. wait[m] \in Waiting /\ wait[m] \notin Awake
  BY <1>3, <1>7 DEF Awake
<1>12. QED
  BY <1>10, <1>11

\* Where the counter does not grow and nobody falls asleep, there is nothing to show.
LEMMA AwakeStays ==
  ASSUME IsFiniteSet(Task), AwakeInv, QueueInv', Waiting' = Waiting, Awake \subseteq Awake',
         done' <= done
  PROVE  AwakeInv'
<1>1. PICK a : a = Awake'
  OBVIOUS
<1>2. PICK w : w = Waiting'
  OBVIOUS
<1>3. a \subseteq w /\ w = Waiting
  BY <1>1, <1>2 DEF Awake, Waiting
<1>4. IsFiniteSet(a) /\ Cardinality(a) \in Nat /\ Cardinality(Awake) <= Cardinality(a)
  <2>1. IsFiniteSet(a)
    BY <1>3, Sizes, FS_Subset
  <2>2. QED
    BY <1>1, <2>1, FS_Subset, FS_CardinalityType
<1>5. Cardinality(a) >= done' \/ a = w
  <2>1. done \in Nat /\ done' \in Nat
    BY CompletionAssumption DEF AwakeInv, QueueInv
  <2>2. PICK n \in Nat : n = Cardinality(Awake)
    BY Sizes
  <2>3. CASE n >= done
    BY <1>4, <2>1, <2>2, <2>3
  <2>4. CASE Awake = Waiting
    BY <1>1, <1>3, <2>4
  <2>5. QED
    BY <2>2, <2>3, <2>4 DEF AwakeInv
<1>6. QED
  BY <1>1, <1>2, <1>5 DEF AwakeInv

LEMMA AwakeStep ==
  ASSUME IsFiniteSet(Task), AwakeInv, [Next]_vars
  PROVE  AwakeInv'
<1>0. QueueInv /\ done \in Nat
  BY CompletionAssumption DEF AwakeInv, QueueInv
<1>1. ASSUME QueueInv', done' = 0 PROVE AwakeInv'
  <2>1. PICK a : a = Awake'
    OBVIOUS
  <2>2. a \subseteq Task
    BY <2>1 DEF Awake
  <2>3. Cardinality(a) \in Nat
    BY <2>2, FS_Subset, FS_CardinalityType
  <2>4. Cardinality(a) >= done'
    BY <1>1, <2>3
  <2>5. QED
    BY <1>1, <2>1, <2>4 DEF AwakeInv
<1>2. ASSUME NEW t \in Task, WaitFast(t) PROVE AwakeInv'
  <2>1. QueueInv' /\ Waiting' = Waiting
    BY <1>0, <1>2, TakeTyped, QueueStays DEF WaitFast, task, QueueInv, SleepTypeOK
  <2>2. Awake' = Awake /\ done' <= done
    BY <1>0, <1>2 DEF WaitFast, task, Awake, Take
  <2>3. QED
    BY <2>1, <2>2, AwakeStays
<1>3. ASSUME NEW t \in Task, NEW k \in Kinds, WaitSlow(t, k) PROVE AwakeInv'
  BY <1>0, <1>1, <1>3, QueueEnter DEF WaitSlow
<1>4. ASSUME NEW t \in Task, GiveUp(t) \/ SleepAgain(t) PROVE AwakeInv'
  BY <1>0, <1>1, <1>4, QueueLeave, QueueAgain DEF GiveUp, SleepAgain, x
<1>5. ASSUME NEW t \in Task, Completed(t) PROVE AwakeInv'
  <2>1. QueueInv' /\ Waiting' = Waiting \ {t} /\ Awake' = Awake \ {t} /\ t \in Awake
    BY <1>0, <1>5, QueueLeave
  <2>2. PICK a : a = Awake' /\ a = Awake \ {t}
    BY <2>1
  <2>3. Cardinality(a) = Cardinality(Awake) - 1
    BY <2>1, <2>2, Sizes, FS_RemoveElement
  <2>4. done' = done - 1
    BY <1>5 DEF Completed, Take
  <2>5. Cardinality(a) >= done' \/ a = Waiting'
    BY <1>0, <2>1, <2>2, <2>3, <2>4, Sizes DEF AwakeInv
  <2>6. QED
    BY <2>1, <2>2, <2>5 DEF AwakeInv
<1>6. ASSUME NEW t \in Task, (Scheduled(t) \/ Disturb(t)) /\ UNCHANGED x PROVE AwakeInv'
  BY <1>0, <1>6, QueueMoves, AwakeStays DEF x
<1>7. CASE CompleteAll
  <2>1. Awake' = Waiting'
    BY <1>0, <1>7 DEF CompleteAll, Wake, Awake, Waiting, QueueInv
  <2>2. QED
    BY <1>0, <1>7, <2>1, QueueWakes DEF AwakeInv
<1>8. CASE Complete
  <2>1. QueueInv' /\ Waiting' = Waiting /\ Awake \subseteq Awake'
    BY <1>0, <1>8, QueueWakes
  <2>2. PICK a : a = Awake' /\ a \subseteq Waiting
    BY <2>1 DEF Awake, Waiting
  <2>3. IsFiniteSet(a) /\ Cardinality(a) \in Nat /\ Awake \subseteq a
    BY <2>1, <2>2, Sizes, FS_Subset, FS_CardinalityType
  <2>4. CASE Awake = Waiting
    BY <2>1, <2>2, <2>4 DEF AwakeInv
  <2>5. CASE Awake # Waiting
    <3>1. PICK t \in WakeOne : t \in Waiting /\ t \notin Awake
      BY <1>0, <2>5, WakesOne
    <3>2. t \in a
      BY <1>8, <2>2, <3>1 DEF Complete, Wake, Awake, Waiting
    <3>3. Awake \cup {t} \subseteq a
      BY <2>3, <3>2
    <3>4. Cardinality(Awake \cup {t}) = Cardinality(Awake) + 1
      BY <3>1, Sizes, FS_AddElement
    <3>5. Cardinality(Awake \cup {t}) <= Cardinality(a)
      BY <2>3, <3>3, FS_Subset
    <3>6. done' \in Nat /\ done' <= done + 1
      <4>1. PICK m \in Nat : m = UintMax + 1 /\ m > 0
        BY CompletionAssumption
      <4>2. (done + 1) % m \in Nat /\ (done + 1) % m <= done + 1
        <5>1. done + 1 < m => (done + 1) % m = done + 1
          BY <1>0, <4>1
        <5>2. (done + 1) % m \in 0 .. m - 1
          BY <1>0, <4>1
        <5>3. QED
          BY <1>0, <4>1, <5>1, <5>2
      <4>3. QED
        BY <1>8, <4>1, <4>2 DEF Complete
    <3>7. Cardinality(a) >= done'
      BY <1>0, <2>3, <2>5, <3>4, <3>5, <3>6, Sizes DEF AwakeInv
    <3>8. QED
      BY <2>1, <2>2, <3>7 DEF AwakeInv
  <2>6. QED
    BY <2>4, <2>5
<1>9. CASE UNCHANGED vars
  <2>1. UNCHANGED <<done, wait, posted, alls, taken, owed, pc, kind, state, signal, expired>>
    BY <1>9 DEF vars, x, task
  <2>2. QueueInv' /\ Waiting' = Waiting
    BY <1>0, <2>1, QueueStays DEF QueueInv, SleepTypeOK
  <2>3. Awake' = Awake
    BY <2>1 DEF Awake
  <2>4. QED
    BY <1>0, <2>1, <2>2, <2>3, AwakeStays
<1>10. QED
  BY <1>2, <1>3, <1>4, <1>5, <1>6, <1>7, <1>8, <1>9 DEF Next, Waiter

LEMMA AwakeInvariant ==
  ASSUME IsFiniteSet(Task) PROVE Spec => []AwakeInv
<1>1. Init => AwakeInv
  <2> SUFFICES ASSUME Init PROVE AwakeInv
    OBVIOUS
  <2> USE DEF Init, SleepInit
  <2>1. Waiting = {} /\ Queued = {} /\ Awake = {}
    BY DEF Waiting, Queued, Awake
  <2>2. wait \in Seq(Task) /\ Distinct(wait) /\ Len(wait) = 0 /\ Cardinality({}) = 0
    BY FS_EmptySet DEF Distinct
  <2>3. SleepTypeOK
    BY DEF SleepTypeOK, Kind, Signal
  <2>4. QED
    BY <2>1, <2>2, <2>3, CompletionAssumption DEF AwakeInv, QueueInv
<1>2. QED
  BY <1>1, AwakeStep, PTL DEF Spec

\* For any number of tasks the counter stays in its range, and the queue holds a
\* waiter exactly while its entry is on the stack, however wake-ups, signals and
\* timeouts race (completion.c:34, 54, 67, 78, 82).
THEOREM CompletionTyped ==
  ASSUME IsFiniteSet(Task)
  PROVE  Spec => []TypeOK
<1>1. AwakeInv => TypeOK
  BY DEF AwakeInv, QueueInv, TypeOK, Queued, Waiting
<1>2. QED
  BY <1>1, AwakeInvariant, PTL

\* For any number of tasks, as many waiters are awake as completions are left, or all
\* of them: complete() may pass over those that run already, but no completion is
\* stuck behind a sleeper (completion.c:35, 55, 64-83).
THEOREM EnoughWoken ==
  ASSUME IsFiniteSet(Task)
  PROVE  Spec => []EnoughAwake
<1>1. AwakeInv => EnoughAwake
  BY DEF AwakeInv, QueueInv, EnoughAwake, Awake, Waiting
<1>2. QED
  BY <1>1, AwakeInvariant, PTL
-----------------------------------------------------------------------------
(* complete_all() lets everybody through.                                  *)

Unwrapped == Given <= UintMax /\ taken < Half

OwedInv ==
  /\ owed # {} => alls > 0
  /\ Unwrapped => \A t \in owed : pc[t] # "out" /\ state[t] = "RUNNING"

\* What complete_all() gave is not used up.
LEMMA SomeLeft ==
  ASSUME CountInv, alls > 0, Unwrapped
  PROVE  done > 0
<1>1. alls \in Nat /\ posted \in Nat /\ taken \in Nat
  BY DEF CountInv
<1>2. PICK n \in Nat : alls = n + 1
  <2>1. alls - 1 \in Nat /\ alls = (alls - 1) + 1
    BY <1>1
  <2>2. QED
    BY <2>1
<1>3. PICK a \in Nat : a = n * Half /\ alls * Half = a + Half
  BY <1>2, HalfNat
<1>4. Given = posted + (a + Half) /\ Half \in Nat
  BY <1>3, HalfNat DEF Given
<1>5. done + taken = Given /\ taken < Half /\ done \in Nat
  BY CompletionAssumption DEF CountInv, Unwrapped
<1>6. PICK h \in Nat : h = Half
  BY <1>4
<1>7. done + taken = posted + (a + h) /\ taken < h
  BY <1>4, <1>5, <1>6
<1>8. QED
  BY <1>1, <1>5, <1>7

\* Neither the limit of the counter nor that of complete_all() is ever undone.
LEMMA StaysWrapped ==
  ASSUME CountInv, [Next]_vars
  PROVE  Unwrapped' => Unwrapped
<1>1. /\ posted' \in {posted, posted + 1} /\ alls' \in {alls, alls + 1}
      /\ taken' \in {taken, taken + 1}
  BY DEF Next, Waiter, WaitFast, WaitSlow, Completed, GiveUp, SleepAgain, Take,
         Complete, CompleteAll, vars, x
<1>2. alls' * Half \in Nat /\ alls * Half \in Nat /\ alls * Half <= alls' * Half
  <2>1. alls \in Nat /\ Half \in Nat
    BY HalfNat DEF CountInv
  <2>2. PICK a \in Nat : a = alls * Half /\ (alls + 1) * Half = a + Half
    BY <2>1, HalfNat
  <2>3. CASE alls' = alls
    BY <2>2, <2>3
  <2>4. CASE alls' = alls + 1
    <3>1. alls' * Half = a + Half
      BY <2>2, <2>4
    <3>2. PICK h \in Nat : h = Half
      BY <2>1
    <3>3. a <= a + h /\ a + h \in Nat
      OBVIOUS
    <3>4. QED
      BY <2>2, <3>1, <3>2, <3>3
  <2>5. QED
    BY <1>1, <2>3, <2>4
<1>3. PICK a \in Nat, b \in Nat : a = alls * Half /\ b = alls' * Half /\ a <= b
  BY <1>2
<1>4. Given = posted + a /\ Given' = posted' + b /\ posted \in Nat /\ taken \in Nat
  BY <1>3 DEF Given, CountInv, Half
<1>5. Given' <= UintMax => Given <= UintMax
  BY <1>1, <1>3, <1>4, CompletionAssumption
<1>6. PICK h \in Nat : h = Half /\ h = Half'
  BY HalfNat DEF Half
<1>7. taken' < h => taken < h
  BY <1>1, <1>4
<1>8. QED
  BY <1>5, <1>6, <1>7 DEF Unwrapped

LEMMA OwedStep ==
  CountInv /\ QueueInv /\ OwedInv /\ [Next]_vars => OwedInv'
<1> SUFFICES ASSUME CountInv, QueueInv, OwedInv, [Next]_vars
             PROVE  OwedInv'
  OBVIOUS
<1>0. Unwrapped' => Unwrapped
  BY StaysWrapped
<1> DEFINE Through == \A t \in owed : pc[t] # "out" /\ state[t] = "RUNNING"
<1>1. alls' > 0 \/ owed' = {}
  <2>1. CASE CompleteAll
    BY <2>1 DEF CompleteAll, CountInv
  <2>2. CASE alls' = alls /\ owed' \subseteq owed
    BY <2>2 DEF OwedInv
  <2>3. QED
    BY <2>1, <2>2 DEF Next, Waiter, WaitFast, WaitSlow, Completed, GiveUp, SleepAgain, Take,
                      Complete, vars, x
<1>2. ASSUME Unwrapped' PROVE Through'
  <2>1. Unwrapped /\ Through
    BY <1>0, <1>2 DEF OwedInv
  <2>2. owed # {} => done > 0
    BY <2>1, SomeLeft DEF OwedInv
  <2>3. ASSUME NEW u \in Task, WaitFast(u) PROVE Through'
    BY <2>1, <2>3 DEF WaitFast, task
  <2>4. ASSUME NEW u \in Task, NEW k \in Kinds, WaitSlow(u, k) PROVE Through'
    BY <2>2, <2>4 DEF WaitSlow, CountInv
  <2>5. ASSUME NEW u \in Task, GiveUp(u) \/ SleepAgain(u) PROVE Through'
    BY <2>2, <2>5 DEF GiveUp, SleepAgain, x, CountInv
  <2>6. ASSUME NEW u \in Task, Completed(u) PROVE Through'
    BY <2>1, <2>6 DEF Completed, Leave, QueueInv, SleepTypeOK
  <2>7. ASSUME NEW u \in Task, (Scheduled(u) \/ Disturb(u)) /\ UNCHANGED x PROVE Through'
    <3>1. Awake \subseteq Awake' /\ owed' = owed
      BY <2>7, QueueMoves DEF x
    <3>2. owed \subseteq Awake
      BY <2>1 DEF Awake, QueueInv
    <3>3. QED
      BY <3>1, <3>2 DEF Awake
  <2>8. CASE Complete
    <3>1. Awake \subseteq Awake' /\ owed' = owed
      BY <2>8, QueueWakes DEF Complete
    <3>2. owed \subseteq Awake
      BY <2>1 DEF Awake, QueueInv
    <3>3. QED
      BY <3>1, <3>2 DEF Awake
  <2>9. CASE CompleteAll
    <3>1. Awake \subseteq Awake'
      BY <2>9, QueueWakes
    <3>2. owed \subseteq Awake
      BY <2>1 DEF Awake, QueueInv
    <3>3. Queued \subseteq Awake'
      BY <2>9 DEF CompleteAll, Wake, Awake, Waiting, QueueInv
    <3>4. owed' \subseteq Awake'
      BY <2>9, <3>1, <3>2, <3>3 DEF CompleteAll
    <3>5. QED
      BY <3>4 DEF Awake
  <2>10. CASE UNCHANGED vars
    BY <2>1, <2>10 DEF vars, x, task
  <2>11. QED
    BY <2>3, <2>4, <2>5, <2>6, <2>7, <2>8, <2>9, <2>10 DEF Next, Waiter
<1>3. QED
  BY <1>1, <1>2 DEF OwedInv

\* For any number of tasks and any width of the counter, a task that waits at a
\* complete_all() stays awake until it is let through: no timeout, signal or other
\* waiter comes in between, up to the limits the counter sets
\* (completion.c:54-55, 72-83).
THEOREM EverybodyLetThrough ==
  ASSUME IsFiniteSet(Task)
  PROVE  Spec => []AllLetThrough
<1>1. Init => OwedInv
  BY DEF Init, OwedInv
<1>2. AwakeInv => QueueInv
  BY DEF AwakeInv
<1>3. Spec => []OwedInv
  BY <1>1, <1>2, OwedStep, CompletionsCounted, AwakeInvariant, PTL DEF Spec
<1>4. OwedInv => AllLetThrough
  BY DEF OwedInv, AllLetThrough, Unwrapped, Given, Half
<1>5. QED
  BY <1>3, <1>4, PTL
=============================================================================
