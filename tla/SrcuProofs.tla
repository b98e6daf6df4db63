----------------------------- MODULE SrcuProofs -----------------------------
(***************************************************************************)
(* An srcu_struct, for any numbers of readers, updaters and CPUs: who      *)
(* drives its grace periods, what its counters count, the order of its     *)
(* callbacks, and what a reader that counts itself in or out does to a     *)
(* check of its rank.                                                      *)
(***************************************************************************)
EXTENDS Srcu, FiniteSetTheorems, SequenceTheorems, NaturalsInduction,
        WellFoundedInduction, TLAPS

Places == {"idle", "advance", "seq", "sum", "again", "pass", "fail",
           "invoke", "claim", "reschedule", "locked"}

Batches ==
  /\ batch_queue \in Seq(Updater) /\ batch_check0 \in Seq(Updater)
  /\ batch_check1 \in Seq(Updater) /\ batch_done \in Seq(Updater)

Empty == batch_queue = <<>> /\ batch_check0 = <<>> /\ batch_check1 = <<>> /\ batch_done = <<>>

\* At most one process drives; it or the scheduled work item is what ->running
\* stands for, and without ->running no callback is queued anywhere.
Owner ==
  /\ \A p, q \in Proc : pc[p] # "idle" /\ pc[q] # "idle" => p = q
  /\ \A p \in Proc : pc[p] # "idle" => running /\ ~work
  /\ work => running
  /\ running => work \/ \E p \in Proc : pc[p] # "idle"
  /\ ~running => Empty

\* An updater that drives has its own callback, and no other, behind batch_queue.
Alone(u) ==
  \/ batch_check0 = <<u>> /\ batch_check1 = <<>> /\ batch_done = <<>>
  \/ batch_check0 = <<>> /\ batch_check1 = <<u>> /\ batch_done = <<>>
  \/ batch_check0 = <<>> /\ batch_check1 = <<>> /\ batch_done = <<u>>

Mine == \A u \in Updater : pc[u] \in Places \ {"idle", "reschedule", "locked"} => Alone(u)

OwnerInv ==
  /\ pc \in [Proc -> Places] /\ running \in BOOLEAN /\ work \in BOOLEAN
  /\ Batches /\ Owner /\ Mine
-----------------------------------------------------------------------------
\* Four batches that are empty one after the other are empty.
LEMMA EmptyBatches == ASSUME Batches, AllEmpty PROVE Empty
<1>1. \A s, r \in Seq(Updater) : s \o r \in Seq(Updater) /\ (s \o r = <<>> => s = <<>> /\ r = <<>>)
  <2> SUFFICES ASSUME NEW s \in Seq(Updater), NEW r \in Seq(Updater)
               PROVE  s \o r \in Seq(Updater) /\ (s \o r = <<>> => s = <<>> /\ r = <<>>)
    OBVIOUS
  <2>1. Len(s) \in Nat /\ Len(r) \in Nat
    BY LenProperties
  <2>2. s \o r \in Seq(Updater) /\ Len(s \o r) = Len(s) + Len(r)
    BY ConcatProperties
  <2>3. ASSUME s \o r = <<>> PROVE Len(s) = 0 /\ Len(r) = 0
    <3>1. Len(s \o r) = 0
      BY <2>3, EmptySeq
    <3>2. QED
      BY <2>1, <2>2, <3>1
  <2>4. QED
    BY <2>2, <2>3, EmptySeq
<1>2. batch_queue \o batch_check0 \in Seq(Updater)
  BY <1>1 DEF Batches
<1>3. (batch_queue \o batch_check0) \o batch_check1 \in Seq(Updater)
  BY <1>1, <1>2 DEF Batches
<1>4. (batch_queue \o batch_check0) \o batch_check1 = <<>> /\ batch_done = <<>>
  BY <1>1, <1>3 DEF Batches, AllEmpty
<1>5. batch_queue \o batch_check0 = <<>> /\ batch_check1 = <<>>
  BY <1>1, <1>2, <1>4 DEF Batches
<1>6. QED
  BY <1>1, <1>4, <1>5 DEF Batches, Empty

\* rcu_batch_move() with an empty batch.
LEMMA MoveProperties ==
  ASSUME NEW s \in Seq(Updater), NEW r \in Seq(Updater)
  PROVE  Move(s, r) \in Seq(Updater) /\ Move(<<>>, r) = r /\ Move(s, <<>>) = s
BY ConcatProperties, ConcatEmptySeq DEF Move

\* A step of a driver that touches neither the batches nor the ownership.
LEMMA DriverStays ==
  ASSUME OwnerInv, NEW p \in Proc, NEW l \in Places, pc[p] # "idle", l # "idle",
         pc[p] \notin {"reschedule", "locked"} \/ l \in {"reschedule", "locked"},
         pc' = [pc EXCEPT ![p] = l], UNCHANGED <<batches, running, work>>
  PROVE  OwnerInv'
<1>1. UNCHANGED <<batch_queue, batch_check0, batch_check1, batch_done>>
  BY DEF batches
<1>2. Owner'
  BY <1>1 DEF OwnerInv, Owner, Empty
<1>3. Mine'
  BY <1>1 DEF OwnerInv, Mine, Alone, Places, Proc
<1>4. QED
  BY <1>1, <1>2, <1>3 DEF OwnerInv, Batches

\* Steps of readers and returning updaters.
LEMMA Stays ==
  ASSUME OwnerInv, UNCHANGED <<batches, running, work, pc>> PROVE OwnerInv'
BY DEF OwnerInv, batches, Batches, Owner, Empty, Mine, Alone

\* A callback is queued while somebody drives, or the work item is scheduled for it.
LEMMA CallOK == ASSUME OwnerInv, NEW u \in Updater, CallSrcu(u) PROVE OwnerInv'
<1>1. /\ batch_queue' = Append(batch_queue, u) /\ running' = TRUE
      /\ work' = (IF running THEN work ELSE TRUE)
      /\ UNCHANGED <<batch_check0, batch_check1, batch_done, pc>>
  BY DEF CallSrcu, driver
<1>2. Batches'
  BY <1>1, AppendProperties DEF OwnerInv, Batches
<1>3. Owner'
  BY <1>1 DEF OwnerInv, Owner
<1>4. Mine'
  BY <1>1 DEF OwnerInv, Mine, Alone
<1>5. QED
  BY <1>1, <1>2, <1>3, <1>4, Zenon DEF OwnerInv

\* synchronize_srcu() takes the ownership when there is none to respect.
LEMMA SynchronizeOK == ASSUME OwnerInv, NEW u \in Updater, SynchronizeSrcu(u) PROVE OwnerInv'
<1> USE DEF OwnerInv
<1>0. u \in Proc
  BY DEF Proc
<1>1. CASE running
  <2>1. /\ batch_queue' = Append(batch_queue, u) /\ running' = running
        /\ UNCHANGED <<batch_check0, batch_check1, batch_done, pc, work>>
    BY <1>1 DEF SynchronizeSrcu, MaySteal
  <2>2. Batches'
    BY <2>1, AppendProperties DEF Batches
  <2>3. Owner'
    BY <1>1, <2>1 DEF Owner
  <2>4. Mine'
    BY <2>1 DEF Mine, Alone
  <2>5. QED
    BY <2>1, <2>2, <2>3, <2>4
<1>2. CASE ~running
  <2>1. /\ batch_check0' = Append(batch_check0, u) /\ running' = TRUE
        /\ pc' = [pc EXCEPT ![u] = "advance"]
        /\ UNCHANGED <<batch_queue, batch_check1, batch_done, work>>
    BY <1>2 DEF SynchronizeSrcu, MaySteal
  <2>2. Empty /\ ~work /\ \A p \in Proc : pc[p] = "idle"
    BY <1>2 DEF Owner
  <2>3. batch_check0' = <<u>>
    BY <2>1, <2>2 DEF Empty
  <2>4. Batches'
    BY <2>1, AppendProperties DEF Batches
  <2>5. Owner'
    BY <1>0, <2>1, <2>2 DEF Owner, Places
  <2>6. Alone(u)'
    BY <2>1, <2>2, <2>3 DEF Alone, Empty
  <2>7. Mine'
    BY <2>1, <2>2, <2>6 DEF Mine, Proc
  <2>8. QED
    BY <2>1, <2>4, <2>5, <2>7, Zenon DEF Places
<1>3. QED
  BY <1>1, <1>2

\* The work item starts: nobody else drives, so no updater has a callback of its own.
LEMMA ProcessOK == ASSUME OwnerInv, ProcessSrcu PROVE OwnerInv'
<1> USE DEF OwnerInv
<1>1. /\ work /\ work' = FALSE /\ running' = running /\ pc' = [pc EXCEPT ![Work] = "advance"]
      /\ batch_check0' = Move(batch_check0, batch_queue) /\ batch_queue' = <<>>
      /\ UNCHANGED <<batch_check1, batch_done>>
  BY DEF ProcessSrcu, Goto
<1>2. running /\ Work \in Proc /\ Work \notin Updater /\ \A p \in Proc : pc[p] = "idle"
  BY <1>1, SrcuAssumption DEF Owner, Proc
<1>3. Batches'
  <2>1. batch_queue' \in Seq(Updater)
    BY <1>1, EmptySeq
  <2>2. QED
    BY <1>1, <2>1, MoveProperties DEF Batches
<1>4. Owner'
  BY <1>1, <1>2 DEF Owner
<1>5. Mine'
  BY <1>1, <1>2 DEF Mine, Proc
<1>6. QED
  BY <1>1, <1>2, <1>3, <1>4, <1>5, Zenon DEF Places

\* A driver that is the work item leaves no updater to be alone with its callback.
LEMMA WorkDrives == ASSUME OwnerInv, pc[Work] # "idle" PROVE \A u \in Updater : pc[u] = "idle"
BY SrcuAssumption DEF OwnerInv, Owner, Proc

LEMMA InvokeOK == ASSUME OwnerInv, InvokeCallbacks PROVE OwnerInv'
<1> USE DEF OwnerInv
<1>0. pc[Work] = "invoke" /\ Work \in Proc
  BY DEF InvokeCallbacks, Proc
<1>1. CASE loc[Work].i < Batch /\ batch_done # <<>>
  <2>1. /\ batch_done' = Tail(batch_done)
        /\ UNCHANGED <<batch_queue, batch_check0, batch_check1, running, work, pc>>
    BY <1>1 DEF InvokeCallbacks
  <2>2. Batches'
    BY <1>1, <2>1, HeadTailProperties DEF Batches
  <2>3. Owner'
    BY <1>0, <2>1 DEF Owner
  <2>4. Mine'
    BY <1>0, <2>1, WorkDrives DEF Mine
  <2>5. QED
    BY <2>1, <2>2, <2>3, <2>4
<1>2. CASE ~ (loc[Work].i < Batch /\ batch_done # <<>>)
  <2>1. pc' = [pc EXCEPT ![Work] = "reschedule"] /\ UNCHANGED <<batches, running, work>>
    BY <1>2 DEF InvokeCallbacks, Goto, batches
  <2>2. "reschedule" \in Places
    BY DEF Places
  <2>3. QED
    BY <1>0, <2>1, <2>2, DriverStays, Zenon
<1>3. QED
  BY <1>1, <1>2

LEMMA ClaimOK == ASSUME OwnerInv, NEW u \in Updater, Claim(u) PROVE OwnerInv'
<1> USE DEF OwnerInv
<1>1. /\ pc[u] = "claim" /\ pc' = [pc EXCEPT ![u] = "reschedule"]
      /\ batch_done' = IF batch_done # <<>> THEN Tail(batch_done) ELSE batch_done
      /\ UNCHANGED <<batch_queue, batch_check0, batch_check1, running, work>>
  BY DEF Claim, Goto
<1>2. u \in Proc /\ running /\ \A p \in Proc \ {u} : pc[p] = "idle"
  BY <1>1 DEF Owner, Proc
<1>3. Batches'
  BY <1>1, HeadTailProperties DEF Batches
<1>4. Owner'
  BY <1>1, <1>2 DEF Owner
<1>5. Mine'
  BY <1>1, <1>2 DEF Mine, Proc
<1>6. QED
  BY <1>1, <1>3, <1>4, <1>5, Zenon DEF Places

\* A check of a rank, or the end of srcu_advance_batches(), without a result.
LEMMA AdvanceOK ==
  ASSUME OwnerInv, NEW p \in Proc, AdvanceBatches(p) \/ AddUp(p) \/ CheckFails(p)
  PROVE  OwnerInv'
<1>1. pc[p] \in {"advance", "seq", "sum", "again", "fail"}
  BY Zenon DEF AdvanceBatches, AddUp, Summing, CheckFails
<1>2. UNCHANGED <<batches, running, work>>
  BY Zenon DEF AdvanceBatches, AddUp, CheckFails
<1>3. \E l \in {"seq", "sum", "again", "pass", "fail", "invoke", "claim"} :
         pc' = [pc EXCEPT ![p] = l]
  <2>1. CASE AdvanceBatches(p) \/ CheckFails(p)
    BY <2>1 DEF AdvanceBatches, CheckFails, Check, LeaveAdvance, Advanced, Goto
  <2>2. CASE AddUp(p)
    <3>1. pc[p] \in Summing
      BY <2>2 DEF AddUp
    <3>2. CASE pc' = pc
      BY <1>1, <3>1, <3>2 DEF OwnerInv, Summing
    <3>3. CASE pc' # pc
      BY <2>2, <3>1, <3>3 DEF AddUp, AfterLoop, Summing, Goto
    <3>4. QED
      BY <3>2, <3>3
  <2>3. QED
    BY <2>1, <2>2
<1>4. QED
  BY <1>1, <1>2, <1>3, DriverStays, Zenon DEF Places

\* The callbacks move on by one batch.
LEMMA SucceedsOK == ASSUME OwnerInv, NEW p \in Proc, CheckSucceeds(p) PROVE OwnerInv'
<1> USE DEF OwnerInv
<1>1. PICK l \in {"seq", "invoke", "claim"} :
        /\ pc[p] = "pass" /\ pc' = [pc EXCEPT ![p] = l]
        /\ UNCHANGED <<batch_queue, running, work>>
        /\ batch_done' = Move(batch_done, batch_check1)
        /\ \/ batch_check1' = batch_check0 /\ batch_check0' = <<>>
           \/ batch_check1' = <<>> /\ batch_check0' = batch_check0
  BY DEF CheckSucceeds, Check, LeaveAdvance, Advanced, Goto
<1>2. <<>> \in Seq(Updater)
  BY EmptySeq
<1>3. Batches'
  BY <1>1, <1>2, MoveProperties, Zenon DEF Batches
<1>4. Owner'
  BY <1>1 DEF Owner
<1>5. ASSUME NEW u \in Updater, u = p PROVE Alone(u)'
  <2>1. Alone(u)
    BY <1>1, <1>5 DEF Mine, Places
  <2>2. \A s \in Seq(Updater) : Move(<<>>, s) = s /\ Move(s, <<>>) = s
    BY MoveProperties
  <2>3. batch_done' = (IF batch_check1 = <<>> THEN batch_done ELSE batch_check1)
    BY <1>1, <2>1, <2>2 DEF Alone, Batches
  <2>4. QED
    BY <1>1, <2>1, <2>3 DEF Alone
<1>6. Mine'
  <2>1. \A u \in Updater : u # p => pc[u] = "idle"
    BY <1>1 DEF Owner, Proc
  <2>2. QED
    BY <1>1, <1>5, <2>1 DEF Mine, Proc
<1>7. QED
  BY <1>1, <1>3, <1>4, <1>6 DEF Places

\* srcu_reschedule() hands the ownership to the work item or gives it up.
LEMMA RescheduleOK ==
  ASSUME OwnerInv, NEW p \in Proc, Reschedule(p) \/ RescheduleLocked(p) PROVE OwnerInv'
<1> USE DEF OwnerInv
<1>1. pc[p] # "idle" /\ running /\ ~work /\ \A q \in Proc \ {p} : pc[q] = "idle"
  BY Zenon DEF Reschedule, RescheduleLocked, Owner
<1>2. CASE Reschedule(p) /\ AllEmpty
  <2>1. pc' = [pc EXCEPT ![p] = "locked"] /\ UNCHANGED <<batches, running, work>>
    BY <1>2 DEF Reschedule, Goto
  <2>2. "locked" \in Places
    BY DEF Places
  <2>3. QED
    BY <1>1, <2>1, <2>2, DriverStays, Zenon
<1>3. CASE ~ (Reschedule(p) /\ AllEmpty)
  <2>1. /\ pc' = [pc EXCEPT ![p] = "idle"]
        /\ UNCHANGED <<batch_queue, batch_check0, batch_check1, batch_done>>
        /\ \/ running' = running /\ work' = TRUE
           \/ running' = FALSE /\ work' = work /\ AllEmpty
    BY <1>1, <1>3, Zenon DEF Reschedule, RescheduleLocked, StillEmpty, Goto, batches
  <2>2. AllEmpty => Empty
    BY EmptyBatches
  <2>3. \A q \in Proc : pc'[q] = "idle"
    BY <1>1, <2>1
  <2>4. Batches'
    BY <2>1 DEF Batches
  <2>5. Owner'
    <3>1. CASE running' = running /\ work' = TRUE
      BY <1>1, <2>3, <3>1 DEF Owner
    <3>2. CASE running' = FALSE /\ work' = work /\ AllEmpty
      <4>1. Empty'
        BY <2>1, <2>2, <3>2 DEF Empty
      <4>2. QED
        BY <1>1, <2>3, <3>2, <4>1 DEF Owner
    <3>3. QED
      BY <2>1, <3>1, <3>2, Zenon
  <2>6. Mine'
    BY <2>3 DEF Mine, Proc
  <2>7. QED
    BY <1>1, <2>1, <2>4, <2>5, <2>6, Zenon DEF Places
<1>4. QED
  BY <1>2, <1>3

LEMMA OwnerInvariant == OwnerInv /\ [Next]_vars => OwnerInv'
<1> SUFFICES ASSUME OwnerInv, [Next]_vars PROVE OwnerInv'
  OBVIOUS
<1>1. CASE Driving
  BY <1>1, ProcessOK, InvokeOK, ClaimOK, AdvanceOK, SucceedsOK, RescheduleOK DEF Driving, Drive
<1>2. ASSUME NEW u \in Updater, CallSrcu(u) \/ SynchronizeSrcu(u) PROVE OwnerInv'
  BY <1>2, CallOK, SynchronizeOK
<1>3. ASSUME NEW u \in Updater, Return(u) PROVE OwnerInv'
  BY <1>3, Stays DEF Return, driver
<1>4. ASSUME NEW r \in Reader, ReadIdx(r) \/ ReaderStep(r) PROVE OwnerInv'
  BY <1>4, Stays DEF ReadIdx, ReaderStep, CountSeq, Count, Unlock, driver
<1>5. CASE UNCHANGED vars
  BY <1>5, Stays DEF vars, driver
<1>6. QED
  BY <1>1, <1>2, <1>3, <1>4, <1>5 DEF Next

LEMMA OwnerInit == Init => OwnerInv
<1> SUFFICES ASSUME Init PROVE OwnerInv
  OBVIOUS
<1>1. Batches
  BY EmptySeq DEF Init, Batches
<1>2. QED
  BY <1>1, Zenon DEF Init, OwnerInv, Owner, Mine, Empty, Places, Proc

\* ->running stands for exactly one driver, at work or scheduled, and when it is
\* clear nothing is left to do, for any number of updaters (srcu.c:399-402, 448-451,
\* 665-677).
THEOREM OneDriver == Spec => []OneOwner
<1>1. OwnerInv => OneOwner
  <2> SUFFICES ASSUME OwnerInv PROVE OneOwner
    OBVIOUS
  <2> USE DEF OwnerInv
  <2> DEFINE S == {p \in Proc : pc[p] # "idle"}
  <2>1. CASE S = {}
    <3>1. Cardinality(S) = 0
      BY <2>1, FS_EmptySet
    <3>2. running <=> work
      BY <2>1 DEF Owner
    <3>3. ~running => AllEmpty
      BY ConcatEmptySeq, EmptySeq DEF Owner, Empty, AllEmpty
    <3> HIDE DEF S
    <3>4. QED
      BY <3>1, <3>2, <3>3 DEF OneOwner, S
  <2>2. CASE S # {}
    <3>1. PICK p \in Proc : S = {p} /\ running /\ ~work
      BY <2>2 DEF Owner
    <3>2. Cardinality(S) = 1
      BY <3>1, FS_Singleton
    <3> HIDE DEF S
    <3>3. QED
      BY <3>1, <3>2 DEF OneOwner, S
  <2>3. QED
    BY <2>1, <2>2
<1>2. QED
  BY <1>1, OwnerInit, OwnerInvariant, PTL DEF Spec

\* BUG_ON(sp->batch_done.head != head) never fires, for any number of updaters: who
\* took the ownership finds nothing but its own callback done (srcu.c:456).
THEOREM ClaimsItsOwn == Spec => []NoBug
<1>1. OwnerInv => NoBug
  BY DEF OwnerInv, NoBug, Mine, Alone, Places
<1>2. QED
  BY <1>1, OwnerInit, OwnerInvariant, PTL DEF Spec
-----------------------------------------------------------------------------
(* Sums over the CPUs, and unsigned numbers.                               *)

LEMMA Constants ==
  /\ CPUs \in Nat /\ CPUs > 0 /\ UlongRange \in Nat /\ UlongRange > 0
  /\ Cardinality(Reader) \in Nat /\ Cardinality(Reader) < UlongRange
BY SrcuAssumption, FS_CardinalityType

\* Wrapping can be put off until the end.
LEMMA ModAdd ==
  ASSUME NEW a \in Int, NEW b \in Int
  PROVE  /\ a % UlongRange \in 0 .. UlongRange - 1
         /\ ((a % UlongRange) + b) % UlongRange = (a + b) % UlongRange
<1> DEFINE R == UlongRange
<1>0. R \in Nat /\ R > 0
  BY Constants
<1> HIDE DEF R
<1>1. PICK q \in Int : a = R * q + (a % R) /\ a % R \in 0 .. R - 1
  BY <1>0
<1>2. PICK s \in 0 .. R - 1 : s = a % R
  BY <1>1
<1>3. PICK p \in Int : s + b = R * p + ((s + b) % R) /\ (s + b) % R \in 0 .. R - 1
  BY <1>0, <1>2
<1>4. PICK t \in 0 .. R - 1 : t = (s + b) % R
  BY <1>3
<1>5. a + b = R * (q + p) + t
  BY <1>0, <1>1, <1>2, <1>3, <1>4
<1>6. (R * (q + p) + t) % R = t
  <2>1. \A z \in Int : (R * z + t) % R = t
    BY <1>0
  <2>2. q + p \in Int
    OBVIOUS
  <2>3. QED
    BY <2>1, <2>2
<1>7. QED
  BY <1>1, <1>2, <1>4, <1>5, <1>6 DEF R

LEMMA ModSmall == ASSUME NEW a \in 0 .. UlongRange - 1 PROVE a % UlongRange = a
BY Constants

\* The sums exist, although they are defined by recursion.
LEMMA SumsDef ==
  ASSUME NEW f \in [Cpu -> Int]
  PROVE  /\ Sums(f) \in [0 .. CPUs -> Int] /\ Sums(f)[0] = 0
         /\ \A i \in Cpu : Sums(f)[i] = Sums(f)[i - 1] + f[i]
<1> DEFINE OK(g, n) == g \in [0 .. n -> Int] /\ g[0] = 0
                       /\ \A i \in 1 .. n : g[i] = g[i - 1] + f[i]
           T == {n \in 0 .. CPUs : ~ \E g : OK(g, n)}
<1>1. T = {}
  <2> SUFFICES ASSUME T # {} PROVE FALSE
    OBVIOUS
  <2>1. T \subseteq Nat
    BY Constants
  <2>2. PICK m \in T : \A y \in T : ~ (<<y, m>> \in OpToRel(<, Nat))
    BY <2>1, NatLessThanWellFounded, WFMin, Zenon
  <2>3. m \in 0 .. CPUs /\ m \in Nat /\ ~ \E g : OK(g, m)
    BY <2>1, <2>2, Zenon
  <2>4. CASE m = 0
    <3>1. OK([i \in 0 .. 0 |-> 0], 0)
      OBVIOUS
    <3>2. QED
      BY <2>3, <2>4, <3>1, Zenon
  <2>5. CASE m # 0
    <3>1. m - 1 \in Nat /\ m - 1 < m /\ m - 1 \in 0 .. CPUs
      BY <2>3, <2>5, Constants
    <3>2. m - 1 \notin T
      BY <2>2, <2>3, <3>1, Zenon DEF OpToRel
    <3>3. PICK g : OK(g, m - 1)
      BY <3>1, <3>2, Zenon
    <3>4. PICK h : h = [i \in 0 .. m |-> IF i = m THEN g[m - 1] + f[m] ELSE g[i]]
      BY Zenon
    <3>5. m \in Cpu /\ f[m] \in Int /\ g[m - 1] \in Int /\ g[0] = 0
      BY <2>3, <2>5, <3>1, <3>3, Constants DEF Cpu
    <3>6. h \in [0 .. m -> Int]
      BY <2>3, <3>1, <3>3, <3>4, <3>5
    <3>7. h[0] = 0
      BY <2>3, <2>5, <3>4, <3>5
    <3>8. ASSUME NEW i \in 1 .. m PROVE h[i] = h[i - 1] + f[i]
      <4>1. CASE i = m
        BY <2>3, <2>5, <3>4, <4>1
      <4>2. CASE i # m
        <5>1. i \in 1 .. m - 1 /\ i - 1 \in 0 .. m /\ i - 1 # m /\ i \in 0 .. m
          BY <2>3, <4>2
        <5>2. g[i] = g[i - 1] + f[i]
          BY <3>3, <5>1
        <5>3. QED
          BY <3>4, <4>2, <5>1, <5>2
      <4>3. QED
        BY <4>1, <4>2
    <3>9. QED
      BY <2>3, <3>6, <3>7, <3>8, Zenon
  <2>6. QED
    BY <2>4, <2>5
<1>2. PICK g : OK(g, CPUs)
  BY <1>1, Constants
<1>3. g = [n \in 0 .. CPUs |-> IF n = 0 THEN 0 ELSE g[n - 1] + f[n]]
  <2>1. \A n \in 0 .. CPUs : n = 0 \/ n \in 1 .. CPUs
    BY Constants
  <2>2. \A n \in 0 .. CPUs : g[n] = IF n = 0 THEN 0 ELSE g[n - 1] + f[n]
    BY <1>2, <2>1
  <2>3. QED
    BY <1>2, <2>2
<1>4. Sums(f) = [n \in 0 .. CPUs |-> IF n = 0 THEN 0 ELSE Sums(f)[n - 1] + f[n]]
  BY <1>3, Zenon DEF Sums
<1>5. PICK s : s = Sums(f)
  OBVIOUS
<1>6. s = [n \in 0 .. CPUs |-> IF n = 0 THEN 0 ELSE s[n - 1] + f[n]]
  BY <1>4, <1>5, Zenon
<1>7. s[0] = 0 /\ \A i \in Cpu : s[i] = s[i - 1] + f[i]
  BY <1>6, Constants DEF Cpu
<1>8. s \in [0 .. CPUs -> Int]
  <2> DEFINE V == {n \in 0 .. CPUs : s[n] \notin Int}
  <2>1. V \subseteq Nat
    BY Constants
  <2> SUFFICES ASSUME V # {} PROVE FALSE
    BY <1>6
  <2>2. PICK m \in V : \A y \in V : ~ (<<y, m>> \in OpToRel(<, Nat))
    BY <2>1, NatLessThanWellFounded, WFMin, Zenon
  <2>3. m \in 0 .. CPUs /\ m \in Nat /\ s[m] \notin Int
    BY <2>1, <2>2, Zenon
  <2>4. m # 0
    BY <1>7, <2>3
  <2>5. m - 1 \in Nat /\ m - 1 < m /\ m - 1 \in 0 .. CPUs /\ m \in Cpu
    BY <2>3, <2>4, Constants DEF Cpu
  <2>6. m - 1 \notin V
    BY <2>2, <2>3, <2>5, Zenon DEF OpToRel
  <2>7. s[m - 1] \in Int /\ s[m] = s[m - 1] + f[m] /\ f[m] \in Int
    BY <1>7, <2>5, <2>6
  <2>8. QED
    BY <2>3, <2>7
<1>9. QED
  BY <1>5, <1>7, <1>8

\* What holds of no CPU and goes on with each CPU holds of all.
LEMMA CpuInduction ==
  ASSUME NEW S, 0 \in S, \A i \in Cpu : i - 1 \in S => i \in S
  PROVE  \A n \in 0 .. CPUs : n \in S
<1> DEFINE V == {n \in 0 .. CPUs : n \notin S}
<1> SUFFICES ASSUME V # {} PROVE FALSE
  OBVIOUS
<1>1. V \subseteq Nat
  BY Constants
<1>2. PICK m \in V : \A y \in V : ~ (<<y, m>> \in OpToRel(<, Nat))
  BY <1>1, NatLessThanWellFounded, WFMin, Zenon
<1>3. m \in 0 .. CPUs /\ m \in Nat /\ m \notin S /\ m # 0
  BY <1>1, <1>2, Zenon
<1>4. m - 1 \in Nat /\ m - 1 < m /\ m - 1 \in 0 .. CPUs /\ m \in Cpu
  BY <1>3, Constants DEF Cpu
<1>5. m - 1 \notin V
  BY <1>2, <1>3, <1>4, Zenon DEF OpToRel
<1>6. QED
  BY <1>3, <1>4, <1>5

\* One CPU's number changes.
LEMMA SumsChange ==
  ASSUME NEW f \in [Cpu -> Int], NEW g \in [Cpu -> Int], NEW j \in Cpu,
         \A i \in Cpu : i # j => g[i] = f[i]
  PROVE  \A n \in 0 .. CPUs :
            Sums(g)[n] = Sums(f)[n] + (IF n >= j THEN g[j] - f[j] ELSE 0)
<1>1. PICK s : s = Sums(f) /\ s \in [0 .. CPUs -> Int] /\ s[0] = 0
                 /\ \A i \in Cpu : s[i] = s[i - 1] + f[i]
  BY SumsDef
<1>2. PICK t : t = Sums(g) /\ t \in [0 .. CPUs -> Int] /\ t[0] = 0
                 /\ \A i \in Cpu : t[i] = t[i - 1] + g[i]
  BY SumsDef
<1> DEFINE S == {n \in 0 .. CPUs : t[n] = s[n] + (IF n >= j THEN g[j] - f[j] ELSE 0)}
<1>3. 0 \in S
  BY <1>1, <1>2, Constants DEF Cpu
<1>4. ASSUME NEW i \in Cpu, i - 1 \in S PROVE i \in S
  <2>1. i \in 1 .. CPUs /\ i - 1 \in 0 .. CPUs /\ i \in 0 .. CPUs /\ j \in 1 .. CPUs
    BY Constants DEF Cpu
  <2>2. t[i - 1] = s[i - 1] + (IF i - 1 >= j THEN g[j] - f[j] ELSE 0)
    BY <1>4
  <2>3. s[i] = s[i - 1] + f[i] /\ t[i] = t[i - 1] + g[i]
    BY <1>1, <1>2
  <2>4. /\ s[i - 1] \in Int /\ t[i - 1] \in Int /\ f[i] \in Int /\ g[i] \in Int
        /\ f[j] \in Int /\ g[j] \in Int
    BY <1>1, <1>2, <2>1
  <2>5. t[i] = s[i] + (IF i >= j THEN g[j] - f[j] ELSE 0)
    <3>1. CASE i = j
      BY <2>1, <2>2, <2>3, <2>4, <3>1
    <3>2. CASE i # j
      <4>1. g[i] = f[i] /\ (i - 1 >= j <=> i >= j)
        BY <2>1, <3>2
      <4>2. QED
        BY <2>1, <2>2, <2>3, <2>4, <4>1
    <3>3. QED
      BY <3>1, <3>2
  <2>6. QED
    BY <2>1, <2>5
<1> HIDE DEF S
<1>5. \A n \in 0 .. CPUs : n \in S
  BY <1>3, <1>4, CpuInduction
<1>6. QED
  BY <1>1, <1>2, <1>5 DEF S

\* Sums of natural numbers grow with the number of CPUs.
LEMMA SumsNat ==
  ASSUME NEW f \in [Cpu -> Nat]
  PROVE  /\ f \in [Cpu -> Int]
         /\ \A n \in 0 .. CPUs : Sums(f)[n] \in Nat /\ Sums(f)[n] <= Sums(f)[CPUs]
         /\ \A i \in Cpu : f[i] <= Sums(f)[CPUs] /\ f[i] <= Sums(f)[i]
<1>0. f \in [Cpu -> Int]
  OBVIOUS
<1>1. PICK s : s = Sums(f) /\ s \in [0 .. CPUs -> Int] /\ s[0] = 0
                 /\ \A i \in Cpu : s[i] = s[i - 1] + f[i]
  BY <1>0, SumsDef
<1> DEFINE S == {n \in 0 .. CPUs : s[n] \in Nat /\ \A k \in 0 .. n : s[k] <= s[n]}
<1>2. 0 \in S
  BY <1>1, Constants
<1>3. ASSUME NEW i \in Cpu, i - 1 \in S PROVE i \in S
  <2>1. i \in 1 .. CPUs /\ i - 1 \in 0 .. CPUs /\ i \in 0 .. CPUs
    BY Constants DEF Cpu
  <2>2. s[i] = s[i - 1] + f[i] /\ s[i - 1] \in Nat /\ f[i] \in Nat
    BY <1>1, <1>3
  <2>3. s[i] \in Nat /\ s[i - 1] <= s[i]
    BY <2>2
  <2>4. ASSUME NEW k \in 0 .. i PROVE s[k] <= s[i]
    <3>1. CASE k = i
      BY <2>3, <3>1
    <3>2. CASE k # i
      <4>1. k \in 0 .. i - 1 /\ k \in 0 .. CPUs
        BY <2>1, <3>2, Constants
      <4>2. s[k] <= s[i - 1] /\ s[k] \in Int
        BY <1>1, <1>3, <4>1
      <4>3. QED
        BY <2>2, <2>3, <4>2
    <3>3. QED
      BY <3>1, <3>2
  <2>5. QED
    BY <2>1, <2>3, <2>4
<1> HIDE DEF S
<1>4. \A n \in 0 .. CPUs : n \in S
  BY <1>2, <1>3, CpuInduction
<1>5. CPUs \in 0 .. CPUs
  BY Constants
<1>6. \A n \in 0 .. CPUs : s[n] \in Nat /\ s[n] <= s[CPUs]
  BY <1>4, <1>5 DEF S
<1>7. ASSUME NEW i \in Cpu PROVE f[i] <= s[CPUs] /\ f[i] <= s[i]
  <2>1. i \in 0 .. CPUs /\ i - 1 \in 0 .. CPUs
    BY Constants DEF Cpu
  <2>2. s[i] = s[i - 1] + f[i] /\ s[i] <= s[CPUs] /\ s[i] \in Nat /\ s[CPUs] \in Nat
    BY <1>1, <1>5, <1>6, <2>1
  <2>3. s[i - 1] \in Nat /\ f[i] \in Nat
    BY <1>6, <2>1
  <2>4. QED
    BY <2>2, <2>3
<1>8. QED
  BY <1>0, <1>1, <1>6, <1>7

LEMMA SumsZero ==
  ASSUME NEW f \in [Cpu -> {0}]
  PROVE  \A n \in 0 .. CPUs : Sums(f)[n] = 0
<1>0. f \in [Cpu -> Int]
  OBVIOUS
<1>1. PICK s : s = Sums(f) /\ s \in [0 .. CPUs -> Int] /\ s[0] = 0
                 /\ \A i \in Cpu : s[i] = s[i - 1] + f[i]
  BY <1>0, SumsDef
<1> DEFINE S == {n \in 0 .. CPUs : s[n] = 0}
<1>2. 0 \in S
  BY <1>1, Constants
<1>3. ASSUME NEW i \in Cpu, i - 1 \in S PROVE i \in S
  BY <1>1, <1>3, Constants DEF Cpu
<1> HIDE DEF S
<1>4. \A n \in 0 .. CPUs : n \in S
  BY <1>2, <1>3, CpuInduction
<1>5. QED
  BY <1>1, <1>4 DEF S
-----------------------------------------------------------------------------
(* Types.                                                                  *)

Ulong == 0 .. UlongRange - 1

Local == [idx : Rank, tries : Nat, flipped : BOOLEAN, cpu : Cpu, seq : Ulong, sum : Ulong, i : 0 .. Batch]

\* What OwnerInv leaves open of the types.  A reader holds a CPU exactly between its two
\* accesses, and has an index other than 0 only while it uses it.
Typed ==
  /\ completed \in Rank /\ c \in [Cpu -> [Rank -> Ulong]] /\ seq \in [Cpu -> Ulong]
  /\ rpc \in [Reader -> {"out", "picked", "counted", "in"}]
  /\ ridx \in [Reader -> Rank] /\ rcpu \in [Reader -> Cpu \cup {0}]
  /\ \A r \in Reader : rcpu[r] \in Cpu <=> rpc[r] = "counted"
  /\ status \in [Updater -> {"out", "call", "sync", "done"}]
  /\ loc \in [Proc -> Local]
  /\ old \in [Updater -> SUBSET InSection] /\ earlier \in [Updater -> SUBSET Updater]

LEMMA BlankLocal ==
  /\ Blank \in Local
  /\ \A x \in Rank, n \in Nat, b \in BOOLEAN :
        [Blank EXCEPT !.idx = x, !.tries = n, !.flipped = b] \in Local
<1>1. 0 \in Ulong /\ 1 \in Cpu /\ 0 \in 0 .. Batch /\ 0 \in Rank
  BY Constants, SrcuAssumption DEF Ulong, Cpu, Rank
<1>2. Blank \in Local
  BY <1>1 DEF Blank, Local
<1>3. ASSUME NEW x \in Rank, NEW n \in Nat, NEW b \in BOOLEAN
      PROVE  [Blank EXCEPT !.idx = x, !.tries = n, !.flipped = b] \in Local
  BY <1>1, Zenon DEF Blank, Local
<1>4. QED
  BY <1>2, <1>3, Zenon

LEMMA PlusUlong == ASSUME NEW a \in Int, NEW b \in Int PROVE Plus(a, b) \in Ulong
<1>1. a + b \in Int
  OBVIOUS
<1>2. QED
  BY <1>1, ModAdd DEF Plus, Ulong

LEMMA Ones == 1 \in Int /\ -1 \in Int
OBVIOUS

LEMMA UlongInt == Ulong \subseteq Nat /\ Ulong \subseteq Int
BY Constants DEF Ulong

LEMMA TypedReaders ==
  ASSUME Typed, NEW r \in Reader, ReadIdx(r) \/ ReaderStep(r) PROVE Typed'
<1> USE DEF Typed, InSection
<1>1. CASE ReadIdx(r)
  BY <1>1 DEF ReadIdx, RGoto, counters, driver, history
<1>2. ASSUME NEW d \in Cpu, Count(r, d) PROVE Typed'
  <2>11. c[d] \in [Rank -> Ulong] /\ ridx[r] \in Rank
    OBVIOUS
  <2>0. c[d][ridx[r]] \in Int
    BY <2>11, UlongInt, Zenon
  <2>1. Plus(c[d][ridx[r]], 1) \in Ulong
    BY <2>0, PlusUlong
  <2>2. c' \in [Cpu -> [Rank -> Ulong]]
    BY <1>2, <2>1 DEF Count
  <2>3. QED
    BY <1>2, <2>2 DEF Count, RGoto, driver, history
<1>3. CASE CountSeq(r)
  <2>1. rcpu[r] \in Cpu
    BY <1>3 DEF CountSeq
  <2>2. Plus(seq[rcpu[r]], 1) \in Ulong
    <3>1. seq[rcpu[r]] \in Int
      BY <2>1, UlongInt, Zenon
    <3>2. QED
      BY <3>1, PlusUlong
  <2>3. seq' \in [Cpu -> Ulong]
    BY <1>3, <2>2 DEF CountSeq
  <2>4. 0 \notin Cpu
    BY Constants DEF Cpu
  <2>5. QED
    BY <1>3, <2>3, <2>4 DEF CountSeq, RGoto, driver, history
<1>4. ASSUME NEW d \in Cpu, Unlock(r, d) PROVE Typed'
  <2>11. c[d] \in [Rank -> Ulong] /\ ridx[r] \in Rank
    OBVIOUS
  <2>0. c[d][ridx[r]] \in Int
    BY <2>11, UlongInt, Zenon
  <2>1. Plus(c[d][ridx[r]], -1) \in Ulong
    BY <2>0, Ones, PlusUlong
  <2>2. c' \in [Cpu -> [Rank -> Ulong]]
    BY <1>4, <2>1 DEF Unlock, UnlockRank
  <2>3. ridx' \in [Reader -> Rank]
    BY <1>4 DEF Unlock, Rank
  <2>4. /\ rpc[r] = "in" /\ rpc' = [rpc EXCEPT ![r] = "out"] /\ rcpu' = rcpu
        /\ old' = [u \in Updater |-> old[u] \ {r}]
    BY <1>4 DEF Unlock, RGoto
  <2>5. InSection' = InSection \ {r}
    BY <2>4
  <2>6. old' \in [Updater -> SUBSET InSection']
    BY <2>4, <2>5
  <2>7. QED
    BY <1>4, <2>2, <2>3, <2>4, <2>6 DEF Unlock, RGoto, driver, history
<1>5. QED
  BY <1>1, <1>2, <1>3, <1>4 DEF ReaderStep

LEMMA TypedUpdaters ==
  ASSUME Typed, NEW u \in Updater, CallSrcu(u) \/ SynchronizeSrcu(u) \/ Return(u) PROVE Typed'
<1> USE DEF Typed
<1>1. UNCHANGED <<counters, reader, loc>>
  BY Zenon DEF CallSrcu, SynchronizeSrcu, Return, driver
<1>2. /\ status' \in [Updater -> {"out", "call", "sync", "done"}]
      /\ old' \in [Updater -> SUBSET InSection] /\ earlier' \in [Updater -> SUBSET Updater]
  <2>1. CASE Return(u)
    BY <2>1 DEF Return, history
  <2>2. CASE CallSrcu(u) \/ SynchronizeSrcu(u)
    <3>1. PICK s \in {"call", "sync"} : Begin(u, s)
      BY <2>2, Zenon DEF CallSrcu, SynchronizeSrcu
    <3>2. QED
      BY <3>1 DEF Begin
  <2>3. QED
    BY <2>1, <2>2
<1>3. QED
  BY <1>1, <1>2 DEF counters, reader, InSection

\* A round of one of the three loops, except the last ...
LEMMA AddUpRound ==
  ASSUME Typed, OwnerInv, NEW p \in Proc, AddUp(p), NEW l, l = loc[p], l.cpu # CPUs
  PROVE  /\ pc[p] \in {"seq", "sum", "again"} /\ pc' = pc /\ seq' = seq
         /\ pc[p] = "seq" =>
              loc' = [loc EXCEPT ![p] = [l EXCEPT !.cpu = l.cpu + 1, !.sum = l.sum,
                                                  !.seq = Plus(l.seq, seq[l.cpu])]]
         /\ pc[p] = "sum" =>
              loc' = [loc EXCEPT ![p] = [l EXCEPT !.cpu = l.cpu + 1, !.sum = Plus(l.sum, c[l.cpu][l.idx]),
                                                  !.seq = l.seq]]
         /\ pc[p] = "again" =>
              loc' = [loc EXCEPT ![p] = [l EXCEPT !.cpu = l.cpu + 1, !.sum = l.sum,
                                                  !.seq = Plus(l.seq, -seq[l.cpu])]]
<1>1. loc \in [Proc -> Local] /\ pc \in [Proc -> Places]
  BY DEF Typed, OwnerInv
<1>2. pc[p] \in {"seq", "sum", "again"} /\ pc' = pc /\ seq' = seq
  BY <1>1 DEF AddUp, Summing
<1>3. CASE pc[p] = "seq"
  BY <1>1, <1>2, <1>3 DEF AddUp, Total
<1>4. CASE pc[p] = "sum"
  BY <1>1, <1>2, <1>4 DEF AddUp, Total
<1>5. CASE pc[p] = "again"
  BY <1>1, <1>2, <1>5 DEF AddUp, Total
<1>6. QED
  BY <1>2, <1>3, <1>4, <1>5

\* ... and the last rounds of each, with the result of the loop.
LEMMA SeqEnds ==
  ASSUME Typed, OwnerInv, NEW p \in Proc, AddUp(p), NEW l, l = loc[p], l.cpu = CPUs, pc[p] = "seq"
  PROVE  /\ pc' = [pc EXCEPT ![p] = "sum"] /\ seq' = seq
         /\ loc' = [loc EXCEPT ![p] = [l EXCEPT !.cpu = 1, !.sum = l.sum, !.seq = Plus(l.seq, seq[l.cpu])]]
<1>1. loc \in [Proc -> Local] /\ pc \in [Proc -> Places]
  BY DEF Typed, OwnerInv
<1>2. QED
  BY <1>1 DEF AddUp, Goto, Total, AfterLoop

SumOver(p, l, g) ==
  /\ g = 0 => /\ pc' = [pc EXCEPT ![p] = "again"] /\ seq' = seq
              /\ loc' = [loc EXCEPT ![p] = [l EXCEPT !.cpu = 1, !.sum = 0, !.seq = l.seq]]
  /\ g # 0 => /\ pc' = [pc EXCEPT ![p] = "fail"] /\ seq' = [d \in Cpu |-> 0]
              /\ loc' = [loc EXCEPT ![p] = [l EXCEPT !.cpu = 1, !.sum = 0, !.seq = 0]]

LEMMA SumEnds ==
  ASSUME Typed, OwnerInv, NEW p \in Proc, AddUp(p), NEW l, l = loc[p], l.cpu = CPUs, pc[p] = "sum",
         NEW g, g = Plus(l.sum, c[l.cpu][l.idx])
  PROVE  SumOver(p, l, g)
<1> USE DEF SumOver
<1>1. loc \in [Proc -> Local] /\ pc \in [Proc -> Places]
  BY DEF Typed, OwnerInv
<1>2. CASE g = 0
  BY <1>1, <1>2 DEF AddUp, Goto, Total, AfterLoop
<1>3. CASE g # 0
  BY <1>1, <1>3 DEF AddUp, Goto, Total, AfterLoop
<1>4. QED
  BY <1>2, <1>3

LEMMA AgainEnds ==
  ASSUME Typed, OwnerInv, NEW p \in Proc, AddUp(p), NEW l, l = loc[p], l.cpu = CPUs, pc[p] = "again"
  PROVE  /\ pc' = [pc EXCEPT ![p] = IF Plus(l.seq, -seq[l.cpu]) = 0 THEN "pass" ELSE "fail"]
         /\ seq' = [d \in Cpu |-> 0]
         /\ loc' = [loc EXCEPT ![p] = [l EXCEPT !.cpu = 1, !.sum = 0, !.seq = 0]]
<1>1. loc \in [Proc -> Local] /\ pc \in [Proc -> Places]
  BY DEF Typed, OwnerInv
<1>2. QED
  BY <1>1 DEF AddUp, Goto, Total, AfterLoop, SeqStable

\* A driver that looks at the counters.
LEMMA TypedAddUp == ASSUME Typed, OwnerInv, NEW p \in Proc, AddUp(p) PROVE Typed'
<1> USE DEF Typed
<1>1. UNCHANGED <<completed, c, reader, status, history>>
  BY DEF AddUp
<1>2. PICK l : l = loc[p] /\ l \in Local
  OBVIOUS
<1>3. /\ l.cpu \in Cpu /\ l.seq \in Int /\ l.sum \in Int /\ l.idx \in Rank
      /\ seq[l.cpu] \in Int /\ -seq[l.cpu] \in Int /\ c[l.cpu][l.idx] \in Int
  <2>1. l.cpu \in Cpu /\ l.seq \in Int /\ l.sum \in Int /\ l.idx \in Rank
    BY <1>2, UlongInt, Zenon DEF Local
  <2>2. seq[l.cpu] \in Ulong /\ c[l.cpu] \in [Rank -> Ulong]
    BY <2>1
  <2>3. c[l.cpu][l.idx] \in Ulong
    BY <2>1, <2>2
  <2>4. \A n \in Ulong : n \in Int /\ -n \in Int
    BY UlongInt
  <2>5. QED
    BY <2>1, <2>2, <2>3, <2>4
<1>4. \A d \in Cpu, g \in Ulong, h \in Ulong : [l EXCEPT !.cpu = d, !.sum = g, !.seq = h] \in Local
  BY <1>2, Zenon DEF Local
<1>5. /\ Plus(l.seq, seq[l.cpu]) \in Ulong /\ Plus(l.sum, c[l.cpu][l.idx]) \in Ulong
      /\ Plus(l.seq, -seq[l.cpu]) \in Ulong /\ 0 \in Ulong /\ 1 \in Cpu
      /\ l.seq \in Ulong /\ l.sum \in Ulong
  <2>1. 0 \in Ulong /\ 1 \in Cpu
    BY Constants DEF Ulong, Cpu
  <2>2. l.seq \in Ulong /\ l.sum \in Ulong
    BY <1>2 DEF Local
  <2>3. QED
    BY <1>3, <2>1, <2>2, PlusUlong
<1> HIDE DEF Typed
<1>6. \E n \in Local : loc' = [loc EXCEPT ![p] = n]
  <2>1. CASE l.cpu # CPUs
    <3>1. l.cpu + 1 \in Cpu
      BY <1>3, <2>1, Constants DEF Cpu
    <3>2. \E g \in Ulong, h \in Ulong :
             loc' = [loc EXCEPT ![p] = [l EXCEPT !.cpu = l.cpu + 1, !.sum = g, !.seq = h]]
      <4>1. /\ pc[p] \in {"seq", "sum", "again"}
            /\ pc[p] = "seq" =>
                 loc' = [loc EXCEPT ![p] = [l EXCEPT !.cpu = l.cpu + 1, !.sum = l.sum,
                                                     !.seq = Plus(l.seq, seq[l.cpu])]]
            /\ pc[p] = "sum" =>
                 loc' = [loc EXCEPT ![p] = [l EXCEPT !.cpu = l.cpu + 1, !.sum = Plus(l.sum, c[l.cpu][l.idx]),
                                                     !.seq = l.seq]]
            /\ pc[p] = "again" =>
                 loc' = [loc EXCEPT ![p] = [l EXCEPT !.cpu = l.cpu + 1, !.sum = l.sum,
                                                     !.seq = Plus(l.seq, -seq[l.cpu])]]
        BY <1>2, <2>1, AddUpRound, Zenon
      <4>2. QED
        BY <1>5, <4>1, Zenon
    <3>3. QED
      BY <1>4, <3>1, <3>2, Zenon
  <2>2. CASE l.cpu = CPUs
    <3>1. \E g \in Ulong, h \in Ulong :
             loc' = [loc EXCEPT ![p] = [l EXCEPT !.cpu = 1, !.sum = g, !.seq = h]]
      <4>1. CASE pc[p] = "seq"
        <5>1. loc' = [loc EXCEPT ![p] = [l EXCEPT !.cpu = 1, !.sum = l.sum, !.seq = Plus(l.seq, seq[l.cpu])]]
          BY <1>2, <2>2, <4>1, SeqEnds, Zenon
        <5>2. QED
          BY <1>5, <5>1, Zenon
      <4>2. CASE pc[p] = "sum"
        <5>1. \/ loc' = [loc EXCEPT ![p] = [l EXCEPT !.cpu = 1, !.sum = 0, !.seq = l.seq]]
              \/ loc' = [loc EXCEPT ![p] = [l EXCEPT !.cpu = 1, !.sum = 0, !.seq = 0]]
          BY <1>2, <2>2, <4>2, SumEnds, Zenon DEF SumOver
        <5>2. QED
          BY <1>5, <5>1, Zenon
      <4>3. CASE pc[p] = "again"
        <5>1. loc' = [loc EXCEPT ![p] = [l EXCEPT !.cpu = 1, !.sum = 0, !.seq = 0]]
          BY <1>2, <2>2, <4>3, AgainEnds, Zenon
        <5>2. QED
          BY <1>5, <5>1, Zenon
      <4>4. QED
        BY <4>1, <4>2, <4>3, Zenon DEF AddUp, Summing
    <3>2. QED
      BY <1>4, <1>5, <3>1, Zenon
  <2>3. QED
    BY <2>1, <2>2
<1>7. seq' = seq \/ seq' = [d \in Cpu |-> 0]
  BY DEF AddUp
<1>8. loc' \in [Proc -> Local]
  BY <1>6 DEF Typed
<1>9. seq' \in [Cpu -> Ulong]
  BY <1>7, Constants DEF Ulong, Typed
<1>10. QED
  BY <1>1, <1>8, <1>9 DEF reader, history, InSection, Typed

\* A driver between two looks.
LEMMA TypedAdvance ==
  ASSUME Typed, NEW p \in Proc, AdvanceBatches(p) \/ CheckFails(p) \/ CheckSucceeds(p)
  PROVE  Typed'
<1> USE DEF Typed
<1>1. UNCHANGED <<c, seq, reader, status, history>>
  BY Zenon DEF AdvanceBatches, CheckFails, CheckSucceeds, counters
<1>2. completed' \in Rank
  <2>1. completed' = completed \/ completed' = 1 - completed
    BY Zenon DEF AdvanceBatches, CheckFails, CheckSucceeds, counters
  <2>2. QED
    BY <2>1 DEF Rank
<1>3. loc[p].idx \in Rank /\ loc[p].tries \in Nat /\ loc[p].flipped \in BOOLEAN
  BY DEF Local
<1>4. TryCount(p) \in Nat /\ 1 - completed \in Rank /\ 1 - loc[p].idx \in Rank
  BY <1>3, SrcuAssumption DEF TryCount, Rank
<1>5. LeaveAdvance(p) \/ \E x \in Rank, n \in Nat, b \in BOOLEAN : Check(p, x, n, b)
  <2>1. CASE AdvanceBatches(p)
    BY <1>4, <2>1, Zenon DEF AdvanceBatches
  <2>2. CASE CheckFails(p)
    <3>1. loc[p].tries > 1 => loc[p].tries - 1 \in Nat
      BY <1>3
    <3>2. QED
      BY <1>3, <2>2, <3>1 DEF CheckFails
  <2>3. CASE CheckSucceeds(p)
    <3>1. (IF TryCount(p) < 2 THEN 2 ELSE TryCount(p)) \in Nat
      BY <1>4
    <3>2. QED
      BY <1>4, <2>3, <3>1, Zenon DEF CheckSucceeds
  <2>4. QED
    BY <2>1, <2>2, <2>3
<1>6. loc' \in [Proc -> Local]
  <2>1. CASE LeaveAdvance(p)
    BY <2>1, BlankLocal, Zenon DEF LeaveAdvance
  <2>2. ASSUME NEW x \in Rank, NEW n \in Nat, NEW b \in BOOLEAN, Check(p, x, n, b)
        PROVE  loc' \in [Proc -> Local]
    <3>1. [Blank EXCEPT !.idx = x, !.tries = n, !.flipped = b] \in Local
      BY BlankLocal, Zenon
    <3>2. QED
      BY <2>2, <3>1 DEF Check
  <2>3. QED
    BY <1>5, <2>1, <2>2
<1>7. QED
  BY <1>1, <1>2, <1>6 DEF reader, history, InSection

\* A driver outside srcu_advance_batches().
LEMMA TypedRest ==
  ASSUME Typed, OwnerInv, \/ ProcessSrcu \/ InvokeCallbacks \/ \E u \in Updater : Claim(u)
                          \/ \E p \in Proc : Reschedule(p) \/ RescheduleLocked(p)
  PROVE  Typed'
<1> USE DEF Typed
<1>1. UNCHANGED <<counters, reader, old>>
  BY Zenon DEF ProcessSrcu, InvokeCallbacks, Claim, Reschedule, RescheduleLocked, history
<1>2. batch_done # <<>> => Head(batch_done) \in Updater
  BY HeadTailProperties DEF OwnerInv, Batches
<1>3. status' \in [Updater -> {"out", "call", "sync", "done"}] /\ earlier' \in [Updater -> SUBSET Updater]
  <2>1. UNCHANGED <<status, earlier>> \/ (batch_done # <<>> /\ Invoked(Head(batch_done)))
    <3>1. CASE InvokeCallbacks
      BY <3>1 DEF InvokeCallbacks
    <3>2. CASE \E u \in Updater : Claim(u)
      BY <3>2 DEF Claim
    <3>3. QED
      BY <3>1, <3>2, Zenon DEF ProcessSrcu, Reschedule, RescheduleLocked, history
  <2>2. QED
    BY <1>2, <2>1 DEF Invoked
<1>4. loc' \in [Proc -> Local]
  <2>1. CASE InvokeCallbacks
    <3>1. Work \in Proc /\ loc[Work] \in Local
      BY DEF Proc
    <3>2. loc[Work].i < Batch => loc[Work].i + 1 \in 0 .. Batch
      BY <3>1, SrcuAssumption DEF Local
    <3>3. loc[Work].i < Batch => [loc[Work] EXCEPT !.i = @ + 1] \in Local
      BY <3>1, <3>2, Zenon DEF Local
    <3>4. CASE loc[Work].i < Batch /\ batch_done # <<>>
      BY <2>1, <3>1, <3>3, <3>4, Zenon DEF InvokeCallbacks
    <3>5. CASE ~ (loc[Work].i < Batch /\ batch_done # <<>>)
      <4>1. loc' = [loc EXCEPT ![Work] = Blank]
        BY <2>1, <3>5 DEF InvokeCallbacks
      <4>2. QED
        BY <4>1, BlankLocal, Zenon
    <3>6. QED
      BY <3>4, <3>5
  <2>2. QED
    BY <2>1, Zenon DEF ProcessSrcu, Claim, Reschedule, RescheduleLocked
<1>5. QED
  BY <1>1, <1>3, <1>4 DEF counters, reader, InSection

LEMMA TypedStep == ASSUME Typed, OwnerInv, [Next]_vars PROVE Typed'
<1>1. CASE UNCHANGED vars
  BY <1>1 DEF vars, counters, reader, driver, history, Typed, InSection
<1>2. CASE Next
  BY <1>2, TypedReaders, TypedUpdaters, TypedAddUp, TypedAdvance, TypedRest
  DEF Next, Driving, Drive
<1>3. QED
  BY <1>1, <1>2

LEMMA TypedInit == Init => Typed
<1> SUFFICES ASSUME Init PROVE Typed
  OBVIOUS
<1>1. 0 \in Ulong /\ 0 \in Rank /\ 0 \notin Cpu
  BY Constants DEF Ulong, Rank, Cpu
<1>2. QED
  BY <1>1, BlankLocal, Zenon DEF Init, Typed, InSection

LEMMA TypedOK == ASSUME Typed, OwnerInv PROVE TypeOK
BY DEF Typed, OwnerInv, Batches, Places, TypeOK, Local, Ulong, InSection
-----------------------------------------------------------------------------
(* Who is counted where.                                                   *)

Row(x) == [d \in Cpu |-> c[d][x]]

Pending(x) == {r \in Reader : rpc[r] = "picked" /\ ridx[r] = x}
Late(x)    == {r \in Reader : rpc[r] \in {"picked", "counted"} /\ ridx[r] = x}
Inside(x)  == {r \in Reader : rpc[r] = "in" /\ ridx[r] = x}
Active(x)  == {r \in Reader : rpc[r] \in {"counted", "in"} /\ ridx[r] = x}

BalanceInv == \A x \in Rank : Sums(Row(x))[CPUs] % UlongRange = Cardinality(Active(x))

\* Sets of readers are finite, and smaller than what a counter can hold.
LEMMA Readers ==
  ASSUME NEW S \in SUBSET Reader
  PROVE  /\ IsFiniteSet(S) /\ Cardinality(S) \in Nat /\ Cardinality(S) <= Cardinality(Reader)
         /\ Cardinality(S) < UlongRange
         /\ \A r \in Reader \ S : Cardinality(S \cup {r}) = Cardinality(S) + 1
         /\ \A r \in S : Cardinality(S \ {r}) = Cardinality(S) - 1
<1>1. IsFiniteSet(S) /\ Cardinality(S) <= Cardinality(Reader)
  BY SrcuAssumption, FS_Subset
<1>2. Cardinality(S) \in Nat
  BY <1>1, FS_CardinalityType
<1>3. \A r \in Reader \ S : Cardinality(S \cup {r}) = Cardinality(S) + 1
  BY <1>1, FS_AddElement
<1>4. \A r \in S : Cardinality(S \ {r}) = Cardinality(S) - 1
  BY <1>1, FS_RemoveElement
<1>5. QED
  BY <1>1, <1>2, <1>3, <1>4, Constants

LEMMA ReadIdxSets ==
  ASSUME Typed, NEW r \in Reader, ReadIdx(r), NEW x \in Rank
  PROVE  /\ Inside(x)' = Inside(x) /\ Active(x)' = Active(x) /\ Row(x)' = Row(x)
         /\ x # completed => Pending(x)' = Pending(x) /\ Late(x)' = Late(x)
<1>1. /\ rpc[r] = "out" /\ rpc' = [rpc EXCEPT ![r] = "picked"]
      /\ ridx' = [ridx EXCEPT ![r] = completed] /\ c' = c
  BY DEF ReadIdx, RGoto, counters
<1>2. QED
  BY <1>1 DEF Typed, Inside, Active, Pending, Late, Row

LEMMA CountSets ==
  ASSUME Typed, NEW r \in Reader, NEW d \in Cpu, Count(r, d), NEW x \in Rank
  PROVE  /\ Inside(x)' = Inside(x) /\ Late(x)' = Late(x)
         /\ x # ridx[r] => /\ Active(x)' = Active(x) /\ Pending(x)' = Pending(x)
                           /\ Row(x)' = Row(x)
         /\ x = ridx[r] => /\ r \notin Active(x) /\ Active(x)' = Active(x) \cup {r}
                           /\ r \in Pending(x) /\ Pending(x)' = Pending(x) \ {r}
                           /\ Row(x)' = [Row(x) EXCEPT ![d] = Plus(Row(x)[d], 1)]
<1>1. /\ rpc[r] = "picked" /\ rpc' = [rpc EXCEPT ![r] = "counted"] /\ ridx' = ridx
      /\ c' = [c EXCEPT ![d][ridx[r]] = Plus(c[d][ridx[r]], 1)]
  BY DEF Count, RGoto
<1>2. /\ Inside(x)' = Inside(x) /\ Late(x)' = Late(x)
      /\ x # ridx[r] => Active(x)' = Active(x) /\ Pending(x)' = Pending(x)
      /\ x = ridx[r] => /\ r \notin Active(x) /\ Active(x)' = Active(x) \cup {r}
                        /\ r \in Pending(x) /\ Pending(x)' = Pending(x) \ {r}
  BY <1>1 DEF Typed, Inside, Active, Pending, Late
<1>3. x # ridx[r] => Row(x)' = Row(x)
  BY <1>1 DEF Typed, Row
<1>4. x = ridx[r] => Row(x)' = [Row(x) EXCEPT ![d] = Plus(Row(x)[d], 1)]
  BY <1>1, Zenon DEF Typed, Row
<1>5. QED
  BY <1>2, <1>3, <1>4

LEMMA CountSeqSets ==
  ASSUME Typed, NEW r \in Reader, CountSeq(r), NEW x \in Rank
  PROVE  /\ Active(x)' = Active(x) /\ Pending(x)' = Pending(x) /\ Row(x)' = Row(x)
         /\ x # ridx[r] => Inside(x)' = Inside(x) /\ Late(x)' = Late(x)
         /\ x = ridx[r] => /\ r \notin Inside(x) /\ Inside(x)' = Inside(x) \cup {r}
                           /\ r \in Late(x) /\ Late(x)' = Late(x) \ {r}
<1>1. rpc[r] = "counted" /\ rpc' = [rpc EXCEPT ![r] = "in"] /\ ridx' = ridx /\ c' = c
  BY DEF CountSeq, RGoto
<1>2. QED
  BY <1>1 DEF Typed, Inside, Active, Pending, Late, Row

LEMMA UnlockSets ==
  ASSUME Typed, NEW r \in Reader, NEW d \in Cpu, Unlock(r, d), NEW x \in Rank
  PROVE  /\ Pending(x)' = Pending(x) /\ Late(x)' = Late(x)
         /\ x # ridx[r] => /\ Active(x)' = Active(x) /\ Inside(x)' = Inside(x)
                           /\ Row(x)' = Row(x)
         /\ x = ridx[r] => /\ r \in Active(x) /\ Active(x)' = Active(x) \ {r}
                           /\ r \in Inside(x) /\ Inside(x)' = Inside(x) \ {r}
                           /\ Row(x)' = [Row(x) EXCEPT ![d] = Plus(Row(x)[d], -1)]
<1>1. /\ rpc[r] = "in" /\ rpc' = [rpc EXCEPT ![r] = "out"] /\ ridx' = [ridx EXCEPT ![r] = 0]
      /\ c' = [c EXCEPT ![d][ridx[r]] = Plus(c[d][ridx[r]], -1)]
  BY DEF Unlock, UnlockRank, RGoto
<1>2. /\ Pending(x)' = Pending(x) /\ Late(x)' = Late(x)
      /\ x # ridx[r] => Active(x)' = Active(x) /\ Inside(x)' = Inside(x)
      /\ x = ridx[r] => /\ r \in Active(x) /\ Active(x)' = Active(x) \ {r}
                        /\ r \in Inside(x) /\ Inside(x)' = Inside(x) \ {r}
  BY <1>1 DEF Typed, Inside, Active, Pending, Late
<1>3. x # ridx[r] => Row(x)' = Row(x)
  BY <1>1 DEF Typed, Row
<1>4. x = ridx[r] => Row(x)' = [Row(x) EXCEPT ![d] = Plus(Row(x)[d], -1)]
  BY <1>1, Zenon DEF Typed, Row
<1>5. QED
  BY <1>2, <1>3, <1>4

LEMMA Quotient == ASSUME NEW z \in Int PROVE \E q \in Int : z = UlongRange * q + (z % UlongRange)
BY Constants

\* A counter that wraps moves the sums from its CPU on by as much, up to wrapping.
Moved(f, g, d, v) ==
  /\ f \in [Cpu -> Ulong] /\ g \in [Cpu -> Ulong]
  /\ g[d] = Plus(f[d], v) /\ \A i \in Cpu : i # d => g[i] = f[i]

Shifted(f, g, d, w) == \A n \in 0 .. CPUs : Sums(g)[n] = Sums(f)[n] + (IF n >= d THEN w ELSE 0)

LEMMA RowMoved ==
  ASSUME NEW f \in [Cpu -> Ulong], NEW d \in Cpu, NEW v \in Int,
         NEW g, g = [f EXCEPT ![d] = Plus(f[d], v)]
  PROVE  Moved(f, g, d, v)
<1>1. f[d] \in Int
  BY UlongInt, Zenon
<1>2. Plus(f[d], v) \in Ulong
  BY <1>1, PlusUlong
<1>3. QED
  BY <1>2 DEF Moved

LEMMA RowMoves ==
  ASSUME NEW f, NEW g, NEW d \in Cpu, NEW v \in Int, Moved(f, g, d, v)
  PROVE  /\ f \in [Cpu -> Int] /\ g \in [Cpu -> Int]
         /\ \E q \in Int : Shifted(f, g, d, v + UlongRange * q)
<1> DEFINE R == UlongRange
<1>0. R \in Nat /\ R > 0
  BY Constants
<1>1. f \in [Cpu -> Int] /\ f[d] \in Int
  BY UlongInt, Zenon DEF Moved
<1>2. g[d] = Plus(f[d], v) /\ \A i \in Cpu : i # d => g[i] = f[i]
  BY DEF Moved
<1>3. g \in [Cpu -> Int]
  BY UlongInt, Zenon DEF Moved
<1>4. PICK z \in Int : z = f[d] + v
  BY <1>1
<1>5. PICK q \in Int : z = R * q + (z % R)
  BY Quotient
<1>6. g[d] - f[d] = v + R * (-q)
  <2>1. g[d] = z % R
    BY <1>2, <1>4 DEF Plus
  <2>2. PICK w \in Int : w = z % R
    BY <1>0
  <2> HIDE DEF R
  <2>3. QED
    BY <1>0, <1>1, <1>4, <1>5, <2>1, <2>2
<1>7. Shifted(f, g, d, g[d] - f[d])
  BY <1>1, <1>2, <1>3, SumsChange DEF Shifted
<1>8. -q \in Int
  OBVIOUS
<1>9. QED
  BY <1>1, <1>3, <1>6, <1>7, <1>8

\* Equal up to a multiple.
LEMMA ModSame ==
  ASSUME NEW a \in Int, NEW q \in Int PROVE (a + UlongRange * q) % UlongRange = a % UlongRange
<1> DEFINE R == UlongRange
<1>0. R \in Nat /\ R > 0
  BY Constants
<1> HIDE DEF R
<1>1. PICK p \in Int : a = R * p + (a % R) /\ a % R \in 0 .. R - 1
  BY <1>0
<1>2. PICK s \in 0 .. R - 1 : s = a % R
  BY <1>1
<1>3. a + R * q = R * (p + q) + s
  BY <1>0, <1>1, <1>2
<1>4. \A z \in Int : (R * z + s) % R = s
  BY <1>0
<1>5. p + q \in Int
  OBVIOUS
<1>6. QED
  BY <1>2, <1>3, <1>4, <1>5 DEF R

LEMMA RowType == ASSUME Typed PROVE \A x \in Rank : Row(x) \in [Cpu -> Ulong]
BY DEF Typed, Row

\* One reader more, or less.
LEMMA RowCounts ==
  ASSUME NEW f, NEW g, NEW d \in Cpu, NEW v \in Int, Moved(f, g, d, v),
         NEW n \in Int, Sums(f)[CPUs] % UlongRange = n, n + v \in 0 .. UlongRange - 1
  PROVE  Sums(g)[CPUs] % UlongRange = n + v
<1>2. PICK q \in Int : Shifted(f, g, d, v + UlongRange * q)
  BY RowMoves, Zenon
<1>3. CPUs \in 0 .. CPUs /\ CPUs >= d
  BY Constants DEF Cpu
<1>4. f \in [Cpu -> Int]
  BY RowMoves, Zenon
<1>5. PICK a \in Int : a = Sums(f)[CPUs]
  BY <1>3, <1>4, SumsDef
<1>6. Sums(g)[CPUs] = (a + v) + UlongRange * q
  BY <1>2, <1>3, <1>5, Constants DEF Shifted
<1>7. a + v \in Int /\ ((a % UlongRange) + v) % UlongRange = (a + v) % UlongRange
  BY ModAdd
<1>8. ((a + v) + UlongRange * q) % UlongRange = (a + v) % UlongRange
  BY <1>7, ModSame
<1>9. (n + v) % UlongRange = n + v
  BY ModSmall
<1>10. QED
  BY <1>5, <1>6, <1>7, <1>8, <1>9

LEMMA BalanceStep == ASSUME Typed, OwnerInv, BalanceInv, [Next]_vars PROVE BalanceInv'
<1> SUFFICES ASSUME NEW x \in Rank
             PROVE  Sums(Row(x)')[CPUs] % UlongRange = Cardinality(Active(x)')
  BY DEF BalanceInv
<1>1. PICK n \in Nat : n = Cardinality(Active(x)) /\ n < UlongRange
  <2>1. Active(x) \in SUBSET Reader
    BY DEF Active
  <2>2. QED
    BY <2>1, Readers
<1>2. Sums(Row(x))[CPUs] % UlongRange = n
  BY <1>1 DEF BalanceInv
<1>3. CASE Row(x)' = Row(x) /\ Active(x)' = Active(x)
  BY <1>1, <1>2, <1>3
<1>4. ASSUME NEW r \in Reader, NEW d \in Cpu, Count(r, d), x = ridx[r]
      PROVE  Sums(Row(x)')[CPUs] % UlongRange = Cardinality(Active(x)')
  <2>1. /\ r \notin Active(x) /\ Active(x)' = Active(x) \cup {r}
        /\ Row(x)' = [Row(x) EXCEPT ![d] = Plus(Row(x)[d], 1)]
    BY <1>4, CountSets
  <2>2. Active(x) \in SUBSET Reader /\ Active(x) \cup {r} \in SUBSET Reader
    BY DEF Active
  <2>3. Cardinality(Active(x) \cup {r}) = n + 1 /\ n + 1 < UlongRange
    BY <1>1, <2>1, <2>2, Readers
  <2>4. n + 1 \in 0 .. UlongRange - 1
    BY <2>3, Constants
  <2>5. Row(x) \in [Cpu -> Ulong]
    BY RowType
  <2>6. Moved(Row(x), Row(x)', d, 1)
    <3>1. PICK f \in [Cpu -> Ulong] : f = Row(x)
      BY <2>5
    <3>2. Row(x)' = [f EXCEPT ![d] = Plus(f[d], 1)] /\ 1 \in Int
      BY <2>1, <3>1
    <3>3. Moved(f, Row(x)', d, 1)
      BY <3>2, RowMoved, Zenon
    <3>4. QED
      BY <3>1, <3>3
  <2>7. Sums(Row(x)')[CPUs] % UlongRange = n + 1
    BY <1>2, <2>4, <2>6, RowCounts
  <2>8. QED
    BY <2>1, <2>3, <2>7
<1>5. ASSUME NEW r \in Reader, NEW d \in Cpu, Unlock(r, d), x = ridx[r]
      PROVE  Sums(Row(x)')[CPUs] % UlongRange = Cardinality(Active(x)')
  <2>1. /\ r \in Active(x) /\ Active(x)' = Active(x) \ {r}
        /\ Row(x)' = [Row(x) EXCEPT ![d] = Plus(Row(x)[d], -1)]
    BY <1>5, UnlockSets
  <2>2. Active(x) \in SUBSET Reader /\ Active(x) \ {r} \in SUBSET Reader
    BY DEF Active
  <2>3. Cardinality(Active(x) \ {r}) = n - 1 /\ n - 1 \in Nat
    BY <1>1, <2>1, <2>2, Readers
  <2>4. n + -1 \in 0 .. UlongRange - 1 /\ n + -1 = n - 1 /\ -1 \in Int
    BY <1>1, <2>3, Constants
  <2>5. Row(x) \in [Cpu -> Ulong]
    BY RowType
  <2>6. Moved(Row(x), Row(x)', d, -1)
    BY <2>1, <2>5, RowMoved, <2>4, Zenon
  <2>7. Sums(Row(x)')[CPUs] % UlongRange = n + -1
    BY <1>2, <2>4, <2>6, RowCounts
  <2>8. QED
    BY <2>1, <2>3, <2>4, <2>7
<1>6. ASSUME NEW r \in Reader, ReadIdx(r) \/ ReaderStep(r)
      PROVE  Sums(Row(x)')[CPUs] % UlongRange = Cardinality(Active(x)')
  BY <1>3, <1>4, <1>5, <1>6, ReadIdxSets, CountSets, CountSeqSets, UnlockSets, Zenon DEF ReaderStep
<1>7. CASE UNCHANGED <<c, reader>>
  BY <1>3, <1>7, Zenon DEF reader, Row, Active
<1>8. CASE Driving
  <2>1. UNCHANGED <<c, reader>>
    BY <1>8, Zenon DEF Driving, Drive, ProcessSrcu, InvokeCallbacks, Claim, AdvanceBatches, AddUp,
                CheckFails, CheckSucceeds, Reschedule, RescheduleLocked, counters
  <2>2. QED
    BY <1>7, <2>1
<1>9. ASSUME NEW u \in Updater, CallSrcu(u) \/ SynchronizeSrcu(u) \/ Return(u)
      PROVE  UNCHANGED <<c, reader>>
  BY <1>9, Zenon DEF CallSrcu, SynchronizeSrcu, Return, counters
<1>10. CASE UNCHANGED vars
  BY <1>7, <1>10 DEF vars, counters
<1>11. QED
  BY <1>6, <1>7, <1>8, <1>9, <1>10 DEF Next

LEMMA BalanceInit == Init => BalanceInv
<1> SUFFICES ASSUME Init, NEW x \in Rank
             PROVE  Sums(Row(x))[CPUs] % UlongRange = Cardinality(Active(x))
  BY DEF BalanceInv
<1>1. Row(x) \in [Cpu -> {0}] /\ Active(x) = {}
  BY DEF Init, Row, Active
<1>2. CPUs \in 0 .. CPUs /\ 0 \in 0 .. UlongRange - 1
  BY Constants
<1>3. Sums(Row(x))[CPUs] = 0
  BY <1>1, <1>2, SumsZero
<1>4. QED
  BY <1>1, <1>2, <1>3, FS_EmptySet, ModSmall

BalancedInv == OwnerInv /\ Typed /\ BalanceInv

LEMMA BalancedSpec == Spec => []BalancedInv
<1>1. Init => BalancedInv
  BY OwnerInit, TypedInit, BalanceInit DEF BalancedInv
<1>2. BalancedInv /\ [Next]_vars => BalancedInv'
  BY OwnerInvariant, TypedStep, BalanceStep DEF BalancedInv
<1>3. QED
  BY <1>1, <1>2, PTL DEF Spec

\* The counters of a rank, each of which may have wrapped, add up to the number of the
\* readers that use it, for any number of readers and CPUs that an unsigned long can
\* count, and every variable keeps its type (srcu.c:264-289, 297-321).
THEOREM ReadersBalanced == Spec => []Balanced
<1>1. BalancedInv => Balanced
  BY TypedOK DEF BalancedInv, BalanceInv, Balanced, Row, Active
<1>2. QED
  BY <1>1, BalancedSpec, PTL
-----------------------------------------------------------------------------
(* The four batches are one queue.                                         *)

Waiting == batch_done \o (batch_check1 \o (batch_check0 \o batch_queue))

\* Every rcu_head that is in use is queued once, behind the callbacks it waits for.
Queued(w) ==
  /\ w \in Seq(Updater)
  /\ \A i, j \in 1 .. Len(w) : w[i] = w[j] => i = j
  /\ \A u \in Updater : status[u] \in {"call", "sync"} <=> \E i \in 1 .. Len(w) : w[i] = u
  /\ \A i \in 1 .. Len(w) : \A v \in earlier[w[i]] : \E j \in 1 .. Len(w) : j < i /\ w[j] = v
  /\ \A u \in Updater : status[u] \in {"out", "done"} => earlier[u] = {}

QueueInv == Queued(Waiting)

LEMMA Concat ==
  ASSUME NEW s \in Seq(Updater), NEW t \in Seq(Updater)
  PROVE  s \o t \in Seq(Updater) /\ <<>> \in Seq(Updater) /\ s \o <<>> = s /\ <<>> \o s = s
BY ConcatProperties, ConcatEmptySeq, EmptySeq

LEMMA ConcatThree ==
  ASSUME NEW s \in Seq(Updater), NEW t \in Seq(Updater), NEW v \in Seq(Updater)
  PROVE  (s \o t) \o v = s \o (t \o v)
BY ConcatAssociative

LEMMA ConcatAppend ==
  ASSUME NEW s \in Seq(Updater), NEW t \in Seq(Updater), NEW u \in Updater
  PROVE  Append(s \o t, u) = s \o Append(t, u)
<1>1. <<u>> \in Seq(Updater) /\ s \o t \in Seq(Updater)
  BY ConcatProperties
<1>2. Append(s \o t, u) = (s \o t) \o <<u>> /\ Append(t, u) = t \o <<u>>
  BY <1>1, AppendIsConcat
<1>3. QED
  BY <1>1, <1>2, ConcatAssociative

LEMMA ConcatTail ==
  ASSUME NEW s \in Seq(Updater), NEW t \in Seq(Updater), s # <<>>
  PROVE  /\ s \o t # <<>> /\ Tail(s) \in Seq(Updater)
         /\ Tail(s \o t) = Tail(s) \o t /\ Head(s \o t) = Head(s)
<1>1. s \o t # <<>>
  BY ConcatEqualIffEmpty
<1>2. /\ Tail(s) \in Seq(Updater) /\ Len(Tail(s)) = Len(s) - 1
      /\ \A i \in 1 .. Len(Tail(s)) : Tail(s)[i] = s[i + 1]
  BY HeadTailProperties
<1>3. PICK m \in Nat, n \in Nat : m = Len(s) /\ n = Len(t) /\ m # 0
  BY LenProperties, EmptySeq
<1>4. PICK st \in Seq(Updater) : st = s \o t
  BY ConcatProperties, Zenon
<1>5. Len(st) = m + n /\ \A i \in 1 .. m + n : st[i] = IF i <= m THEN s[i] ELSE t[i - m]
  BY <1>3, <1>4, ConcatProperties
<1>6. PICK ta \in Seq(Updater) : ta = Tail(st)
  BY <1>1, <1>4, HeadTailProperties, Zenon
<1>7. Len(ta) = m + n - 1 /\ \A i \in 1 .. m + n - 1 : ta[i] = st[i + 1]
  BY <1>1, <1>3, <1>4, <1>5, <1>6, HeadTailProperties
<1>8. PICK tb \in Seq(Updater) : tb = Tail(s) \o t
  BY <1>2, ConcatProperties, Zenon
<1>9. PICK r \in Seq(Updater) : r = Tail(s) /\ Len(r) = m - 1
  BY <1>2, <1>3, Zenon
<1>10. Len(tb) = m - 1 + n /\ \A i \in 1 .. m - 1 + n : tb[i] = IF i <= m - 1 THEN r[i] ELSE t[i - (m - 1)]
  BY <1>3, <1>8, <1>9, ConcatProperties
<1>11. \A i \in 1 .. m - 1 : r[i] = s[i + 1]
  BY <1>2, <1>3, <1>9
<1>12. \A i \in 1 .. m + n - 1 : ta[i] = tb[i]
  <2>1. SUFFICES ASSUME NEW i \in 1 .. m + n - 1 PROVE ta[i] = tb[i]
    OBVIOUS
  <2>2. i + 1 \in 1 .. m + n /\ i \in 1 .. m - 1 + n /\ (i + 1 <= m <=> i <= m - 1)
        /\ (i + 1) - m = i - (m - 1)
    BY <1>3
  <2>3. ta[i] = IF i + 1 <= m THEN s[i + 1] ELSE t[(i + 1) - m]
    BY <1>5, <1>7, <2>2
  <2>4. tb[i] = IF i <= m - 1 THEN r[i] ELSE t[i - (m - 1)]
    BY <1>10, <2>2
  <2>5. i <= m - 1 => r[i] = s[i + 1]
    BY <1>3, <1>11
  <2>6. QED
    BY <2>2, <2>3, <2>4, <2>5
<1>13. Len(ta) = Len(tb) /\ \A i \in 1 .. Len(ta) : ta[i] = tb[i]
  BY <1>3, <1>7, <1>10, <1>12
<1>14. ta = tb
  BY <1>13, SeqEqual
<1>15. Head(s \o t) = Head(s)
  BY <1>1, <1>3, <1>4, <1>5
<1>16. QED
  BY <1>1, <1>2, <1>4, <1>6, <1>8, <1>14, <1>15

\* A callback is queued ...
LEMMA QueueGrows ==
  ASSUME NEW w, Queued(w), Typed, NEW u \in Updater, NEW s \in {"call", "sync"}, Begin(u, s)
  PROVE  Queued(Append(w, u))'
<1>1. PICK n \in Nat : n = Len(w)
  BY LenProperties DEF Queued
<1>2. PICK x : x = Append(w, u)
  BY Zenon
<1>3. /\ x \in Seq(Updater) /\ Len(x) = n + 1 /\ x[n + 1] = u
      /\ \A i \in 1 .. n : x[i] = w[i]
  BY <1>1, <1>2, AppendProperties DEF Queued
<1>4. /\ status[u] = "out" /\ status' = [status EXCEPT ![u] = s]
      /\ earlier' = [earlier EXCEPT ![u] = {v \in Updater : status[v] = "call"}]
  BY DEF Begin
<1>5. \A i \in 1 .. n : w[i] # u
  BY <1>1, <1>4 DEF Queued
<1>6. \A i \in 1 .. n + 1 : i \in 1 .. n \/ i = n + 1
  OBVIOUS
<1>7. \A i, j \in 1 .. n + 1 : x[i] = x[j] => i = j
  BY <1>1, <1>3, <1>5, <1>6 DEF Queued
<1>8. ASSUME NEW v \in Updater
      PROVE  status'[v] \in {"call", "sync"} <=> \E i \in 1 .. n + 1 : x[i] = v
  <2>1. CASE v = u
    <3>1. status'[v] \in {"call", "sync"} /\ n + 1 \in 1 .. n + 1
      BY <1>4, <2>1 DEF Typed
    <3>2. QED
      BY <1>3, <2>1, <3>1
  <2>2. CASE v # u
    <3>1. status'[v] = status[v]
      BY <1>4, <2>2 DEF Typed
    <3>2. (\E i \in 1 .. n + 1 : x[i] = v) <=> \E i \in 1 .. n : w[i] = v
      BY <1>3, <1>6, <2>2
    <3>3. QED
      BY <1>1, <3>1, <3>2 DEF Queued
  <2>3. QED
    BY <2>1, <2>2
<1>9. ASSUME NEW i \in 1 .. n + 1, NEW v \in earlier'[x[i]]
      PROVE  \E j \in 1 .. n + 1 : j < i /\ x[j] = v
  <2>1. CASE i = n + 1
    <3>1. v \in Updater /\ status[v] = "call"
      BY <1>3, <1>4, <1>9, <2>1, Zenon DEF Typed
    <3>2. PICK j \in 1 .. n : w[j] = v
      BY <1>1, <3>1 DEF Queued
    <3>3. QED
      BY <1>3, <2>1, <3>2
  <2>2. CASE i \in 1 .. n
    <3>1. w[i] \in Updater /\ w[i] # u /\ x[i] = w[i]
      BY <1>1, <1>3, <1>5, <2>2, ElementOfSeq DEF Queued
    <3>2. v \in earlier[w[i]]
      BY <1>4, <1>9, <3>1 DEF Typed
    <3>3. PICK j \in 1 .. n : j < i /\ w[j] = v
      BY <1>1, <2>2, <3>2, Zenon DEF Queued
    <3>4. QED
      BY <1>3, <3>3
  <2>3. QED
    BY <1>6, <2>1, <2>2
<1>10. \A v \in Updater : status'[v] \in {"out", "done"} => earlier'[v] = {}
  BY <1>4 DEF Queued, Typed
<1>11. Queued(x)'
  BY <1>3, <1>7, <1>8, <1>9, <1>10 DEF Queued
<1>12. QED
  BY <1>2, <1>11

\* ... and the first one is invoked.
LEMMA QueueShrinks ==
  ASSUME NEW w, Queued(w), Typed, w # <<>>, Invoked(Head(w))
  PROVE  Queued(Tail(w))'
<1>1. PICK n \in Nat : n = Len(w) /\ n # 0
  BY LenProperties, EmptySeq DEF Queued
<1>2. PICK u \in Updater : u = Head(w) /\ u = w[1]
  BY <1>1, HeadTailProperties DEF Queued
<1>3. PICK x : x = Tail(w)
  BY Zenon
<1>4. x \in Seq(Updater) /\ Len(x) = n - 1 /\ \A i \in 1 .. n - 1 : x[i] = w[i + 1]
  BY <1>1, <1>3, HeadTailProperties DEF Queued
<1>5. /\ status' = [status EXCEPT ![u] = IF status[u] = "call" THEN "out" ELSE "done"]
      /\ earlier' = [v \in Updater |-> earlier[v] \ {u}]
  BY <1>2 DEF Invoked
<1>6. \A i \in 1 .. n - 1 : i \in 1 .. n /\ i + 1 \in 1 .. n /\ i + 1 # 1
  BY <1>1
<1>7. \A i \in 1 .. n : i = 1 \/ (i - 1 \in 1 .. n - 1 /\ (i - 1) + 1 = i)
  BY <1>1
<1>8. 1 \in 1 .. n
  BY <1>1
<1>9. \A i \in 1 .. n - 1 : w[i + 1] # u
  BY <1>1, <1>2, <1>6, <1>8 DEF Queued
<1>10. \A i, j \in 1 .. n - 1 : x[i] = x[j] => i = j
  <2>1. SUFFICES ASSUME NEW i \in 1 .. n - 1, NEW j \in 1 .. n - 1, x[i] = x[j] PROVE i = j
    OBVIOUS
  <2>2. i + 1 = j + 1
    BY <1>1, <1>4, <1>6, <2>1 DEF Queued
  <2>3. QED
    BY <2>2
<1>11. ASSUME NEW v \in Updater
       PROVE  status'[v] \in {"call", "sync"} <=> \E i \in 1 .. n - 1 : x[i] = v
  <2>1. CASE v = u
    BY <1>4, <1>5, <1>9, <2>1, Zenon DEF Typed
  <2>2. CASE v # u
    <3>1. status'[v] = status[v]
      BY <1>5, <2>2 DEF Typed
    <3>2. ASSUME NEW i \in 1 .. n, w[i] = v PROVE \E j \in 1 .. n - 1 : x[j] = v
      BY <1>2, <1>4, <1>7, <2>2, <3>2, Zenon
    <3>3. (\E i \in 1 .. n - 1 : x[i] = v) <=> \E i \in 1 .. n : w[i] = v
      BY <1>4, <1>6, <3>2
    <3>4. QED
      BY <1>1, <3>1, <3>3 DEF Queued
  <2>3. QED
    BY <2>1, <2>2
<1>12. ASSUME NEW i \in 1 .. n - 1, NEW v \in earlier'[x[i]]
       PROVE  \E j \in 1 .. n - 1 : j < i /\ x[j] = v
  <2>1. w[i + 1] \in Updater /\ x[i] = w[i + 1] /\ i + 1 \in 1 .. n
    BY <1>1, <1>4, <1>6, ElementOfSeq DEF Queued
  <2>2. v \in earlier[w[i + 1]] /\ v # u
    BY <1>5, <1>12, <2>1
  <2>3. PICK k \in 1 .. n : k < i + 1 /\ w[k] = v
    BY <1>1, <2>1, <2>2 DEF Queued
  <2>4. k # 1
    BY <1>2, <2>2, <2>3
  <2>5. k - 1 \in 1 .. n - 1 /\ k - 1 < i /\ x[k - 1] = v
    BY <1>4, <1>7, <2>3, <2>4
  <2>6. QED
    BY <2>5
<1>13. ASSUME NEW v \in Updater, status'[v] \in {"out", "done"} PROVE earlier'[v] = {}
  <2>1. CASE v = u
    <3>1. \A t \in earlier[w[1]] : \E j \in 1 .. n : j < 1 /\ w[j] = t
      BY <1>1, <1>8 DEF Queued
    <3>2. earlier[u] = {}
      BY <1>2, <3>1
    <3>3. QED
      BY <1>5, <2>1, <3>2
  <2>2. CASE v # u
    BY <1>5, <1>13, <2>2 DEF Queued, Typed
  <2>3. QED
    BY <2>1, <2>2
<1>14. Queued(x)'
  <2>1. PICK m : m = n - 1 /\ m = Len(x)
    BY <1>4
  <2>2. \A i, j \in 1 .. m : x[i] = x[j] => i = j
    BY <1>10, <2>1
  <2>3. \A v \in Updater : status'[v] \in {"call", "sync"} <=> \E i \in 1 .. m : x[i] = v
    BY <1>11, <2>1
  <2>4. \A i \in 1 .. m : \A v \in earlier'[x[i]] : \E j \in 1 .. m : j < i /\ x[j] = v
    BY <1>12, <2>1
  <2>5. QED
    BY <1>4, <1>13, <2>1, <2>2, <2>3, <2>4 DEF Queued
<1>15. QED
  BY <1>3, <1>14

\* What the steps do to the queue as a whole: moving the batches on is invisible.
LEMMA QueueMoves ==
  ASSUME OwnerInv, Typed, [Next]_vars
  PROVE  \/ Waiting' = Waiting /\ UNCHANGED earlier /\
               (UNCHANGED status \/ \E u \in Updater : Return(u))
         \/ \E u \in Updater, s \in {"call", "sync"} : Begin(u, s) /\ Waiting' = Append(Waiting, u)
         \/ Waiting # <<>> /\ Invoked(Head(Waiting)) /\ Waiting' = Tail(Waiting)
<1>1. PICK d \in Seq(Updater), k \in Seq(Updater), z \in Seq(Updater), q \in Seq(Updater) :
         d = batch_done /\ k = batch_check1 /\ z = batch_check0 /\ q = batch_queue
  BY DEF OwnerInv, Batches
<1>2. Waiting = d \o (k \o (z \o q))
  BY <1>1 DEF Waiting
<1>3. z \o q \in Seq(Updater) /\ k \o (z \o q) \in Seq(Updater) /\ d \o k \in Seq(Updater)
      /\ d \o (k \o (z \o q)) \in Seq(Updater)
  BY Concat
<1>4. CASE UNCHANGED <<batches, status, earlier>>
  BY <1>4 DEF batches, Waiting
<1>5. ASSUME NEW u \in Updater, NEW s \in {"call", "sync"}, Begin(u, s), batch_queue' = Append(q, u),
             UNCHANGED <<batch_check0, batch_check1, batch_done>>
      PROVE  Begin(u, s) /\ Waiting' = Append(Waiting, u)
  <2>1. Append(d \o (k \o (z \o q)), u) = d \o (k \o (z \o Append(q, u)))
    <3>1. Append(z \o q, u) = z \o Append(q, u)
      BY ConcatAppend, Zenon
    <3>2. PICK y \in Seq(Updater) : y = z \o q
      BY <1>3, Zenon
    <3>3. Append(k \o y, u) = k \o Append(y, u)
      BY ConcatAppend, Zenon
    <3>4. PICK x \in Seq(Updater) : x = k \o y
      BY <1>3, <3>2, Zenon
    <3>5. Append(d \o x, u) = d \o Append(x, u)
      BY ConcatAppend, Zenon
    <3>6. QED
      BY <3>1, <3>2, <3>3, <3>4, <3>5
  <2>2. QED
    BY <1>1, <1>2, <1>5, <2>1 DEF Waiting
<1>6. ASSUME NEW u \in Updater, SynchronizeSrcu(u), ~running
      PROVE  Begin(u, "sync") /\ Waiting' = Append(Waiting, u)
  <2>1. d = <<>> /\ k = <<>> /\ z = <<>> /\ q = <<>>
    BY <1>1, <1>6 DEF OwnerInv, Owner, Empty
  <2>2. /\ Begin(u, "sync") /\ batch_check0' = Append(z, u)
        /\ UNCHANGED <<batch_queue, batch_check1, batch_done>>
    BY <1>1, <1>6 DEF SynchronizeSrcu, MaySteal
  <2>3. Append(<<>>, u) \in Seq(Updater) /\ <<>> \in Seq(Updater)
    BY AppendProperties, EmptySeq
  <2>4. Waiting' = <<>> \o (<<>> \o (Append(<<>>, u) \o <<>>))
    BY <1>1, <2>1, <2>2, Zenon DEF Waiting
  <2>5. Waiting' = Append(<<>>, u)
    BY <2>3, <2>4, Concat
  <2>6. Waiting = <<>>
    BY <1>2, <2>1, <2>3, Concat
  <2>7. QED
    BY <2>2, <2>5, <2>6
<1>7. ASSUME NEW u \in Updater, CallSrcu(u) \/ SynchronizeSrcu(u)
      PROVE  \E s \in {"call", "sync"} : Begin(u, s) /\ Waiting' = Append(Waiting, u)
  <2>1. CASE CallSrcu(u)
    BY <1>1, <1>5, <2>1 DEF CallSrcu
  <2>2. CASE SynchronizeSrcu(u) /\ running
    <3>1. /\ Begin(u, "sync") /\ batch_queue' = Append(q, u)
          /\ UNCHANGED <<batch_check0, batch_check1, batch_done>>
      BY <1>1, <2>2 DEF SynchronizeSrcu, MaySteal
    <3>2. QED
      BY <1>5, <3>1
  <2>3. CASE SynchronizeSrcu(u) /\ ~running
    BY <1>6, <2>3
  <2>4. QED
    BY <1>7, <2>1, <2>2, <2>3
<1>8. ASSUME d # <<>>, Invoked(Head(d)), batch_done' = Tail(d),
             UNCHANGED <<batch_queue, batch_check0, batch_check1>>
      PROVE  Waiting # <<>> /\ Invoked(Head(Waiting)) /\ Waiting' = Tail(Waiting)
  <2>1. /\ d \o (k \o (z \o q)) # <<>> /\ Head(d \o (k \o (z \o q))) = Head(d)
        /\ Tail(d \o (k \o (z \o q))) = Tail(d) \o (k \o (z \o q))
    <3>1. PICK x \in Seq(Updater) : x = k \o (z \o q)
      BY <1>3, Zenon
    <3>2. d \o x # <<>> /\ Head(d \o x) = Head(d) /\ Tail(d \o x) = Tail(d) \o x
      BY <1>8, ConcatTail
    <3>3. QED
      BY <3>1, <3>2, Zenon
  <2>2. QED
    BY <1>1, <1>2, <1>8, <2>1, Zenon DEF Waiting
<1>9. ASSUME NEW u \in Updater, Claim(u)
      PROVE  \/ UNCHANGED <<batches, status, earlier>>
             \/ Waiting # <<>> /\ Invoked(Head(Waiting)) /\ Waiting' = Tail(Waiting)
  BY <1>1, <1>8, <1>9 DEF Claim, batches
<1>10. ASSUME InvokeCallbacks
       PROVE  \/ UNCHANGED <<batches, status, earlier>>
              \/ Waiting # <<>> /\ Invoked(Head(Waiting)) /\ Waiting' = Tail(Waiting)
  BY <1>1, <1>8, <1>10 DEF InvokeCallbacks, batches
<1>11. ASSUME ProcessSrcu PROVE Waiting' = Waiting /\ UNCHANGED <<status, earlier>>
  <2>1. /\ batch_check0' = z \o q /\ batch_queue' = <<>>
        /\ UNCHANGED <<batch_check1, batch_done, status, earlier>>
    BY <1>1, <1>11 DEF ProcessSrcu, Move, history
  <2>2. (z \o q) \o <<>> = z \o q
    BY <1>3, Concat
  <2>3. QED
    BY <1>1, <1>2, <2>1, <2>2 DEF Waiting
<1>12. ASSUME NEW p \in Proc, CheckSucceeds(p)
       PROVE  Waiting' = Waiting /\ UNCHANGED <<status, earlier>>
  <2>1. /\ batch_done' = d \o k /\ UNCHANGED <<batch_queue, status, earlier>>
        /\ \/ batch_check1' = z /\ batch_check0' = <<>>
           \/ batch_check1' = <<>> /\ batch_check0' = z
    BY <1>1, <1>12, Zenon DEF CheckSucceeds, Move, history
  <2>2. <<>> \o q = q /\ <<>> \o (z \o q) = z \o q /\ (d \o k) \o (z \o q) = d \o (k \o (z \o q))
    <3>1. PICK y \in Seq(Updater) : y = z \o q
      BY <1>3, Zenon
    <3>2. <<>> \o q = q /\ <<>> \o y = y
      BY Concat
    <3>3. (d \o k) \o y = d \o (k \o y)
      BY ConcatThree
    <3>4. QED
      BY <3>1, <3>2, <3>3
  <2>3. QED
    BY <1>1, <1>2, <2>1, <2>2, Zenon DEF Waiting
<1>13. ASSUME NEW p \in Proc,
              AdvanceBatches(p) \/ AddUp(p) \/ CheckFails(p) \/ Reschedule(p) \/ RescheduleLocked(p)
       PROVE  UNCHANGED <<batches, status, earlier>>
  BY <1>13, Zenon DEF AdvanceBatches, AddUp, CheckFails, Reschedule, RescheduleLocked, history
<1>14. ASSUME NEW u \in Updater, Return(u) PROVE Waiting' = Waiting /\ UNCHANGED earlier
  BY <1>14 DEF Return, history, batches, Waiting
<1>15. ASSUME NEW r \in Reader, ReadIdx(r) \/ ReaderStep(r) PROVE UNCHANGED <<batches, status, earlier>>
  BY <1>15, Zenon DEF ReadIdx, ReaderStep, CountSeq, Count, Unlock, history
<1>16. CASE UNCHANGED vars
  BY <1>4, <1>16 DEF vars, history
<1>17. CASE Driving
  BY <1>4, <1>9, <1>10, <1>11, <1>12, <1>13, <1>17 DEF Driving, Drive
<1>18. QED
  BY <1>4, <1>7, <1>14, <1>15, <1>16, <1>17, Zenon DEF Next

LEMMA QueueStep == ASSUME OwnerInv, Typed, QueueInv, [Next]_vars PROVE QueueInv'
<1>1. PICK w : w = Waiting /\ Queued(w)
  BY DEF QueueInv
<1>2. CASE /\ Waiting' = Waiting /\ UNCHANGED earlier
           /\ UNCHANGED status \/ \E u \in Updater : Return(u)
  <2>1. \A u \in Updater : /\ status'[u] \in {"call", "sync"} <=> status[u] \in {"call", "sync"}
                           /\ status'[u] \in {"out", "done"} <=> status[u] \in {"out", "done"}
    BY <1>2 DEF Return, Typed
  <2>2. Queued(w)'
    BY <1>1, <1>2, <2>1, Zenon DEF Queued
  <2>3. QED
    BY <1>1, <1>2, <2>2 DEF QueueInv
<1>3. ASSUME NEW u \in Updater, NEW s \in {"call", "sync"}, Begin(u, s), Waiting' = Append(Waiting, u)
      PROVE  QueueInv'
  <2>1. Queued(Append(w, u))'
    BY <1>1, <1>3, QueueGrows
  <2>2. PICK x : x = Append(w, u)
    BY Zenon
  <2>3. Queued(x)' /\ Waiting' = x
    BY <1>1, <1>3, <2>1, <2>2
  <2>4. QED
    BY <2>3 DEF QueueInv
<1>4. CASE Waiting # <<>> /\ Invoked(Head(Waiting)) /\ Waiting' = Tail(Waiting)
  <2>1. PICK x : x = Tail(w)
    BY Zenon
  <2>2. Queued(Tail(w))'
    BY <1>1, <1>4, QueueShrinks
  <2>3. Queued(x)' /\ Waiting' = x
    BY <1>1, <1>4, <2>1, <2>2
  <2>4. QED
    BY <2>3 DEF QueueInv
<1>5. QED
  BY <1>2, <1>3, <1>4, QueueMoves

LEMMA QueueInit == Init => QueueInv
<1> SUFFICES ASSUME Init PROVE Queued(Waiting)
  BY DEF QueueInv
<1>1. <<>> \in Seq(Updater) /\ Len(<<>>) = 0
  BY EmptySeq
<1>2. Waiting = <<>>
  BY <1>1, Concat DEF Init, Waiting
<1>3. QED
  BY <1>1, <1>2 DEF Init, Queued

PipeInv == OwnerInv /\ Typed /\ QueueInv

LEMMA PipeSpec == Spec => []PipeInv
<1>1. Init => PipeInv
  BY OwnerInit, TypedInit, QueueInit DEF PipeInv
<1>2. PipeInv /\ [Next]_vars => PipeInv'
  BY OwnerInvariant, TypedStep, QueueStep DEF PipeInv
<1>3. QED
  BY <1>1, <1>2, PTL DEF Spec

\* The callbacks that were queued before a synchronize_srcu() are over before it is, so
\* that it is the srcu_barrier() it is used as, for any number of updaters
\* (srcu.c:534-541).
THEOREM BarrierWaits == Spec => []Barrier
<1>1. PipeInv => Barrier
  BY DEF PipeInv, QueueInv, Queued, Barrier
<1>2. QED
  BY <1>1, PipeSpec, PTL
-----------------------------------------------------------------------------
(* A rank that is found free is free of the readers somebody waits for.    *)

OldFree(x) == \A u \in Range(batch_check0) \cup Range(batch_check1) : \A r \in old[u] : ridx[r] # x

\* The batches say how much of the grace period is over.  A driver checks the rank that
\* new readers do not get.
GraceInv ==
  /\ \A u \in Updater : status[u] \in {"out", "done"} \/ u \in Range(batch_done) => old[u] = {}
  /\ \A u \in Range(batch_check1) : \A r \in old[u] : ridx[r] = 1 - completed
  /\ \A p \in Proc : pc[p] \in Summing \cup {"pass", "fail"} => loc[p].idx = 1 - completed
  /\ \A p \in Proc : pc[p] = "pass" => OldFree(loc[p].idx)

\* seq counts the readers that passed their second access during the check, and those
\* that can still do so got their index before it: they are too few to wrap it.
Room(x) == Sums(seq)[CPUs] + Cardinality(Late(x)) <= Cardinality(Reader)

SeqPhase(l) == l.seq <= Sums(seq)[l.cpu - 1] /\ l.sum = 0

\* The sum s, with the counters f of the CPUs from b on still to add, comes to at least
\* i, and to no more than the readers there are when j of them are not in it.
SumsTo(f, b, s, i, j) ==
  \E k \in Nat : /\ (s + (Sums(f)[CPUs] - Sums(f)[b - 1])) % UlongRange = i + k
                /\ i + k + j <= Cardinality(Reader)

\* Unless a reader passed its second access since seq was summed up, what the sum will
\* come to is at least the number of readers in their critical sections.
SumPhase(l) ==
  /\ l.seq <= Sums(seq)[CPUs]
  /\ l.seq = Sums(seq)[CPUs] =>
       SumsTo(Row(l.idx), l.cpu, l.sum, Cardinality(Inside(l.idx)), Cardinality(Pending(l.idx)))

\* A reader that did pass makes the difference of the two sums of seq non-zero.
AgainPhase(l) ==
  \/ OldFree(l.idx)
  \/ \E e \in 1 .. Sums(seq)[CPUs] :
        (l.seq + e) % UlongRange = Sums(seq)[CPUs] - Sums(seq)[l.cpu - 1]

Phase(p) ==
  /\ pc[p] \in Summing => Room(loc[p].idx)
  /\ pc[p] = "seq" => SeqPhase(loc[p])
  /\ pc[p] = "sum" => SumPhase(loc[p])
  /\ pc[p] = "again" => AgainPhase(loc[p])

CheckInv ==
  /\ (\A p \in Proc : pc[p] \notin Summing) => seq = [d \in Cpu |-> 0]
  /\ \A p \in Proc : Phase(p)

LEMMA ModMoves ==
  ASSUME NEW a \in Int, NEW q \in Int, NEW v \in Int, NEW n \in Int,
         a % UlongRange = n, n + v \in 0 .. UlongRange - 1
  PROVE  (a + (v + UlongRange * q)) % UlongRange = n + v
<1>1. a + v \in Int /\ ((a % UlongRange) + v) % UlongRange = (a + v) % UlongRange
  BY ModAdd
<1>2. ((a + v) + UlongRange * q) % UlongRange = (a + v) % UlongRange
  BY <1>1, ModSame
<1>3. (n + v) % UlongRange = n + v
  BY ModSmall
<1>4. a + (v + UlongRange * q) = (a + v) + UlongRange * q
  BY Constants
<1>5. QED
  BY <1>1, <1>2, <1>3, <1>4

\* The sums of seq and of a rank are numbers, and the former does not wrap.
LEMMA SeqSums ==
  ASSUME Typed
  PROVE  /\ seq \in [Cpu -> Nat]
         /\ \A n \in 0 .. CPUs : Sums(seq)[n] \in Nat /\ Sums(seq)[n] <= Sums(seq)[CPUs]
         /\ \A d \in Cpu : /\ d - 1 \in 0 .. CPUs /\ d \in 0 .. CPUs
                           /\ Sums(seq)[d] = Sums(seq)[d - 1] + seq[d]
                           /\ seq[d] \in Nat /\ seq[d] <= Sums(seq)[CPUs]
         /\ 0 \in 0 .. CPUs /\ CPUs \in 0 .. CPUs /\ CPUs \in Cpu /\ Sums(seq)[0] = 0
<1>1. seq \in [Cpu -> Nat]
  BY UlongInt, Zenon DEF Typed
<1>2. seq \in [Cpu -> Int]
  BY <1>1
<1>3. \A n \in 0 .. CPUs : Sums(seq)[n] \in Nat /\ Sums(seq)[n] <= Sums(seq)[CPUs]
  BY <1>1, SumsNat
<1>4. \A d \in Cpu : seq[d] <= Sums(seq)[CPUs]
  BY <1>1, SumsNat
<1>5. Sums(seq)[0] = 0 /\ \A d \in Cpu : Sums(seq)[d] = Sums(seq)[d - 1] + seq[d]
  BY <1>2, SumsDef
<1>6. /\ 0 \in 0 .. CPUs /\ CPUs \in 0 .. CPUs /\ CPUs \in Cpu
      /\ \A d \in Cpu : d - 1 \in 0 .. CPUs /\ d \in 0 .. CPUs
  BY Constants DEF Cpu
<1>7. \A d \in Cpu : seq[d] \in Nat
  BY <1>1
<1>8. QED
  BY <1>1, <1>3, <1>4, <1>5, <1>6, <1>7

LEMMA RowSums ==
  ASSUME Typed, NEW x \in Rank
  PROVE  /\ Row(x) \in [Cpu -> Int] /\ \A n \in 0 .. CPUs : Sums(Row(x))[n] \in Int
         /\ Sums(Row(x))[0] = 0
         /\ \A d \in Cpu : /\ Sums(Row(x))[d] = Sums(Row(x))[d - 1] + c[d][x]
                           /\ c[d][x] \in Int
<1>1. Row(x) \in [Cpu -> Int] /\ \A d \in Cpu : Row(x)[d] = c[d][x] /\ c[d][x] \in Int
  BY RowType, UlongInt, Zenon DEF Row
<1>2. PICK f \in [Cpu -> Int] : f = Row(x)
  BY <1>1
<1>3. /\ Sums(f) \in [0 .. CPUs -> Int] /\ Sums(f)[0] = 0
      /\ \A d \in Cpu : Sums(f)[d] = Sums(f)[d - 1] + f[d]
  BY SumsDef
<1>4. QED
  BY <1>1, <1>2, <1>3

\* How many readers there are of each kind.
LEMMA Kinds ==
  ASSUME NEW x
  PROVE  /\ {Pending(x), Late(x), Inside(x), Active(x)} \subseteq SUBSET Reader
         /\ Cardinality(Pending(x)) \in Nat /\ Cardinality(Late(x)) \in Nat
         /\ Cardinality(Inside(x)) \in Nat /\ Cardinality(Active(x)) \in Nat
         /\ Cardinality(Late(x)) <= Cardinality(Reader)
<1>1. {Pending(x), Late(x), Inside(x), Active(x)} \subseteq SUBSET Reader
  BY DEF Pending, Late, Inside, Active
<1>2. QED
  BY <1>1, Readers

LEMMA RangeUpdater ==
  ASSUME OwnerInv
  PROVE  /\ Range(batch_check0) \subseteq Updater /\ Range(batch_check1) \subseteq Updater
         /\ Range(batch_done) \subseteq Updater /\ Range(batch_queue) \subseteq Updater
BY RangeOfSeq DEF OwnerInv, Batches

\* What the readers do to the sections that are waited for.
LEMMA OldKept ==
  ASSUME Typed, NEW r \in Reader, ReadIdx(r) \/ ReaderStep(r)
  PROVE  /\ UNCHANGED <<batches, status, pc, loc, completed>>
         /\ \A u \in Updater : old'[u] \subseteq old[u] /\ \A s \in old'[u] : ridx'[s] = ridx[s]
<1>1. UNCHANGED <<batches, status, pc, loc, completed>>
  BY DEF ReadIdx, ReaderStep, CountSeq, Count, Unlock, driver, counters
<1>2. CASE ReadIdx(r)
  <2>1. rpc[r] = "out" /\ ridx' = [ridx EXCEPT ![r] = completed] /\ old' = old
    BY <1>2 DEF ReadIdx, history
  <2>2. \A u \in Updater : \A s \in old[u] : s \in Reader /\ rpc[s] = "in"
    BY DEF Typed, InSection
  <2>3. QED
    BY <1>1, <2>1, <2>2 DEF Typed
<1>3. CASE CountSeq(r) \/ \E d \in Cpu : Count(r, d)
  BY <1>1, <1>3 DEF CountSeq, Count, history
<1>4. ASSUME NEW d \in Cpu, Unlock(r, d)
      PROVE  \A u \in Updater : old'[u] \subseteq old[u] /\ \A s \in old'[u] : ridx'[s] = ridx[s]
  <2>1. ridx' = [ridx EXCEPT ![r] = 0] /\ old' = [u \in Updater |-> old[u] \ {r}]
    BY <1>4 DEF Unlock
  <2>2. \A u \in Updater : \A s \in old[u] : s \in Reader
    BY DEF Typed, InSection
  <2>3. QED
    BY <2>1, <2>2 DEF Typed
<1>5. QED
  BY <1>1, <1>2, <1>3, <1>4 DEF ReaderStep

LEMMA OldFreeKept ==
  ASSUME OwnerInv, UNCHANGED <<batch_check0, batch_check1>>, NEW x,
         \A u \in Updater : old'[u] \subseteq old[u] /\ \A s \in old'[u] : ridx'[s] = ridx[s]
  PROVE  OldFree(x) => OldFree(x)'
BY RangeUpdater DEF OldFree

\* A step of a reader that is of no concern to the rank being checked.
LEMMA PhaseSame ==
  ASSUME NEW p \in Proc, pc[p] \in Summing, Phase(p), NEW l, l = loc[p],
         UNCHANGED <<pc, loc, seq>>, Row(l.idx)' = Row(l.idx), Inside(l.idx)' = Inside(l.idx),
         Pending(l.idx)' = Pending(l.idx), Late(l.idx)' = Late(l.idx), OldFree(l.idx) => OldFree(l.idx)'
  PROVE  Phase(p)'
<1>1. Room(l.idx) => Room(l.idx)'
  BY Zenon DEF Room
<1>2. SeqPhase(l) => SeqPhase(l)'
  BY DEF SeqPhase
<1>3. SumPhase(l) => SumPhase(l)'
  BY Zenon DEF SumPhase
<1>4. AgainPhase(l) => AgainPhase(l)'
  BY Zenon DEF AgainPhase
<1>5. QED
  BY <1>1, <1>2, <1>3, <1>4, Zenon DEF Phase

\* A counter of the rank moves by v, on a CPU that the sum is past or not.
LEMMA SumMoves ==
  ASSUME NEW f, NEW g, NEW d \in Cpu, NEW v \in Int, Moved(f, g, d, v), NEW b \in Cpu, NEW s \in Int
  PROVE  \/ s + (Sums(g)[CPUs] - Sums(g)[b - 1]) = s + (Sums(f)[CPUs] - Sums(f)[b - 1])
         \/ \A n \in Int :
               (s + (Sums(f)[CPUs] - Sums(f)[b - 1])) % UlongRange = n /\ n + v \in 0 .. UlongRange - 1
               => (s + (Sums(g)[CPUs] - Sums(g)[b - 1])) % UlongRange = n + v
<1>1. PICK q \in Int : Shifted(f, g, d, v + UlongRange * q)
  BY RowMoves, Zenon
<1>2. PICK w \in Int : w = v + UlongRange * q
  BY Constants
<1>3. f \in [Cpu -> Int] /\ CPUs \in 0 .. CPUs /\ b - 1 \in 0 .. CPUs /\ CPUs >= d
  <2>1. f \in [Cpu -> Int]
    BY RowMoves, Zenon
  <2>2. QED
    BY <2>1, Constants DEF Cpu
<1>4. PICK a0 \in Int, b0 \in Int : a0 = Sums(f)[CPUs] /\ b0 = Sums(f)[b - 1]
  BY <1>3, SumsDef
<1>5. Sums(g)[CPUs] = a0 + w /\ Sums(g)[b - 1] = b0 + (IF b - 1 >= d THEN w ELSE 0)
  BY <1>1, <1>2, <1>3, <1>4 DEF Shifted
<1>6. CASE b - 1 >= d
  BY <1>4, <1>5, <1>6
<1>7. CASE ~ (b - 1 >= d)
  <2>1. PICK t \in Int : t = s + (a0 - b0)
    OBVIOUS
  <2>2. s + (Sums(g)[CPUs] - Sums(g)[b - 1]) = t + w
    BY <1>5, <1>7, <2>1
  <2>3. \A n \in Int : t % UlongRange = n /\ n + v \in 0 .. UlongRange - 1 => (t + w) % UlongRange = n + v
    BY <1>2, ModMoves
  <2>4. QED
    BY <1>4, <2>1, <2>2, <2>3
<1>8. QED
  BY <1>6, <1>7

LEMMA LocalType ==
  ASSUME Typed, NEW p \in Proc, NEW l, l = loc[p]
  PROVE  /\ l \in Local /\ l.idx \in Rank /\ l.cpu \in Cpu /\ l.seq \in Ulong /\ l.sum \in Ulong
         /\ l.seq \in Nat /\ l.sum \in Nat /\ l.seq \in Int /\ l.sum \in Int
BY UlongInt, Zenon DEF Typed, Local

\* The sum ahead may see one reader more, and its count stays within the readers there are.
LEMMA SumsUp ==
  ASSUME NEW f, NEW g, NEW d \in Cpu, Moved(f, g, d, 1), NEW b \in Cpu, NEW s \in Int,
         NEW i \in Nat, NEW j \in Nat, j - 1 \in Nat, SumsTo(f, b, s, i, j)
  PROVE  SumsTo(g, b, s, i, j - 1)
<1>1. 1 \in Int
  OBVIOUS
<1>2. PICK k \in Nat : /\ (s + (Sums(f)[CPUs] - Sums(f)[b - 1])) % UlongRange = i + k
                      /\ i + k + j <= Cardinality(Reader)
  BY Zenon DEF SumsTo
<1>3. PICK n \in Int : n = i + k /\ n + 1 \in 0 .. UlongRange - 1
  BY <1>2, Constants
<1>4. PICK y, z : /\ y = s + (Sums(f)[CPUs] - Sums(f)[b - 1]) /\ z = s + (Sums(g)[CPUs] - Sums(g)[b - 1])
  BY Zenon
<1>5. z = y \/ (y % UlongRange = n => z % UlongRange = n + 1)
  BY <1>1, <1>3, <1>4, SumMoves
<1>6. z % UlongRange = n \/ z % UlongRange = n + 1
  BY <1>2, <1>3, <1>4, <1>5, Zenon
<1>7. /\ n + 1 = i + (k + 1) /\ n = i + k /\ k + 1 \in Nat
      /\ i + k + (j - 1) <= Cardinality(Reader) /\ i + (k + 1) + (j - 1) <= Cardinality(Reader)
  BY <1>2, <1>3, Constants
<1>8. QED
  BY <1>4, <1>6, <1>7, Zenon DEF SumsTo

\* The sum ahead may see one reader less.
LEMMA SumsDown ==
  ASSUME NEW f, NEW g, NEW d \in Cpu, Moved(f, g, d, -1), NEW b \in Cpu, NEW s \in Int,
         NEW i \in Nat, NEW j \in Nat, i - 1 \in Nat, SumsTo(f, b, s, i, j)
  PROVE  SumsTo(g, b, s, i - 1, j)
<1>1. -1 \in Int
  OBVIOUS
<1>2. PICK k \in Nat : /\ (s + (Sums(f)[CPUs] - Sums(f)[b - 1])) % UlongRange = i + k
                      /\ i + k + j <= Cardinality(Reader)
  BY Zenon DEF SumsTo
<1>3. PICK n \in Int : n = i + k /\ n + -1 \in 0 .. UlongRange - 1
  BY <1>2, Constants
<1>4. PICK y, z : /\ y = s + (Sums(f)[CPUs] - Sums(f)[b - 1]) /\ z = s + (Sums(g)[CPUs] - Sums(g)[b - 1])
  BY Zenon
<1>5. z = y \/ (y % UlongRange = n => z % UlongRange = n + -1)
  BY <1>1, <1>3, <1>4, SumMoves
<1>6. z % UlongRange = n \/ z % UlongRange = n + -1
  BY <1>2, <1>3, <1>4, <1>5, Zenon
<1>7. /\ n + -1 = (i - 1) + k /\ n = (i - 1) + (k + 1) /\ k + 1 \in Nat
      /\ (i - 1) + k + j <= Cardinality(Reader) /\ (i - 1) + (k + 1) + j <= Cardinality(Reader)
  BY <1>2, <1>3, Constants
<1>8. QED
  BY <1>4, <1>6, <1>7, Zenon DEF SumsTo

\* A reader counts itself in the rank being checked: it was late, and the sum may
\* or may not see it.
LEMMA CountPhase ==
  ASSUME Typed, OwnerInv, NEW p \in Proc, pc[p] \in Summing, Phase(p), NEW l, l = loc[p],
         NEW r \in Reader, NEW d \in Cpu, Count(r, d), ridx[r] = l.idx
  PROVE  Phase(p)'
<1>1. l.idx \in Rank /\ l.cpu \in Cpu /\ l.sum \in Int
  BY LocalType, Zenon
<1>2. PICK x \in Rank : x = l.idx
  BY <1>1, Zenon
<1>3. /\ Inside(x)' = Inside(x) /\ Late(x)' = Late(x)
      /\ r \in Pending(x) /\ Pending(x)' = Pending(x) \ {r}
      /\ Row(x)' = [Row(x) EXCEPT ![d] = Plus(Row(x)[d], 1)]
  BY <1>2, CountSets, Zenon
<1>4. UNCHANGED <<pc, loc, seq, old, ridx, batch_check0, batch_check1>>
  BY DEF Count, driver, history, batches
<1>5. OldFree(x) => OldFree(x)'
  BY <1>4, Zenon DEF OldFree
<1>6. PICK f, g : f = Row(x) /\ g = Row(x)'
  BY Zenon
<1>7. Moved(f, g, d, 1)
  <2>1. f \in [Cpu -> Ulong] /\ g = [f EXCEPT ![d] = Plus(f[d], 1)]
    BY <1>3, <1>6, RowType, Zenon
  <2>2. QED
    BY <2>1, Ones, RowMoved, Zenon
<1>8. PICK i \in Nat, j \in Nat :
         /\ i = Cardinality(Inside(x)) /\ j = Cardinality(Pending(x))
         /\ Cardinality(Pending(x)') = j - 1 /\ j - 1 \in Nat
  <2>1. Pending(x) \in SUBSET Reader /\ Pending(x) \ {r} \in SUBSET Reader
    BY DEF Pending
  <2>2. Cardinality(Pending(x) \ {r}) = Cardinality(Pending(x)) - 1 /\ Cardinality(Pending(x) \ {r}) \in Nat
    BY <1>3, <2>1, Readers, Zenon
  <2>3. QED
    BY <1>3, <2>2, Kinds, Zenon
<1>9. SumsTo(f, l.cpu, l.sum, i, j) => SumsTo(g, l.cpu, l.sum, i, j - 1)
  BY <1>1, <1>7, <1>8, SumsUp, Zenon
<1>10. SumPhase(l) => SumPhase(l)'
  BY <1>2, <1>3, <1>4, <1>6, <1>8, <1>9, Zenon DEF SumPhase
<1>11. Room(l.idx) => Room(l.idx)'
  BY <1>2, <1>3, <1>4, Zenon DEF Room
<1>12. SeqPhase(l) => SeqPhase(l)'
  BY <1>4 DEF SeqPhase
<1>13. AgainPhase(l) => AgainPhase(l)'
  BY <1>2, <1>4, <1>5, Zenon DEF AgainPhase
<1>14. QED
  BY <1>4, <1>10, <1>11, <1>12, <1>13, Zenon DEF Phase

\* A reader leaves: either the sum sees it go, or it was counted for one that stays.
LEMMA UnlockPhase ==
  ASSUME Typed, OwnerInv, NEW p \in Proc, pc[p] \in Summing, Phase(p), NEW l, l = loc[p],
         NEW r \in Reader, NEW d \in Cpu, Unlock(r, d), ridx[r] = l.idx
  PROVE  Phase(p)'
<1>1. l.idx \in Rank /\ l.cpu \in Cpu /\ l.sum \in Int
  BY LocalType, Zenon
<1>2. PICK x \in Rank : x = l.idx
  BY <1>1, Zenon
<1>3. /\ Pending(x)' = Pending(x) /\ Late(x)' = Late(x)
      /\ r \in Inside(x) /\ Inside(x)' = Inside(x) \ {r}
      /\ Row(x)' = [Row(x) EXCEPT ![d] = Plus(Row(x)[d], -1)]
  BY <1>2, UnlockSets, Zenon
<1>4. UNCHANGED <<pc, loc, seq, batch_check0, batch_check1>>
  BY DEF Unlock, driver, batches
<1>5. OldFree(x) => OldFree(x)'
  <2>1. \A u \in Updater : old'[u] \subseteq old[u] /\ \A s \in old'[u] : ridx'[s] = ridx[s]
    BY OldKept, Zenon DEF ReaderStep
  <2>2. QED
    BY <1>4, <2>1, OldFreeKept
<1>6. PICK f, g : f = Row(x) /\ g = Row(x)'
  OBVIOUS
<1>7. Moved(f, g, d, -1)
  <2>1. f \in [Cpu -> Ulong] /\ g = [f EXCEPT ![d] = Plus(f[d], -1)]
    BY <1>3, <1>6, RowType, Zenon
  <2>2. QED
    BY <2>1, Ones, RowMoved, Zenon
<1>8. PICK i \in Nat, j \in Nat :
         /\ i = Cardinality(Inside(x)) /\ j = Cardinality(Pending(x))
         /\ Cardinality(Inside(x)') = i - 1 /\ i - 1 \in Nat
  <2>1. Inside(x) \in SUBSET Reader /\ Inside(x) \ {r} \in SUBSET Reader
    BY Zenon DEF Inside
  <2>2. Cardinality(Inside(x) \ {r}) = Cardinality(Inside(x)) - 1 /\ Cardinality(Inside(x) \ {r}) \in Nat
    BY <1>3, <2>1, Readers, Zenon
  <2>3. QED
    BY <1>3, <2>2, Kinds, Zenon
<1>9. SumsTo(f, l.cpu, l.sum, i, j) => SumsTo(g, l.cpu, l.sum, i - 1, j)
  BY <1>1, <1>7, <1>8, SumsDown, Zenon
<1>10. SumPhase(l) => SumPhase(l)'
  BY <1>2, <1>3, <1>4, <1>6, <1>8, <1>9, Zenon DEF SumPhase
<1>11. Room(l.idx) => Room(l.idx)'
  BY <1>2, <1>3, <1>4, Zenon DEF Room
<1>12. SeqPhase(l) => SeqPhase(l)'
  BY <1>4, Zenon DEF SeqPhase
<1>13. AgainPhase(l) => AgainPhase(l)'
  BY <1>2, <1>4, <1>5, Zenon DEF AgainPhase
<1>14. QED
  BY <1>4, <1>10, <1>11, <1>12, <1>13, Zenon DEF Phase
=============================================================================
