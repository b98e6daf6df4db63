-------------------------- MODULE SrcuGraceProofs --------------------------
(***************************************************************************)
(* synchronize_srcu() waits for every section that began before it, for    *)
(* any numbers of readers, updaters and CPUs and any width of the counters *)
(* that exceeds the number of readers.  It rests on the invariants of      *)
(* SrcuProofs, one driver, counters that balance and callbacks in order,   *)
(* and adds the readers' second access, the updaters and the driver.       *)
(***************************************************************************)
EXTENDS SrcuProofs

\* A reader of the rank being checked passes its second access.
LEMMA CountSeqPhase ==
  ASSUME Typed, OwnerInv, NEW p \in Proc, pc[p] \in Summing, Phase(p), NEW l, l = loc[p],
         NEW r \in Reader, CountSeq(r), ridx[r] = l.idx
  PROVE  Phase(p)'
<1>1. l.idx \in Rank /\ l.cpu \in Cpu /\ l.seq \in Nat /\ l.seq \in Int
  BY LocalType, Zenon
<1>2. PICK x \in Rank : x = l.idx
  BY <1>1, Zenon
<1>3. r \in Late(x) /\ Late(x)' = Late(x) \ {r}
  BY <1>2, CountSeqSets, Zenon
<1>4. UNCHANGED <<pc, loc, old, ridx, batch_check0, batch_check1>>
  BY Zenon DEF CountSeq, driver, batches, history
<1>5. OldFree(x) => OldFree(x)'
  BY <1>4, Zenon DEF OldFree
<1>6. PICK j \in Cpu : j = rcpu[r] /\ seq' = [seq EXCEPT ![j] = Plus(seq[j], 1)]
  <2>1. rcpu[r] \in Cpu
    BY DEF CountSeq, Typed
  <2>2. l.idx \in Checked
    BY Zenon DEF Checked
  <2>3. QED
    BY <2>1, <2>2, Zenon DEF CountSeq
<1>7. PICK la \in Nat, n \in Nat :
         /\ la = Cardinality(Late(x)) /\ Cardinality(Late(x)') = la - 1 /\ la - 1 \in Nat
         /\ n = Sums(seq)[CPUs] /\ n + la <= Cardinality(Reader)
  <2>1. Late(x) \in SUBSET Reader /\ Late(x) \ {r} \in SUBSET Reader
    BY DEF Late
  <2>2. Cardinality(Late(x) \ {r}) = Cardinality(Late(x)) - 1 /\ Cardinality(Late(x) \ {r}) \in Nat
    BY <1>3, <2>1, Readers
  <2>3. Sums(seq)[CPUs] \in Nat
    BY SeqSums
  <2>4. Room(x)
    BY <1>2 DEF Phase
  <2>5. QED
    BY <1>3, <2>2, <2>3, <2>4, Kinds, Zenon DEF Room
<1>8. n + 1 < UlongRange /\ n + 1 + (la - 1) <= Cardinality(Reader)
  BY <1>7, Constants
<1>9. Plus(seq[j], 1) = seq[j] + 1 /\ seq[j] \in Nat
  <2>1. seq[j] \in Nat /\ seq[j] <= n
    BY <1>7, SeqSums, Zenon
  <2>2. seq[j] + 1 \in 0 .. UlongRange - 1
    BY <1>8, <2>1, Constants
  <2>3. QED
    BY <2>1, <2>2, ModSmall DEF Plus
<1>10. PICK f, g : f = seq /\ g = seq'
  OBVIOUS
<1>11. \A m \in 0 .. CPUs : Sums(g)[m] = Sums(f)[m] + (IF m >= j THEN 1 ELSE 0)
  <2>11. seq \in [Cpu -> Nat]
    BY SeqSums
  <2>12. f \in [Cpu -> Int] /\ f[j] \in Int
    BY <1>10, <2>11
  <2>13. g = [f EXCEPT ![j] = f[j] + 1]
    BY <1>6, <1>9, <1>10, Zenon
  <2>1. f \in [Cpu -> Int] /\ g = [f EXCEPT ![j] = f[j] + 1] /\ f[j] \in Int
    BY <2>12, <2>13
  <2>2. /\ g \in [Cpu -> Int] /\ g[j] = f[j] + 1
        /\ \A i \in Cpu : i # j => g[i] = f[i]
    BY <2>1
  <2>3. g[j] - f[j] = 1
    BY <2>1, <2>2
  <2>4. \A m \in 0 .. CPUs : Sums(g)[m] = Sums(f)[m] + (IF m >= j THEN g[j] - f[j] ELSE 0)
    BY <2>1, <2>2, SumsChange, Zenon
  <2>5. QED
    BY <2>3, <2>4
<1>12. PICK b \in Nat : b = Sums(f)[l.cpu - 1] /\ b <= n
  BY <1>1, <1>7, <1>10, SeqSums, Zenon
<1>13. Sums(g)[CPUs] = n + 1 /\ Sums(g)[l.cpu - 1] \in {b, b + 1}
  <2>1. CPUs \in 0 .. CPUs /\ l.cpu - 1 \in 0 .. CPUs /\ CPUs >= j
    BY <1>1, Constants DEF Cpu
  <2>2. Sums(g)[CPUs] = n + 1
    BY <1>7, <1>10, <1>11, <2>1
  <2>3. Sums(g)[l.cpu - 1] = b + (IF l.cpu - 1 >= j THEN 1 ELSE 0)
    BY <1>11, <1>12, <2>1, Zenon
  <2>4. QED
    BY <2>2, <2>3
<1>14. Room(x)'
  BY <1>3, <1>7, <1>8, <1>10, <1>13, SMTT(30) DEF Room
<1>15. SeqPhase(l) => SeqPhase(l)'
  <2>1. l.seq <= b => l.seq <= Sums(g)[l.cpu - 1]
    BY <1>1, <1>13
  <2>2. QED
    BY <1>10, <1>12, <2>1, Zenon DEF SeqPhase
<1>16. SumPhase(l) => SumPhase(l)'
  <2>1. l.seq <= n => l.seq <= n + 1 /\ l.seq # n + 1
    BY <1>1
  <2>2. QED
    BY <1>7, <1>10, <1>13, <2>1, Zenon DEF SumPhase
<1>17. ASSUME NEW e \in 1 .. n, (l.seq + e) % UlongRange = n - b
       PROVE  \E h \in 1 .. n + 1 : (l.seq + h) % UlongRange = (n + 1) - Sums(g)[l.cpu - 1]
  <2>1. CASE Sums(g)[l.cpu - 1] = b + 1
    <3>1. e \in 1 .. n + 1 /\ n - b = (n + 1) - (b + 1)
      OBVIOUS
    <3>2. QED
      BY <1>17, <2>1, <3>1
  <2>2. CASE Sums(g)[l.cpu - 1] = b
    <3>1. /\ e + 1 \in 1 .. n + 1 /\ (n - b) + 1 \in 0 .. UlongRange - 1 /\ l.seq + e \in Int /\ 1 \in Int
          /\ 0 \in Int /\ n - b \in Int /\ (n - b) + 1 = (n + 1) - b
      BY <1>1, <1>8, <1>12, Constants
    <3>2. ((l.seq + e) + (1 + UlongRange * 0)) % UlongRange = (n - b) + 1
      BY <1>17, <3>1, ModMoves
    <3>3. (l.seq + e) + (1 + UlongRange * 0) = l.seq + (e + 1)
      BY <1>1, Constants
    <3>4. QED
      BY <2>2, <3>1, <3>2, <3>3
  <2>3. QED
    BY <1>13, <2>1, <2>2, Zenon
<1>18. AgainPhase(l) => AgainPhase(l)'
  BY <1>2, <1>5, <1>7, <1>10, <1>12, <1>13, <1>17, Zenon DEF AgainPhase
<1>19. QED
  BY <1>2, <1>4, <1>14, <1>15, <1>16, <1>18, Zenon DEF Phase

\* Readers keep what the driver has found out so far.
LEMMA ReadersPhase ==
  ASSUME Typed, OwnerInv, GraceInv, CheckInv, NEW r \in Reader, ReadIdx(r) \/ ReaderStep(r)
  PROVE  CheckInv'
<1>1. /\ UNCHANGED <<batches, pc, loc, completed>>
      /\ \A u \in Updater : old'[u] \subseteq old[u] /\ \A s \in old'[u] : ridx'[s] = ridx[s]
  BY OldKept
<1>2. CASE \A p \in Proc : pc[p] \notin Summing
  <2>1. Checked = {}
    BY <1>2 DEF Checked
  <2>2. seq' = seq
    BY <2>1 DEF ReadIdx, ReaderStep, CountSeq, Count, Unlock, counters
  <2>3. Summing = {"seq", "sum", "again"}
    BY DEF Summing
  <2>4. QED
    BY <1>1, <1>2, <2>2, <2>3, Zenon DEF CheckInv, Phase
<1>3. ASSUME NEW p \in Proc, pc[p] \in Summing PROVE CheckInv'
  <2>1. PICK l : l = loc[p]
    OBVIOUS
  <2>2. l.idx \in Rank /\ l.idx = 1 - completed /\ l.idx # completed /\ Phase(p)
    <3>1. l.idx \in Rank /\ completed \in Rank /\ l.idx = 1 - completed /\ Phase(p)
      BY <1>3, <2>1, LocalType DEF GraceInv, CheckInv, Typed
    <3>2. QED
      BY <3>1 DEF Rank
  <2>3. \A q \in Proc : pc[q] \in Summing => q = p
    BY <1>3 DEF OwnerInv, Owner, Summing
  <2>4. Checked = {l.idx}
    BY <1>3, <2>1, <2>3 DEF Checked
  <2>5. UNCHANGED <<batch_check0, batch_check1>> /\ (OldFree(l.idx) => OldFree(l.idx)')
    BY <1>1, OldFreeKept DEF batches
  <2>6. CASE ReadIdx(r)
    <3>1. UNCHANGED <<pc, loc, seq>>
      BY <1>1, <2>6, Zenon DEF ReadIdx, counters
    <3>2. Phase(p)'
      BY <1>3, <2>1, <2>2, <2>5, <2>6, <3>1, ReadIdxSets, PhaseSame, Zenon
    <3>3. QED
      BY <3>2, <1>1, <1>3, <2>3, Zenon DEF CheckInv, Phase, Summing
  <2>7. CASE ridx[r] # l.idx /\ ReaderStep(r)
    <3>1. UNCHANGED <<pc, loc, seq>>
      BY <1>1, <2>4, <2>7, Zenon DEF ReaderStep, CountSeq, Count, Unlock
    <3>2. /\ Row(l.idx)' = Row(l.idx) /\ Inside(l.idx)' = Inside(l.idx)
          /\ Pending(l.idx)' = Pending(l.idx) /\ Late(l.idx)' = Late(l.idx)
      BY <2>2, <2>7, CountSets, CountSeqSets, UnlockSets, Zenon DEF ReaderStep
    <3>3. Phase(p)'
      BY <1>3, <2>1, <2>2, <2>5, <3>1, <3>2, PhaseSame, Zenon
    <3>4. QED
      BY <3>3, <1>1, <1>3, <2>3, Zenon DEF CheckInv, Phase, Summing
  <2>8. CASE ridx[r] = l.idx /\ ReaderStep(r)
    <3>1. Phase(p)'
      BY <1>3, <2>1, <2>2, <2>8, CountPhase, UnlockPhase, CountSeqPhase, Zenon DEF ReaderStep
    <3>2. QED
      BY <3>1, <1>1, <1>3, <2>3, Zenon DEF CheckInv, Phase, Summing
  <2>9. QED
    BY <2>6, <2>7, <2>8
<1>4. QED
  BY <1>2, <1>3

LEMMA ReadersGrace ==
  ASSUME Typed, OwnerInv, GraceInv, NEW r \in Reader, ReadIdx(r) \/ ReaderStep(r)
  PROVE  GraceInv'
<1>1. /\ UNCHANGED <<batch_check0, batch_check1, batch_done, status, pc, loc, completed>>
      /\ \A u \in Updater : old'[u] \subseteq old[u] /\ \A s \in old'[u] : ridx'[s] = ridx[s]
  BY OldKept DEF batches
<1>2. \A x : OldFree(x) => OldFree(x)'
  BY <1>1, OldFreeKept
<1>3. /\ \A u \in Updater : status'[u] \in {"out", "done"} \/ u \in Range(batch_done') => old'[u] = {}
      /\ \A u \in Range(batch_check1') : \A s \in old'[u] : ridx'[s] = 1 - completed'
  BY <1>1, RangeUpdater, Zenon DEF GraceInv
<1>4. ASSUME NEW p \in Proc, pc'[p] = "pass" PROVE OldFree(loc[p].idx)'
  <2>1. PICK x : x = loc[p].idx
    OBVIOUS
  <2>2. OldFree(x)' /\ loc'[p].idx = x
    BY <1>1, <1>2, <1>4, <2>1, Zenon DEF GraceInv
  <2>3. QED
    BY <2>2
<1>5. \A p \in Proc : pc'[p] \in Summing \cup {"pass", "fail"} => loc'[p].idx = 1 - completed'
  BY <1>1 DEF GraceInv
<1>6. QED
  BY <1>3, <1>4, <1>5, Zenon DEF GraceInv, Summing

\* An rcu_head that is not in use is in none of the batches.
LEMMA QueuedOnce ==
  ASSUME OwnerInv, QueueInv, NEW u \in Updater, status[u] \in {"out", "done"}
  PROVE  u \notin Range(batch_done) /\ u \notin Range(batch_check1) /\ u \notin Range(batch_check0)
<1>1. PICK d \in Seq(Updater), k \in Seq(Updater), z \in Seq(Updater), q \in Seq(Updater) :
         d = batch_done /\ k = batch_check1 /\ z = batch_check0 /\ q = batch_queue
  BY DEF OwnerInv, Batches
<1>2. PICK y \in Seq(Updater) : y = z \o q
  BY Concat, Zenon
<1>3. PICK x \in Seq(Updater) : x = k \o y
  BY Concat, Zenon
<1>4. PICK w \in Seq(Updater) : w = d \o x
  BY Concat, Zenon
<1>5. Range(w) = Range(d) \cup Range(x) /\ Range(x) = Range(k) \cup Range(y) /\ Range(y) = Range(z) \cup Range(q)
  <2>1. Range(w) = Range(d) \cup Range(x)
    BY <1>4, RangeConcatenation
  <2>2. Range(x) = Range(k) \cup Range(y)
    BY <1>3, RangeConcatenation
  <2>3. Range(y) = Range(z) \cup Range(q)
    BY <1>2, RangeConcatenation
  <2>4. QED
    BY <2>1, <2>2, <2>3
<1>6. Queued(w)
  BY <1>1, <1>2, <1>3, <1>4 DEF QueueInv, Waiting
<1>7. u \notin Range(w)
  <2>1. Range(w) = {w[i] : i \in 1 .. Len(w)}
    BY RangeEquality
  <2>2. ~ \E i \in 1 .. Len(w) : w[i] = u
    BY <1>6, Zenon DEF Queued
  <2>3. QED
    BY <2>1, <2>2
<1>8. QED
  BY <1>1, <1>5, <1>7

LEMMA UpdatersGrace ==
  ASSUME Typed, OwnerInv, QueueInv, GraceInv,
         NEW u \in Updater, CallSrcu(u) \/ SynchronizeSrcu(u) \/ Return(u)
  PROVE  /\ GraceInv'
         /\ \A p \in Proc : pc[p] \in Summing => \A x : OldFree(x) => OldFree(x)'
<1>1. UNCHANGED <<completed, batch_check1, batch_done, ridx, loc>>
  BY Zenon DEF CallSrcu, SynchronizeSrcu, Return, counters, batches, reader, driver
<1>2. u \notin Range(batch_done) /\ u \notin Range(batch_check1) /\ u \notin Range(batch_check0)
  BY QueuedOnce, Zenon DEF CallSrcu, SynchronizeSrcu, Return, Begin
<1>3. \A v \in Updater : v # u => old'[v] = old[v] /\ status'[v] = status[v]
  BY Zenon DEF CallSrcu, SynchronizeSrcu, Return, Begin, history, Typed
<1>4. status'[u] \in {"out", "done"} => old'[u] = {}
  BY Zenon DEF CallSrcu, SynchronizeSrcu, Return, Begin, history, Typed, GraceInv
<1>5. \/ UNCHANGED <<pc, batch_check0>>
      \/ ~running /\ pc' = [pc EXCEPT ![u] = "advance"]
  BY Zenon DEF CallSrcu, SynchronizeSrcu, Return, MaySteal, driver, batches
<1>6. ASSUME UNCHANGED <<pc, batch_check0>>, NEW x, OldFree(x) PROVE OldFree(x)'
  BY <1>1, <1>2, <1>3, <1>6, RangeUpdater, Zenon DEF OldFree
<1>7. ~running => \A p \in Proc : pc[p] = "idle"
  BY DEF OwnerInv, Owner
<1>8. "idle" \notin Summing \cup {"pass", "fail"} /\ "advance" \notin Summing \cup {"pass", "fail"}
  BY DEF Summing
<1>9. /\ \A v \in Updater : status'[v] \in {"out", "done"} \/ v \in Range(batch_done') => old'[v] = {}
      /\ \A v \in Range(batch_check1') : \A r \in old'[v] : ridx'[r] = 1 - completed'
  BY <1>1, <1>2, <1>3, <1>4, RangeUpdater, Zenon DEF GraceInv
<1>10. ASSUME NEW p \in Proc, pc'[p] \in Summing \cup {"pass", "fail"}
       PROVE  UNCHANGED <<pc, batch_check0>>
  BY <1>5, <1>7, <1>8, <1>10 DEF OwnerInv
<1>11. ASSUME NEW p \in Proc, pc'[p] = "pass" PROVE OldFree(loc[p].idx)'
  <2>1. PICK x : x = loc[p].idx
    OBVIOUS
  <2>2. OldFree(x)' /\ loc'[p].idx = x
    BY <1>1, <1>6, <1>10, <1>11, <2>1, Zenon DEF GraceInv
  <2>3. QED
    BY <2>2
<1>12. \A p \in Proc : pc'[p] \in Summing \cup {"pass", "fail"} => loc'[p].idx = 1 - completed'
  BY <1>1, <1>10, Zenon DEF GraceInv
<1>13. ASSUME NEW p \in Proc, pc[p] \in Summing, NEW x, OldFree(x) PROVE OldFree(x)'
  BY <1>5, <1>6, <1>7, <1>8, <1>13
<1>14. QED
  BY <1>9, <1>11, <1>12, <1>13, Zenon DEF GraceInv

LEMMA UpdatersPhase ==
  ASSUME Typed, OwnerInv, QueueInv, GraceInv, CheckInv,
         NEW u \in Updater, CallSrcu(u) \/ SynchronizeSrcu(u) \/ Return(u)
  PROVE  CheckInv'
<1>1. UNCHANGED <<c, seq, reader, loc>>
  BY Zenon DEF CallSrcu, SynchronizeSrcu, Return, counters, driver
<1>2. pc' = pc \/ (~running /\ pc' = [pc EXCEPT ![u] = "advance"])
  BY Zenon DEF CallSrcu, SynchronizeSrcu, Return, MaySteal, driver
<1>3. Summing = {"seq", "sum", "again"}
  BY DEF Summing
<1>4. CASE \A p \in Proc : pc[p] \notin Summing
  <2>1. \A p \in Proc : pc'[p] \notin Summing
    BY <1>2, <1>3, <1>4 DEF OwnerInv
  <2>2. QED
    BY <1>1, <1>3, <1>4, <2>1, Zenon DEF CheckInv, Phase
<1>5. ASSUME NEW p \in Proc, pc[p] \in Summing PROVE CheckInv'
  <2>1. pc' = pc
    BY <1>2, <1>3, <1>5 DEF OwnerInv, Owner
  <2>2. \A q \in Proc : pc[q] \in Summing => q = p
    BY <1>3, <1>5 DEF OwnerInv, Owner
  <2>3. PICK l : l = loc[p]
    OBVIOUS
  <2>4. OldFree(l.idx) => OldFree(l.idx)'
    BY <1>5, UpdatersGrace
  <2>5. /\ Row(l.idx)' = Row(l.idx) /\ Inside(l.idx)' = Inside(l.idx)
        /\ Pending(l.idx)' = Pending(l.idx) /\ Late(l.idx)' = Late(l.idx)
    BY <1>1, Zenon DEF reader, Row, Inside, Pending, Late
  <2>6. Phase(p)'
    BY <1>1, <1>5, <2>1, <2>3, <2>4, <2>5, PhaseSame, Zenon DEF CheckInv
  <2>7. QED
    BY <1>3, <1>5, <2>1, <2>2, <2>6, Zenon DEF CheckInv, Phase
<1>6. QED
  BY <1>4, <1>5

\* Nobody looks at the counters, before or after.
LEMMA NotChecking ==
  ASSUME CheckInv, seq' = seq,
         \A p \in Proc : {pc[p], pc'[p]} \cap (Summing \cup {"pass", "fail"}) = {}
  PROVE  /\ CheckInv'
         /\ \A p \in Proc : pc'[p] \notin Summing \cup {"pass", "fail"}
<1>1. Summing = {"seq", "sum", "again"}
  BY Zenon DEF Summing
<1>2. QED
  BY <1>1, Zenon DEF CheckInv, Phase

\* The driver is the only one that is not idle.
LEMMA OthersIdle ==
  ASSUME OwnerInv, NEW p \in Proc, pc[p] # "idle"
  PROVE  \A q \in Proc : q # p => pc[q] = "idle"
BY DEF OwnerInv, Owner

LEMMA InvokeGrace ==
  ASSUME Typed, OwnerInv, GraceInv, CheckInv,
         InvokeCallbacks \/ \E u \in Updater : Claim(u)
  PROVE  GraceInv' /\ CheckInv'
<1>1. UNCHANGED <<completed, seq, batch_check1, ridx, old>>
  BY DEF InvokeCallbacks, Claim, counters, reader
<1>2. \A p \in Proc : {pc[p], pc'[p]} \cap (Summing \cup {"pass", "fail"}) = {}
  <2>1. Summing = {"seq", "sum", "again"} /\ pc \in [Proc -> Places]
    BY DEF Summing, OwnerInv
  <2>2. CASE InvokeCallbacks
    <3>1. pc[Work] = "invoke" /\ pc' \in {pc, [pc EXCEPT ![Work] = "reschedule"]} /\ Work \in Proc
      BY <2>2 DEF InvokeCallbacks, Goto, Proc
    <3>2. \A q \in Proc : q # Work => pc[q] = "idle"
      BY <3>1, OthersIdle
    <3>3. QED
      BY <2>1, <3>1, <3>2
  <2>3. ASSUME NEW u \in Updater, Claim(u)
        PROVE  \A p \in Proc : {pc[p], pc'[p]} \cap (Summing \cup {"pass", "fail"}) = {}
    <3>1. pc[u] = "claim" /\ pc' = [pc EXCEPT ![u] = "reschedule"] /\ u \in Proc
      BY <2>3 DEF Claim, Goto, Proc
    <3>2. \A q \in Proc : q # u => pc[q] = "idle"
      BY <3>1, OthersIdle
    <3>3. QED
      BY <2>1, <3>1, <3>2
  <2>4. QED
    BY <2>2, <2>3
<1>3. \/ UNCHANGED <<status, batch_done>>
      \/ batch_done # <<>> /\ Invoked(Head(batch_done)) /\ batch_done' = Tail(batch_done)
  BY DEF InvokeCallbacks, Claim
<1>4. \A u \in Updater : status'[u] \in {"out", "done"} \/ u \in Range(batch_done') => old'[u] = {}
  <2>1. CASE UNCHANGED <<status, batch_done>>
    BY <1>1, <2>1 DEF GraceInv
  <2>2. CASE batch_done # <<>> /\ Invoked(Head(batch_done)) /\ batch_done' = Tail(batch_done)
    <3>1. PICK s \in Seq(Updater) : s = batch_done /\ s # <<>>
      BY <2>2 DEF OwnerInv, Batches
    <3>2. Range(Tail(s)) \subseteq Range(s) /\ Head(s) \in Range(s)
      <4>1. PICK n \in Nat : n = Len(s) /\ n # 0
        BY <3>1, EmptySeq, LenProperties
      <4>2. PICK t \in Seq(Updater) : t = Tail(s) /\ Len(t) = n - 1 /\ \A i \in 1 .. n - 1 : t[i] = s[i + 1]
        <5>1. /\ Tail(s) \in Seq(Updater) /\ Len(Tail(s)) = Len(s) - 1
              /\ \A i \in 1 .. Len(Tail(s)) : Tail(s)[i] = s[i + 1]
          BY <3>1, HeadTailProperties
        <5>2. PICK t \in Seq(Updater) : t = Tail(s)
          BY <5>1, Zenon
        <5>3. Len(t) = n - 1
          BY <4>1, <5>1, <5>2
        <5>4. QED
          BY <5>1, <5>2, <5>3
      <4>3. Range(s) = {s[i] : i \in 1 .. n}
        BY <4>1, RangeEquality
      <4>4. Range(t) = {t[i] : i \in 1 .. n - 1}
        <5>1. Range(t) = {t[i] : i \in 1 .. Len(t)}
          BY RangeEquality
        <5>2. QED
          BY <4>2, <5>1
      <4>5. \A i \in 1 .. n - 1 : t[i] \in Range(s)
        BY <4>1, <4>2, <4>3
      <4>6. Head(s) = s[1] /\ 1 \in 1 .. n
        BY <4>1
      <4>7. QED
        BY <4>2, <4>3, <4>4, <4>5, <4>6
    <3>3. status' = [status EXCEPT ![Head(s)] = IF @ = "call" THEN "out" ELSE "done"]
      BY <2>2, <3>1 DEF Invoked
    <3>4. \A u \in Updater : u # Head(s) => status'[u] = status[u]
      BY <3>3 DEF Typed
    <3>5. QED
      BY <1>1, <2>2, <3>1, <3>2, <3>4, Zenon DEF GraceInv
  <2>3. QED
    BY <1>3, <2>1, <2>2, Zenon
<1>5. CheckInv' /\ \A p \in Proc : pc'[p] \notin Summing \cup {"pass", "fail"}
  BY <1>1, <1>2, NotChecking
<1>6. \A u \in Range(batch_check1') : \A r \in old'[u] : ridx'[r] = 1 - completed'
  BY <1>1 DEF GraceInv
<1>7. QED
  BY <1>4, <1>5, <1>6 DEF GraceInv

\* Collecting and rescheduling.
LEMMA CollectGrace ==
  ASSUME Typed, OwnerInv, GraceInv, CheckInv,
         ProcessSrcu \/ \E p \in Proc : Reschedule(p) \/ RescheduleLocked(p)
  PROVE  GraceInv' /\ CheckInv'
<1>1. UNCHANGED <<completed, seq, batch_check1, batch_done, status, ridx, old>>
  BY Zenon DEF ProcessSrcu, Reschedule, RescheduleLocked, counters, batches, reader, history
<1>2. \A p \in Proc : {pc[p], pc'[p]} \cap (Summing \cup {"pass", "fail"}) = {}
  <2>1. Summing = {"seq", "sum", "again"} /\ pc \in [Proc -> Places]
    BY DEF Summing, OwnerInv
  <2>2. CASE ProcessSrcu
    <3>1. work /\ pc' = [pc EXCEPT ![Work] = "advance"]
      BY <2>2 DEF ProcessSrcu, Goto
    <3>2. \A q \in Proc : pc[q] = "idle"
      BY <3>1 DEF OwnerInv, Owner
    <3>3. QED
      BY <2>1, <3>1, <3>2
  <2>3. ASSUME NEW p \in Proc, Reschedule(p) \/ RescheduleLocked(p)
        PROVE  \A q \in Proc : {pc[q], pc'[q]} \cap (Summing \cup {"pass", "fail"}) = {}
    <3>1. /\ pc[p] \in {"reschedule", "locked"}
          /\ pc' = [pc EXCEPT ![p] = "locked"] \/ pc' = [pc EXCEPT ![p] = "idle"]
      BY <2>3, Zenon DEF Reschedule, RescheduleLocked, Goto
    <3>2. \A q \in Proc : q # p => pc[q] = "idle"
      BY <3>1, OthersIdle
    <3>3. QED
      BY <2>1, <3>1, <3>2
  <2>4. QED
    BY <2>2, <2>3
<1>3. CheckInv' /\ \A p \in Proc : pc'[p] \notin Summing \cup {"pass", "fail"}
  BY <1>1, <1>2, NotChecking, Zenon
<1>4. /\ \A u \in Updater : status'[u] \in {"out", "done"} \/ u \in Range(batch_done') => old'[u] = {}
      /\ \A u \in Range(batch_check1') : \A r \in old'[u] : ridx'[r] = 1 - completed'
  BY <1>1, Zenon DEF GraceInv
<1>5. QED
  BY <1>3, <1>4, Zenon DEF GraceInv

\* A check begins ...
LEMMA CheckStarts ==
  ASSUME Typed, OwnerInv, CheckInv, NEW p \in Proc, NEW x \in Rank, NEW n, NEW b, Check(p, x, n, b),
         UNCHANGED <<seq, reader>>, pc[p] \in {"advance", "pass", "fail"}
  PROVE  /\ CheckInv' /\ pc'[p] = "seq" /\ loc'[p].idx = x
         /\ \A q \in Proc : q # p => pc'[q] = "idle"
<1>1. Summing = {"seq", "sum", "again"} /\ pc \in [Proc -> Places] /\ loc \in [Proc -> Local]
  BY DEF Summing, OwnerInv, Typed
<1>2. \A q \in Proc : q # p => pc[q] = "idle"
  BY OthersIdle
<1>3. seq = [d \in Cpu |-> 0] /\ seq' = seq
  BY <1>1, <1>2 DEF CheckInv
<1>4. /\ pc' = [pc EXCEPT ![p] = "seq"]
      /\ loc' = [loc EXCEPT ![p] = [Blank EXCEPT !.idx = x, !.tries = n, !.flipped = b]]
  BY DEF Check, Goto
<1>5. PICK l : l = [Blank EXCEPT !.idx = x, !.tries = n, !.flipped = b] /\ loc'[p] = l
  BY <1>1, <1>4
<1>6. l.idx = x /\ l.cpu = 1 /\ l.seq = 0 /\ l.sum = 0
  BY <1>5 DEF Blank
<1>7. /\ pc'[p] = "seq" /\ \A q \in Proc : q # p => pc'[q] = "idle"
  BY <1>1, <1>2, <1>4
<1>8. Sums(seq')[CPUs] = 0 /\ Sums(seq')[0] = 0
  <2>1. seq \in [Cpu -> {0}] /\ CPUs \in 0 .. CPUs /\ 0 \in 0 .. CPUs
    BY <1>3, Constants
  <2>2. QED
    BY <1>3, <2>1, SumsZero
<1>9. Late(x)' = Late(x)
  BY DEF reader, Late
<1>10. Room(x)'
  BY <1>8, <1>9, Kinds DEF Room
<1>11. SeqPhase(l)'
  BY <1>6, <1>8 DEF SeqPhase
<1>12. Phase(p)'
  BY <1>5, <1>6, <1>7, <1>10, <1>11 DEF Phase
<1>13. \A q \in Proc : Phase(q)'
  BY <1>1, <1>7, <1>12, Zenon DEF Phase
<1>14. QED
  BY <1>1, <1>5, <1>6, <1>7, <1>13 DEF CheckInv

\* ... or srcu_advance_batches() is left.
LEMMA CheckLeaves ==
  ASSUME Typed, OwnerInv, CheckInv, NEW p \in Proc, LeaveAdvance(p), seq' = seq,
         pc[p] \in {"advance", "pass", "fail"}
  PROVE  CheckInv' /\ \A q \in Proc : pc'[q] \notin Summing \cup {"pass", "fail"}
<1>1. Summing = {"seq", "sum", "again"} /\ pc \in [Proc -> Places]
  BY DEF Summing, OwnerInv
<1>2. \A q \in Proc : q # p => pc[q] = "idle"
  BY OthersIdle
<1>3. pc' = [pc EXCEPT ![p] = "invoke"] \/ pc' = [pc EXCEPT ![p] = "claim"]
  BY Zenon DEF LeaveAdvance, Advanced, Goto
<1>4. \A q \in Proc : pc[q] \notin Summing /\ pc'[q] \notin Summing \cup {"pass", "fail"}
  BY <1>1, <1>2, <1>3
<1>5. QED
  BY <1>1, <1>4, Zenon DEF CheckInv, Phase

LEMMA AdvanceGrace ==
  ASSUME Typed, OwnerInv, GraceInv, CheckInv, NEW p \in Proc, AdvanceBatches(p) \/ CheckFails(p)
  PROVE  GraceInv' /\ CheckInv'
<1>1. UNCHANGED <<completed, seq, reader, batch_check1, batch_done, status, ridx, old>>
  BY Zenon DEF AdvanceBatches, CheckFails, counters, batches, reader, history
<1>2. /\ \A u \in Updater : status'[u] \in {"out", "done"} \/ u \in Range(batch_done') => old'[u] = {}
      /\ \A u \in Range(batch_check1') : \A r \in old'[u] : ridx'[r] = 1 - completed'
  BY <1>1, Zenon DEF GraceInv
<1>3. pc[p] \in {"advance", "pass", "fail"}
  BY Zenon DEF AdvanceBatches, CheckFails
<1>4. PICK x \in Rank : x = 1 - completed
  BY DEF Typed, Rank
<1>5. LeaveAdvance(p) \/ \E n, b : Check(p, x, n, b)
  <2>1. CASE AdvanceBatches(p)
    BY <1>4, <2>1, Zenon DEF AdvanceBatches
  <2>2. CASE CheckFails(p)
    <3>1. loc[p].idx = x
      BY <1>4, <2>2, Zenon DEF CheckFails, GraceInv
    <3>2. QED
      BY <2>2, <3>1, Zenon DEF CheckFails
  <2>3. QED
    BY <2>1, <2>2
<1>6. Summing \cup {"pass", "fail"} = {"seq", "sum", "again", "pass", "fail"}
  BY DEF Summing
<1>7. CASE LeaveAdvance(p)
  <2>1. CheckInv' /\ \A q \in Proc : pc'[q] \notin Summing \cup {"pass", "fail"}
    BY <1>1, <1>3, <1>7, CheckLeaves, Zenon
  <2>2. QED
    BY <1>2, <1>6, <2>1, Zenon DEF GraceInv
<1>8. ASSUME NEW n, NEW b, Check(p, x, n, b) PROVE GraceInv' /\ CheckInv'
  <2>1. /\ CheckInv' /\ pc'[p] = "seq" /\ loc'[p].idx = x
        /\ \A q \in Proc : q # p => pc'[q] = "idle"
    BY <1>1, <1>3, <1>8, CheckStarts, Zenon
  <2>2. \A q \in Proc : pc'[q] \in Summing \cup {"pass", "fail"} => q = p /\ pc'[q] = "seq"
    BY <1>6, <2>1
  <2>3. \A q \in Proc : pc'[q] \in Summing \cup {"pass", "fail"} => loc'[q].idx = 1 - completed'
    BY <1>1, <1>4, <2>1, <2>2
  <2>4. \A q \in Proc : pc'[q] # "pass"
    BY <1>6, <2>1, <2>2
  <2>5. QED
    BY <1>2, <2>1, <2>3, <2>4, Zenon DEF GraceInv
<1>9. QED
  BY <1>5, <1>7, <1>8

\* The flip: the callbacks that waited for both ranks wait for the other one, and those
\* that waited for this one are done.
LEMMA SucceedsGrace ==
  ASSUME Typed, OwnerInv, GraceInv, CheckInv, NEW p \in Proc, CheckSucceeds(p)
  PROVE  GraceInv' /\ CheckInv'
<1>1. pc[p] = "pass" /\ UNCHANGED <<seq, reader, status, ridx, old>>
  BY Zenon DEF CheckSucceeds, reader, history
<1>2. PICK x \in Rank : x = 1 - completed /\ x = loc[p].idx /\ OldFree(x)
  <2>1. 1 - completed \in Rank
    BY DEF Typed, Rank
  <2>2. QED
    BY <1>1, <2>1, Zenon DEF GraceInv
<1>3. 1 - x = completed /\ 1 - x \in Rank /\ completed \in Rank /\ \A y \in Rank : y # x => y = completed
  BY <1>2 DEF Typed, Rank
<1>4. PICK d \in Seq(Updater), k \in Seq(Updater) : d = batch_done /\ k = batch_check1
  BY DEF OwnerInv, Batches
<1>5. Range(batch_done') = Range(d) \cup Range(k)
  <2>1. Range(d \o k) = Range(d) \cup Range(k)
    BY RangeConcatenation
  <2>2. batch_done' = d \o k
    BY <1>4 DEF CheckSucceeds, Move
  <2>3. QED
    BY <2>1, <2>2
<1>6. \A u \in Range(k) : old[u] = {}
  BY <1>2, <1>4 DEF GraceInv, OldFree
<1>7. \A u \in Updater : status'[u] \in {"out", "done"} \/ u \in Range(batch_done') => old'[u] = {}
  BY <1>1, <1>4, <1>5, <1>6, Zenon DEF GraceInv
<1>8. Summing \cup {"pass", "fail"} = {"seq", "sum", "again", "pass", "fail"}
  BY DEF Summing
<1>9. CASE batch_check1' = <<>> /\ LeaveAdvance(p)
  <2>1. CheckInv' /\ \A q \in Proc : pc'[q] \notin Summing \cup {"pass", "fail"}
    BY <1>1, <1>9, CheckLeaves, Zenon
  <2>2. Range(batch_check1') = {}
    BY <1>9 DEF Range
  <2>3. QED
    BY <1>7, <1>8, <2>1, <2>2, Zenon DEF GraceInv
<1>10. ASSUME completed' = 1 - completed, batch_check1' = batch_check0,
              NEW n, NEW b, Check(p, 1 - x, n, b)
       PROVE  GraceInv' /\ CheckInv'
  <2>1. /\ CheckInv' /\ pc'[p] = "seq" /\ loc'[p].idx = 1 - x
        /\ \A q \in Proc : q # p => pc'[q] = "idle"
    BY <1>1, <1>3, <1>10, CheckStarts
  <2>2. \A q \in Proc : pc'[q] \in Summing \cup {"pass", "fail"} => q = p /\ pc'[q] = "seq"
    BY <1>8, <2>1
  <2>3. 1 - completed' = completed
    BY <1>3, <1>10 DEF Rank
  <2>4. \A q \in Proc : pc'[q] \in Summing \cup {"pass", "fail"} => loc'[q].idx = 1 - completed'
    BY <1>3, <2>1, <2>2, <2>3
  <2>5. \A q \in Proc : pc'[q] # "pass"
    BY <1>8, <2>1, <2>2
  <2>6. ASSUME NEW u \in Range(batch_check0), NEW r \in old[u] PROVE ridx[r] = completed
    <3>1. u \in Updater /\ r \in Reader
      BY RangeUpdater DEF Typed, InSection
    <3>2. ridx[r] \in Rank /\ ridx[r] # x
      BY <1>2, <3>1 DEF OldFree, Typed
    <3>3. QED
      BY <1>3, <3>2
  <2>7. \A u \in Range(batch_check1') : \A r \in old'[u] : ridx'[r] = 1 - completed'
    BY <1>1, <1>10, <2>3, <2>6
  <2>8. QED
    BY <1>7, <2>1, <2>4, <2>5, <2>7, Zenon DEF GraceInv
<1>11. QED
  BY <1>2, <1>9, <1>10, Zenon DEF CheckSucceeds

LEMMA PlusMod ==
  ASSUME NEW a \in Int, NEW b \in Int, NEW d \in Int
  PROVE  (Plus(a, b) + d) % UlongRange = ((a + b) + d) % UlongRange
<1>1. a + b \in Int
  OBVIOUS
<1>2. QED
  BY <1>1, ModAdd DEF Plus

LEMMA SeqAt ==
  ASSUME Typed, NEW d \in Cpu
  PROVE  \E b \in Nat, v \in Nat, n \in Nat :
           /\ b = Sums(seq)[d - 1] /\ v = seq[d] /\ n = Sums(seq)[CPUs]
           /\ Sums(seq)[d] = b + v /\ b + v <= n
BY SeqSums

\* The numbers of one round of each loop.
LEMMA SeqRound ==
  ASSUME Typed, NEW x, Room(x), NEW d \in Cpu, NEW s \in Nat, s <= Sums(seq)[d - 1]
  PROVE  Plus(s, seq[d]) <= Sums(seq)[d]
<1>1. PICK b \in Nat, v \in Nat, n \in Nat :
         /\ b = Sums(seq)[d - 1] /\ v = seq[d] /\ n = Sums(seq)[CPUs]
         /\ Sums(seq)[d] = b + v /\ b + v <= n
  BY SeqAt
<1>2. n < UlongRange
  <2>1. PICK la \in Nat : la = Cardinality(Late(x))
    BY Kinds
  <2>2. n + la <= Cardinality(Reader)
    BY <1>1, <2>1 DEF Room
  <2>3. QED
    BY <2>2, Constants
<1>3. s + v \in 0 .. UlongRange - 1 /\ s + v <= b + v
  BY <1>1, <1>2, Constants
<1>4. QED
  BY <1>1, <1>3, ModSmall DEF Plus

LEMMA SumRound ==
  ASSUME Typed, NEW x \in Rank, NEW d \in Cpu, NEW s \in Int
  PROVE  (Plus(s, c[d][x]) + (Sums(Row(x))[CPUs] - Sums(Row(x))[d])) % UlongRange
           = (s + (Sums(Row(x))[CPUs] - Sums(Row(x))[d - 1])) % UlongRange
<1>1. d - 1 \in 0 .. CPUs /\ d \in 0 .. CPUs /\ CPUs \in 0 .. CPUs
  BY Constants DEF Cpu
<1>2. PICK a \in Int, b \in Int, v \in Int :
         a = Sums(Row(x))[CPUs] /\ b = Sums(Row(x))[d - 1] /\ v = c[d][x] /\ Sums(Row(x))[d] = b + v
  BY <1>1, RowSums
<1>3. a - (b + v) \in Int /\ (s + v) + (a - (b + v)) = s + (a - b)
  OBVIOUS
<1>4. (Plus(s, v) + (a - (b + v))) % UlongRange = ((s + v) + (a - (b + v))) % UlongRange
  BY <1>3, PlusMod
<1>5. QED
  BY <1>2, <1>3, <1>4, Zenon

LEMMA AgainRound ==
  ASSUME Typed, NEW x, Room(x), NEW d \in Cpu, NEW s \in Int, NEW e \in Int,
         (s + e) % UlongRange = Sums(seq)[CPUs] - Sums(seq)[d - 1]
  PROVE  (Plus(s, -seq[d]) + e) % UlongRange = Sums(seq)[CPUs] - Sums(seq)[d]
<1>1. PICK b \in Nat, v \in Nat, n \in Nat :
         /\ b = Sums(seq)[d - 1] /\ v = seq[d] /\ n = Sums(seq)[CPUs]
         /\ Sums(seq)[d] = b + v /\ b + v <= n
  BY SeqAt
<1>2. n < UlongRange
  <2>1. PICK la \in Nat : la = Cardinality(Late(x))
    BY Kinds
  <2>2. n + la <= Cardinality(Reader)
    BY <1>1, <2>1 DEF Room
  <2>3. QED
    BY <2>2, Constants
<1>3. /\ -v \in Int /\ s + e \in Int /\ (s + -v) + e = (s + e) + -v
      /\ (n - b) + -v = n - (b + v) /\ n - (b + v) \in 0 .. UlongRange - 1
  <2>1. -v \in Int
    OBVIOUS
  <2>2. s + e \in Int /\ (s + -v) + e = (s + e) + -v /\ (n - b) + -v = n - (b + v)
    BY <2>1
  <2>3. n - (b + v) \in 0 .. UlongRange - 1
    BY <1>1, <1>2, Constants
  <2>4. QED
    BY <2>1, <2>2, <2>3
<1>4. (Plus(s, -v) + e) % UlongRange = ((s + -v) + e) % UlongRange
  BY <1>3, PlusMod
<1>5. (((s + e) % UlongRange) + -v) % UlongRange = ((s + e) + -v) % UlongRange
  BY <1>3, ModAdd
<1>6. (n - (b + v)) % UlongRange = n - (b + v)
  BY <1>3, ModSmall
<1>7. QED
  BY <1>1, <1>3, <1>4, <1>5, <1>6

\* Once the sum of the rank comes to nothing, nobody is in its critical section that was
\* when seq was summed up.
LEMMA NobodyInside ==
  ASSUME Typed, OwnerInv, NEW x \in Rank, Inside(x) = {} PROVE OldFree(x)
<1>1. SUFFICES ASSUME NEW u \in Range(batch_check0) \cup Range(batch_check1), NEW r \in old[u]
               PROVE  ridx[r] # x
  BY DEF OldFree
<1>2. u \in Updater
  BY RangeUpdater
<1>3. r \in Reader /\ rpc[r] = "in"
  BY <1>2 DEF Typed, InSection
<1>4. QED
  BY <1>3 DEF Inside

LEMMA SumPasses ==
  ASSUME Typed, OwnerInv, NEW p \in Proc, NEW l, l = loc[p], Room(l.idx), SumPhase(l), l.cpu = CPUs,
         Plus(l.sum, c[l.cpu][l.idx]) = 0
  PROVE  OldFree(l.idx) \/ \E e \in 1 .. Sums(seq)[CPUs] : (l.seq + e) % UlongRange = Sums(seq)[CPUs]
<1>1. l.idx \in Rank /\ l.cpu \in Cpu /\ l.seq \in Nat /\ l.sum \in Int
  BY LocalType
<1>2. PICK n \in Nat : n = Sums(seq)[CPUs] /\ l.seq <= n
  BY SeqSums, Zenon DEF SumPhase, SumsTo
<1>3. CASE l.seq = n
  <2>1. PICK k \in Nat : (l.sum + (Sums(Row(l.idx))[CPUs] - Sums(Row(l.idx))[l.cpu - 1])) % UlongRange
                            = Cardinality(Inside(l.idx)) + k
    BY <1>2, <1>3, Zenon DEF SumPhase, SumsTo
  <2>2. (Plus(l.sum, c[l.cpu][l.idx]) + (Sums(Row(l.idx))[CPUs] - Sums(Row(l.idx))[l.cpu])) % UlongRange
          = (l.sum + (Sums(Row(l.idx))[CPUs] - Sums(Row(l.idx))[l.cpu - 1])) % UlongRange
    BY <1>1, SumRound, Zenon
  <2>3. Sums(Row(l.idx))[CPUs] \in Int
    <3>1. CPUs \in 0 .. CPUs
      BY Constants
    <3>2. QED
      BY <1>1, <3>1, RowSums, Zenon
  <2>4. 0 + (Sums(Row(l.idx))[CPUs] - Sums(Row(l.idx))[l.cpu]) = 0
    BY <2>3
  <2>5. 0 % UlongRange = 0
    BY ModSmall, Constants
  <2>6. PICK i \in Nat : i = Cardinality(Inside(l.idx))
    BY Kinds, Zenon
  <2>7. i + k = 0
    BY <2>1, <2>2, <2>4, <2>5, <2>6, Zenon
  <2>8. i = 0
    BY <2>7
  <2>9. Inside(l.idx) \in SUBSET Reader
    BY DEF Inside
  <2>10. Inside(l.idx) = {}
    BY <2>6, <2>8, <2>9, Readers, FS_EmptySet, Zenon
  <2>11. QED
    BY <1>1, <2>10, NobodyInside, Zenon
<1>4. CASE l.seq # n
  <2>1. n - l.seq \in 1 .. n /\ l.seq + (n - l.seq) = n
    BY <1>1, <1>2, <1>4
  <2>2. n \in 0 .. UlongRange - 1
    <3>1. PICK la \in Nat : la = Cardinality(Late(l.idx))
      BY Kinds, Zenon
    <3>2. n + la <= Cardinality(Reader)
      BY <1>2, <3>1 DEF Room
    <3>3. QED
      BY <3>2, Constants
  <2>3. n % UlongRange = n
    BY <2>2, ModSmall
  <2>4. QED
    BY <1>2, <2>1, <2>3, Zenon
<1>5. QED
  BY <1>3, <1>4

\* The two sums of seq differ by what was added in between.
LEMMA AgainPasses ==
  ASSUME Typed, NEW p \in Proc, NEW l, l = loc[p], Room(l.idx), AgainPhase(l), l.cpu = CPUs,
         Plus(l.seq, -seq[l.cpu]) = 0
  PROVE  OldFree(l.idx)
<1>1. l.idx \in Rank /\ l.cpu \in Cpu /\ l.seq \in Int
  BY LocalType
<1>2. PICK n \in Nat : n = Sums(seq)[CPUs]
  BY SeqSums, Zenon
<1>3. ASSUME NEW e \in 1 .. n, (l.seq + e) % UlongRange = n - Sums(seq)[l.cpu - 1] PROVE FALSE
  <2>1. e \in Int
    OBVIOUS
  <2>2. (Plus(l.seq, -seq[l.cpu]) + e) % UlongRange = n - Sums(seq)[l.cpu]
    BY <1>1, <1>2, <1>3, <2>1, AgainRound
  <2>3. n - Sums(seq)[l.cpu] = 0 /\ 0 + e = e
    BY <1>2
  <2>4. n < UlongRange
    <3>1. PICK la \in Nat : la = Cardinality(Late(l.idx))
      BY Kinds, Zenon
    <3>2. n + la <= Cardinality(Reader)
      BY <1>2, <3>1 DEF Room
    <3>3. QED
      BY <3>2, Constants
  <2>5. e \in 0 .. UlongRange - 1
    BY <2>4, Constants
  <2>6. e % UlongRange = e
    BY <2>5, ModSmall
  <2>7. QED
    BY <2>2, <2>3, <2>6
<1>4. QED
  BY <1>2, <1>3 DEF AgainPhase

\* The loops of the check, one after the other.
LEMMA SeqNext ==
  ASSUME Typed, NEW p \in Proc, NEW l, l = loc[p], Room(l.idx), SeqPhase(l),
         NEW m, m = [l EXCEPT !.cpu = l.cpu + 1, !.sum = l.sum, !.seq = Plus(l.seq, seq[l.cpu])]
  PROVE  SeqPhase(m)
<1>1. l \in Local /\ l.cpu \in Cpu /\ l.seq \in Nat
  BY LocalType
<1>2. Plus(l.seq, seq[l.cpu]) <= Sums(seq)[l.cpu]
  BY <1>1, SeqRound DEF SeqPhase
<1>3. m.cpu = l.cpu + 1 /\ m.sum = l.sum /\ m.seq = Plus(l.seq, seq[l.cpu])
  BY <1>1 DEF Local
<1>4. m.cpu - 1 = l.cpu
  BY <1>1, <1>3 DEF Cpu
<1>5. QED
  BY <1>2, <1>3, <1>4 DEF SeqPhase

LEMMA SumNext ==
  ASSUME Typed, NEW p \in Proc, NEW l, l = loc[p], SumPhase(l),
         NEW m, m = [l EXCEPT !.cpu = l.cpu + 1, !.sum = Plus(l.sum, c[l.cpu][l.idx]), !.seq = l.seq]
  PROVE  SumPhase(m)
<1>1. l \in Local /\ l.cpu \in Cpu /\ l.sum \in Int /\ l.idx \in Rank
  BY LocalType
<1>2. (Plus(l.sum, c[l.cpu][l.idx]) + (Sums(Row(l.idx))[CPUs] - Sums(Row(l.idx))[l.cpu])) % UlongRange
        = (l.sum + (Sums(Row(l.idx))[CPUs] - Sums(Row(l.idx))[l.cpu - 1])) % UlongRange
  BY <1>1, SumRound
<1>3. /\ m.cpu = l.cpu + 1 /\ m.seq = l.seq /\ m.sum = Plus(l.sum, c[l.cpu][l.idx]) /\ m.idx = l.idx
  BY <1>1 DEF Local
<1>4. m.cpu - 1 = l.cpu
  BY <1>1, <1>3 DEF Cpu
<1>5. QED
  BY <1>2, <1>3, <1>4, Zenon DEF SumPhase, SumsTo

LEMMA AgainNext ==
  ASSUME Typed, NEW p \in Proc, NEW l, l = loc[p], Room(l.idx), AgainPhase(l),
         NEW m, m = [l EXCEPT !.cpu = l.cpu + 1, !.sum = l.sum, !.seq = Plus(l.seq, -seq[l.cpu])]
  PROVE  AgainPhase(m)
<1>1. l \in Local /\ l.cpu \in Cpu /\ l.seq \in Int
  BY LocalType
<1>2. m.cpu = l.cpu + 1 /\ m.seq = Plus(l.seq, -seq[l.cpu]) /\ m.idx = l.idx
  BY <1>1 DEF Local
<1>3. m.cpu - 1 = l.cpu
  BY <1>1, <1>2 DEF Cpu
<1>4. ASSUME NEW e \in 1 .. Sums(seq)[CPUs],
             (l.seq + e) % UlongRange = Sums(seq)[CPUs] - Sums(seq)[l.cpu - 1]
      PROVE  (Plus(l.seq, -seq[l.cpu]) + e) % UlongRange = Sums(seq)[CPUs] - Sums(seq)[l.cpu]
  <2>1. e \in Int
    OBVIOUS
  <2>2. QED
    BY <1>1, <1>4, <2>1, AgainRound
<1>5. QED
  BY <1>2, <1>3, <1>4 DEF AgainPhase

LEMMA ActiveBounds ==
  ASSUME NEW x
  PROVE  \E k \in Nat : /\ Cardinality(Active(x)) = Cardinality(Inside(x)) + k
                        /\ Cardinality(Inside(x)) + k + Cardinality(Pending(x)) <= Cardinality(Reader)
<1>1. /\ Inside(x) \subseteq Active(x) /\ Active(x) \cap Pending(x) = {}
      /\ Active(x) \cup Pending(x) \in SUBSET Reader
      /\ Active(x) \in SUBSET Reader /\ Pending(x) \in SUBSET Reader
  BY DEF Inside, Active, Pending
<1>2. IsFiniteSet(Active(x)) /\ IsFiniteSet(Pending(x))
  BY <1>1, Readers
<1>3. PICK a \in Nat, i \in Nat, p \in Nat :
         a = Cardinality(Active(x)) /\ i = Cardinality(Inside(x)) /\ p = Cardinality(Pending(x))
  BY Kinds
<1>4. i <= a
  BY <1>1, <1>2, <1>3, FS_Subset
<1>5. Cardinality(Active(x) \cup Pending(x)) = a + p - 0
  BY <1>1, <1>2, <1>3, FS_Union, FS_EmptySet
<1>6. Cardinality(Active(x) \cup Pending(x)) <= Cardinality(Reader)
  BY <1>1, Readers
<1>7. PICK n \in Nat : n = Cardinality(Reader)
  BY Constants
<1>8. a - i \in Nat /\ a = i + (a - i) /\ i + (a - i) + p <= n
  BY <1>3, <1>4, <1>5, <1>6, <1>7
<1>9. QED
  BY <1>3, <1>7, <1>8

LEMMA SumBegins ==
  ASSUME Typed, BalanceInv, NEW p \in Proc, NEW l, l = loc[p], Room(l.idx), SeqPhase(l), l.cpu = CPUs,
         NEW m, m = [l EXCEPT !.cpu = 1, !.sum = l.sum, !.seq = Plus(l.seq, seq[l.cpu])]
  PROVE  SumPhase(m)
<1>1. l \in Local /\ l.cpu \in Cpu /\ l.seq \in Nat /\ l.idx \in Rank
  BY LocalType
<1>2. Plus(l.seq, seq[l.cpu]) <= Sums(seq)[CPUs]
  BY <1>1, SeqRound DEF SeqPhase
<1>3. PICK x \in Rank : x = l.idx
  BY <1>1
<1>4. m.cpu = 1 /\ m.sum = 0 /\ m.seq = Plus(l.seq, seq[l.cpu]) /\ m.idx = x
  BY <1>1, <1>3 DEF Local, SeqPhase
<1>5. PICK a \in Int : a = Sums(Row(x))[CPUs] /\ Sums(Row(x))[0] = 0
  <2>1. CPUs \in 0 .. CPUs
    BY Constants
  <2>2. QED
    BY <2>1, RowSums
<1>6. 0 + (a - 0) = a /\ 1 - 1 = 0
  OBVIOUS
<1>7. (m.sum + (Sums(Row(x))[CPUs] - Sums(Row(x))[m.cpu - 1])) % UlongRange = Cardinality(Active(x))
  BY <1>4, <1>5, <1>6 DEF BalanceInv
<1>8. PICK k \in Nat : /\ Cardinality(Active(x)) = Cardinality(Inside(x)) + k
                       /\ Cardinality(Inside(x)) + k + Cardinality(Pending(x)) <= Cardinality(Reader)
  BY ActiveBounds
<1>9. QED
  BY <1>2, <1>4, <1>7, <1>8 DEF SumPhase, SumsTo

\* What one round of a loop leaves alone.
LEMMA AddUpSame ==
  ASSUME Typed, OwnerInv, NEW p \in Proc, AddUp(p), seq' = seq, NEW m
  PROVE  /\ Room(m.idx) => Room(m.idx)'
         /\ SeqPhase(m) => SeqPhase(m)'
         /\ SumPhase(m) => SumPhase(m)'
         /\ AgainPhase(m) => AgainPhase(m)'
<1>1. UNCHANGED <<c, rpc, ridx, old, batch_check0, batch_check1>>
  BY DEF AddUp, batches, reader, history
<1>2. /\ Row(m.idx)' = Row(m.idx) /\ Inside(m.idx)' = Inside(m.idx)
      /\ Pending(m.idx)' = Pending(m.idx) /\ Late(m.idx)' = Late(m.idx)
      /\ OldFree(m.idx) => OldFree(m.idx)'
  BY <1>1 DEF Row, Inside, Pending, Late, OldFree
<1>3. Room(m.idx) => Room(m.idx)'
  BY <1>2 DEF Room
<1>4. SeqPhase(m) => SeqPhase(m)'
  BY DEF SeqPhase
<1>5. SumPhase(m) => SumPhase(m)'
  BY <1>2 DEF SumPhase, SumsTo
<1>6. AgainPhase(m) => AgainPhase(m)'
  BY <1>2 DEF AgainPhase
<1>7. QED
  BY <1>3, <1>4, <1>5, <1>6

\* The rounds that stay in a loop or go on to the next.
LEMMA AddUpPhase ==
  ASSUME Typed, OwnerInv, BalanceInv, CheckInv, NEW p \in Proc, AddUp(p)
  PROVE  \/ /\ seq' = seq /\ pc'[p] \in Summing /\ Phase(p)' /\ loc'[p].idx = loc[p].idx
            /\ \A q \in Proc : q # p => pc'[q] = pc[q]
         \/ /\ seq' = [d \in Cpu |-> 0] /\ pc'[p] \in {"pass", "fail"} /\ loc'[p].idx = loc[p].idx
            /\ \A q \in Proc : q # p => pc'[q] = pc[q]
            /\ pc'[p] = "pass" => OldFree(loc[p].idx)
<1>1. Summing = {"seq", "sum", "again"} /\ pc \in [Proc -> Places] /\ loc \in [Proc -> Local]
  BY DEF Summing, OwnerInv, Typed
<1>2. pc[p] \in Summing /\ Phase(p)
  BY DEF AddUp, CheckInv
<1>3. PICK l : l = loc[p] /\ l \in Local
  BY <1>1
<1>4. Room(l.idx)
  BY <1>2, <1>3, Zenon DEF Phase
<1>5. CASE l.cpu # CPUs
  <2>1. pc' = pc /\ seq' = seq
    BY <1>3, <1>5, AddUpRound, Zenon
  <2>2. CASE pc[p] = "seq"
    <3>1. PICK m : m = [l EXCEPT !.cpu = l.cpu + 1, !.sum = l.sum, !.seq = Plus(l.seq, seq[l.cpu])]
      OBVIOUS
    <3>2. loc' = [loc EXCEPT ![p] = m]
      BY <1>3, <1>5, <2>2, <3>1, AddUpRound, Zenon
    <3>3. loc'[p] = m /\ m.idx = l.idx
      BY <1>1, <1>3, <3>1, <3>2 DEF Local
    <3>4. SeqPhase(m)
      BY <1>2, <1>3, <1>4, <2>2, <3>1, SeqNext, Zenon DEF Phase
    <3>5. Room(m.idx)' /\ SeqPhase(m)'
      BY <1>4, <2>1, <3>3, <3>4, AddUpSame, Zenon
    <3>6. QED
      BY <1>1, <1>3, <2>1, <2>2, <3>3, <3>5, Zenon DEF Phase
  <2>3. CASE pc[p] = "sum"
    <3>1. PICK m : m = [l EXCEPT !.cpu = l.cpu + 1, !.sum = Plus(l.sum, c[l.cpu][l.idx]), !.seq = l.seq]
      OBVIOUS
    <3>2. loc' = [loc EXCEPT ![p] = m]
      BY <1>3, <1>5, <2>3, <3>1, AddUpRound, Zenon
    <3>3. loc'[p] = m /\ m.idx = l.idx
      BY <1>1, <1>3, <3>1, <3>2 DEF Local
    <3>4. SumPhase(m)
      BY <1>2, <1>3, <2>3, <3>1, SumNext, Zenon DEF Phase
    <3>5. Room(m.idx)' /\ SumPhase(m)'
      BY <1>4, <2>1, <3>3, <3>4, AddUpSame, Zenon
    <3>6. QED
      BY <1>1, <1>3, <2>1, <2>3, <3>3, <3>5, Zenon DEF Phase
  <2>4. CASE pc[p] = "again"
    <3>1. PICK m : m = [l EXCEPT !.cpu = l.cpu + 1, !.sum = l.sum, !.seq = Plus(l.seq, -seq[l.cpu])]
      OBVIOUS
    <3>2. loc' = [loc EXCEPT ![p] = m]
      BY <1>3, <1>5, <2>4, <3>1, AddUpRound, Zenon
    <3>3. loc'[p] = m /\ m.idx = l.idx
      BY <1>1, <1>3, <3>1, <3>2 DEF Local
    <3>4. AgainPhase(m)
      BY <1>2, <1>3, <1>4, <2>4, <3>1, AgainNext, Zenon DEF Phase
    <3>5. Room(m.idx)' /\ AgainPhase(m)'
      BY <1>4, <2>1, <3>3, <3>4, AddUpSame
    <3>6. QED
      BY <1>1, <1>3, <2>1, <2>4, <3>3, <3>5, Zenon DEF Phase
  <2>5. QED
    BY <1>1, <1>2, <2>2, <2>3, <2>4, Zenon
<1>6. CASE l.cpu = CPUs /\ pc[p] = "seq"
  <2>1. PICK m : m = [l EXCEPT !.cpu = 1, !.sum = l.sum, !.seq = Plus(l.seq, seq[l.cpu])]
    OBVIOUS
  <2>2. pc' = [pc EXCEPT ![p] = "sum"] /\ seq' = seq /\ loc' = [loc EXCEPT ![p] = m]
    BY <1>3, <1>6, <2>1, SeqEnds, Zenon
  <2>3. loc'[p] = m /\ m.idx = l.idx /\ pc'[p] = "sum" /\ \A q \in Proc : q # p => pc'[q] = pc[q]
    BY <1>1, <1>3, <2>1, <2>2 DEF Local
  <2>4. SumPhase(m)
    BY <1>2, <1>3, <1>4, <1>6, <2>1, SumBegins, Zenon DEF Phase
  <2>5. Room(m.idx)' /\ SumPhase(m)'
    BY <1>4, <2>2, <2>3, <2>4, AddUpSame, Zenon
  <2>6. QED
    BY <1>1, <1>3, <2>2, <2>3, <2>5 DEF Phase
<1>7. CASE l.cpu = CPUs /\ pc[p] = "sum"
  <2>1. PICK g : g = Plus(l.sum, c[l.cpu][l.idx])
    OBVIOUS
  <2>2. l = loc[p] /\ l.cpu = CPUs /\ pc[p] = "sum" /\ SumPhase(l)
    BY <1>2, <1>3, <1>7, Zenon DEF Phase
  <2>3. SumOver(p, l, g)
    BY <2>1, <2>2, SumEnds, Zenon
  <2>4. CASE g = 0
    <3>1. PICK m : m = [l EXCEPT !.cpu = 1, !.sum = 0, !.seq = l.seq]
      OBVIOUS
    <3>2. pc' = [pc EXCEPT ![p] = "again"] /\ seq' = seq /\ loc' = [loc EXCEPT ![p] = m]
      BY <2>3, <2>4, <3>1 DEF SumOver
    <3>3. /\ loc'[p] = m /\ m.idx = l.idx /\ m.cpu = 1 /\ m.seq = l.seq
          /\ pc'[p] = "again" /\ \A q \in Proc : q # p => pc'[q] = pc[q]
      BY <1>1, <1>3, <3>1, <3>2 DEF Local
    <3>4. OldFree(l.idx) \/ \E e \in 1 .. Sums(seq)[CPUs] : (l.seq + e) % UlongRange = Sums(seq)[CPUs]
      BY <1>4, <2>1, <2>2, <2>4, SumPasses
    <3>5. AgainPhase(m)
      <4>1. PICK n \in Nat : n = Sums(seq)[CPUs]
        BY SeqSums
      <4>2. Sums(seq)[1 - 1] = 0 /\ n - 0 = n
        BY SeqSums
      <4>3. QED
        BY <3>3, <3>4, <4>1, <4>2 DEF AgainPhase
    <3>6. Room(m.idx)' /\ AgainPhase(m)'
      BY <1>4, <3>2, <3>3, <3>5, AddUpSame, Zenon
    <3>7. QED
      BY <1>1, <1>3, <3>2, <3>3, <3>6 DEF Phase
  <2>5. CASE g # 0
    <3>1. PICK m : m = [l EXCEPT !.cpu = 1, !.sum = 0, !.seq = 0]
      OBVIOUS
    <3>2. /\ pc' = [pc EXCEPT ![p] = "fail"] /\ seq' = [d \in Cpu |-> 0]
          /\ loc' = [loc EXCEPT ![p] = m]
      BY <2>3, <2>5, <3>1 DEF SumOver
    <3>3. QED
      BY <1>1, <1>3, <3>1, <3>2 DEF Local
  <2>6. QED
    BY <2>4, <2>5, Zenon
<1>8. CASE l.cpu = CPUs /\ pc[p] = "again"
  <2>1. PICK m : m = [l EXCEPT !.cpu = 1, !.sum = 0, !.seq = 0]
    OBVIOUS
  <2>2. /\ pc' = [pc EXCEPT ![p] = IF Plus(l.seq, -seq[l.cpu]) = 0 THEN "pass" ELSE "fail"]
        /\ seq' = [d \in Cpu |-> 0] /\ loc' = [loc EXCEPT ![p] = m]
    BY <1>3, <1>8, <2>1, AgainEnds, Zenon
  <2>3. Plus(l.seq, -seq[l.cpu]) = 0 => OldFree(l.idx)
    BY <1>2, <1>3, <1>4, <1>8, AgainPasses, Zenon DEF Phase
  <2>4. loc'[p].idx = l.idx
    BY <1>1, <1>3, <2>1, <2>2 DEF Local
  <2>5. pc'[p] \in {"pass", "fail"} /\ pc'[p] = "pass" => OldFree(l.idx)
    BY <1>1, <2>2, <2>3
  <2>6. QED
    BY <1>1, <1>3, <2>2, <2>4, <2>5
<1>9. QED
  BY <1>1, <1>2, <1>5, <1>6, <1>7, <1>8, Zenon

LEMMA AddUpGrace ==
  ASSUME Typed, OwnerInv, BalanceInv, GraceInv, CheckInv, NEW p \in Proc, AddUp(p)
  PROVE  GraceInv' /\ CheckInv'
<1>1. /\ UNCHANGED <<completed, ridx, old, status, batch_check0, batch_check1, batch_done>>
      /\ pc[p] \in Summing
  BY DEF AddUp, batches, reader, history
<1>2. Summing = {"seq", "sum", "again"}
  BY DEF Summing
<1>3. \A q \in Proc : q # p => pc[q] = "idle"
  BY <1>1, <1>2, OthersIdle
<1>4. /\ \A q \in Proc : q # p => pc'[q] = "idle"
      /\ loc'[p].idx = loc[p].idx
      /\ pc'[p] = "pass" => OldFree(loc[p].idx)
  BY <1>2, <1>3, AddUpPhase
<1>5. OldFree(loc[p].idx) => OldFree(loc[p].idx)'
  BY <1>1, <1>4, Zenon DEF OldFree
<1>6. GraceInv'
  BY <1>1, <1>2, <1>4, <1>5, Zenon DEF GraceInv
<1>7. \/ seq' = seq /\ pc'[p] \in Summing /\ Phase(p)'
      \/ seq' = [d \in Cpu |-> 0] /\ pc'[p] \in {"pass", "fail"}
  BY AddUpPhase, Zenon
<1>8. \A q \in Proc : q # p => Phase(q)'
  BY <1>2, <1>4, Zenon DEF Phase
<1>9. pc'[p] \in {"pass", "fail"} => Phase(p)'
  BY <1>2 DEF Phase
<1>10. CheckInv'
  BY <1>7, <1>8, <1>9 DEF CheckInv
<1>11. QED
  BY <1>6, <1>10

LEMMA GraceStep ==
  ASSUME Typed, OwnerInv, BalanceInv, QueueInv, GraceInv, CheckInv, [Next]_vars
  PROVE  GraceInv' /\ CheckInv'
<1>1. CASE UNCHANGED vars
  <2>1. GraceInv'
    BY <1>1, Zenon DEF vars, counters, batches, reader, driver, history, GraceInv, OldFree
  <2>2. UNCHANGED <<c, seq, rpc, ridx, pc, loc>> /\ \A x : OldFree(x) => OldFree(x)'
    BY <1>1, Zenon DEF vars, counters, batches, reader, driver, history, OldFree
  <2>3. \A x : /\ Row(x)' = Row(x) /\ Inside(x)' = Inside(x)
               /\ Pending(x)' = Pending(x) /\ Late(x)' = Late(x)
    BY <2>2, Zenon DEF Row, Inside, Pending, Late
  <2>4. ASSUME NEW p \in Proc PROVE Phase(p)'
    <3>1. CASE pc[p] \in Summing
      <4>1. PICK l : l = loc[p]
        OBVIOUS
      <4>2. QED
        BY <2>2, <2>3, <3>1, <4>1, PhaseSame, Zenon DEF CheckInv
    <3>2. CASE pc[p] \notin Summing
      BY <2>2, <3>2, Zenon DEF Phase, Summing
    <3>3. QED
      BY <3>1, <3>2
  <2>5. QED
    BY <2>1, <2>2, <2>4 DEF CheckInv
<1>2. CASE \E r \in Reader : ReadIdx(r) \/ ReaderStep(r)
  BY <1>2, ReadersGrace, ReadersPhase
<1>3. CASE \E u \in Updater : CallSrcu(u) \/ SynchronizeSrcu(u) \/ Return(u)
  BY <1>3, UpdatersGrace, UpdatersPhase
<1>4. CASE Driving
  BY <1>4, InvokeGrace, CollectGrace, AdvanceGrace, SucceedsGrace, AddUpGrace DEF Driving, Drive
<1>5. QED
  BY <1>1, <1>2, <1>3, <1>4 DEF Next

LEMMA GraceInit == Init => GraceInv /\ CheckInv
<1> SUFFICES ASSUME Init PROVE GraceInv /\ CheckInv
  OBVIOUS
<1>1. Range(<<>>) = {}
  BY DEF Range
<1>2. \A p \in Proc : pc[p] = "idle"
  BY DEF Init
<1>3. GraceInv
  BY <1>1, <1>2 DEF Init, GraceInv, Summing
<1>4. CheckInv
  BY <1>2 DEF Init, CheckInv, Phase, Summing
<1>5. QED
  BY <1>3, <1>4

SrcuInv == OwnerInv /\ Typed /\ BalanceInv /\ QueueInv /\ GraceInv /\ CheckInv

LEMMA SrcuSpec == Spec => []SrcuInv
<1>1. Init => SrcuInv
  BY OwnerInit, TypedInit, BalanceInit, QueueInit, GraceInit DEF SrcuInv
<1>2. SrcuInv /\ [Next]_vars => SrcuInv'
  BY OwnerInvariant, TypedStep, BalanceStep, QueueStep, GraceStep DEF SrcuInv
<1>3. QED
  BY <1>1, <1>2, PTL DEF Spec

\* A callback is ready, and a synchronize_srcu() over, only when the critical sections
\* that were open at the call have ended: for any number of readers, updaters and CPUs,
\* for counters of any width that can count the readers, and although a reader may
\* hold the index it picked for any time before it counts itself, and migrate between
\* that, its second access and srcu_read_unlock() (srcu.c:337, srcu_readers_active_idx_check()).
THEOREM GraceKept == Spec => []GracePeriod
<1>1. SrcuInv => GracePeriod
  BY DEF SrcuInv, GraceInv, GracePeriod, Range
<1>2. QED
  BY <1>1, SrcuSpec, PTL
=============================================================================
