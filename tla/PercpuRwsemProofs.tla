------------------------- MODULE PercpuRwsemProofs -------------------------
(***************************************************************************)
(* What percpu-rwsem.c promises, for any number of readers, writers and    *)
(* CPUs: a writer is alone, its slow counter is the number of readers, and *)
(* what either side wrote is seen by the other.                            *)
(***************************************************************************)
EXTENDS PercpuRwsem, FiniteSetTheorems, SequenceTheorems, TLAPS

Rpc == {"out", "downAdd", "downSlow", "downLock", "downInc", "downUp",
        "in", "upAdd", "upDec", "upWake"}

Wpc == Waiting \cup {"out", "grace", "lock", "clear", "write", "sync"}

\* The writers that write_ctr counts, and those who act as holders of ->rw_sem.
Busy    == {w \in Writer : wpc[w] # "out"}
Holding == Waiting \cup {"clear", "write"}

\* The readers that some counter counts, and what the writer has collected.
Counted == {r \in Reader : rpc[r] \in {"downUp", "in", "upAdd", "upDec"}}
Carried == IF rw_writer = None THEN 0 ELSE sum[rw_writer]

Typed ==
  /\ slow_read_ctr \in 0 .. IntRange - 1
  /\ fast_read_ctr \in [Cpu -> 0 .. IntRange - 1]
  /\ rpc \in [Reader -> Rpc] /\ cpu \in [Reader -> Cpu \cup {None}]
  /\ wpc \in [Writer -> Wpc]
  /\ grace \in [Writer -> SUBSET Cpu] /\ dirty \subseteq Cpu
  /\ visit \in [Writer -> 1 .. CPUs + 1]
  /\ sum \in [Writer -> 0 .. IntRange - 1] /\ asleep \subseteq Writer

\* Once a writer counts, no section begins on the fast path, and those that had begun
\* are on CPUs its grace period still waits for.  So are the CPUs without a barrier.
SectionInv ==
  /\ write_ctr = Cardinality(Busy)
  /\ \A r \in Reader : cpu[r] # None <=> rpc[r] \in {"downAdd", "upAdd"}
  /\ \A w \in Writer, r \in Reader :
        wpc[w] # "out" /\ cpu[r] # None => wpc[w] = "grace" /\ cpu[r] \in grace[w]
  /\ \A w \in Writer : wpc[w] # "out" => dirty \subseteq IF wpc[w] = "grace" THEN grace[w] ELSE {}
  /\ \A w \in Writer : wpc[w] \notin {"grace", "sync"} => grace[w] = {}

\* Who waits in the queue, once each.
QueueOK(q) ==
  /\ q \in Seq(Rw!Waiter)
  /\ \A i \in 1 .. Len(q) : q[i].type = "read" =>
        q[i].task \in Reader /\ rpc[q[i].task] = "downLock" /\ q[i].task \notin rw_readers
  /\ \A i, j \in 1 .. Len(q) : q[i].task = q[j].task => i = j

\* ->rw_sem is held by those who act as if they held it.
LockInv ==
  /\ rw_readers \subseteq Reader /\ rw_writer \in Writer \cup {None}
  /\ rw_writer # None => rw_readers = {}
  /\ \A w \in Writer : rw_writer = w <=> wpc[w] \in Holding
  /\ \A r \in Reader : rpc[r] \in {"downInc", "downUp"} => r \in rw_readers
  /\ \A r \in rw_readers : rpc[r] \in {"downLock", "downInc", "downUp"}
  /\ QueueOK(rw_queue)

\* t[n] is the sum of the first n counters of f.
Sums(t, f) ==
  /\ t \in [0 .. CPUs -> Int] /\ t[0] = 0
  /\ \A c \in Cpu : t[c] = t[c - 1] + f[c]

\* A writer that clears the counters leaves zeros behind.
Zeros(t) ==
  \A w \in Writer : /\ wpc[w] = "clear" => t[visit[w] - 1] = 0
                    /\ wpc[w] \in Waiting => t[CPUs] = 0

\* All counters together, the per-CPU ones added up in t, are the number of readers,
\* modulo the range of an int.
Adds(t) ==
  /\ Sums(t, fast_read_ctr) /\ Zeros(t)
  /\ (slow_read_ctr + t[CPUs] + Carried) % IntRange = Cardinality(Counted)

Quiet == \A w \in Writer : wpc[w] # "clear" => visit[w] = 1 /\ sum[w] = 0
Empty == \A w \in Writer : wpc[w] = "write" => Counted = {}

CountInv == Quiet /\ Empty /\ \E t : Adds(t)

PercpuInv == Typed /\ SectionInv /\ LockInv /\ CountInv
-----------------------------------------------------------------------------
LEMMA Constants ==
  /\ CPUs \in Nat /\ CPUs > 0 /\ IntRange \in Nat /\ IntRange > 0
  /\ Cardinality(Reader) \in Nat /\ Cardinality(Reader) < IntRange
  /\ None \notin Reader /\ None \notin Writer /\ None \notin Cpu /\ Reader \cap Writer = {}
BY RwsemAssumption, FS_CardinalityType

\* Wrapping can be put off until the end.
LEMMA ModAdd ==
  ASSUME NEW a \in Int, NEW b \in Int
  PROVE  /\ a % IntRange \in 0 .. IntRange - 1
         /\ ((a % IntRange) + b) % IntRange = (a + b) % IntRange
<1> DEFINE R == IntRange
<1>0. R \in Nat /\ R > 0
  BY Constants
<1> HIDE DEF R
<1>1. PICK q \in Int : a = R * q + (a % R) /\ a % R \in 0 .. R - 1
  BY <1>0
<1>2. PICK s \in 0 .. R - 1 : s = a % R
  BY <1>1
<1>3. PICK p \in Int : s + b = R * p + ((s + b) % R) /\ (s + b) % R \in 0 .. R - 1
  BY <1>0, <1>2
<1>4. PICK t \in 0 .. R - 1 : t = (s + b) % R
  BY <1>3
<1>5. a + b = R * (q + p) + t
  BY <1>0, <1>1, <1>2, <1>3, <1>4
<1>6. \A z \in Int : (R * z + t) % R = t
  BY <1>0
<1>7. q + p \in Int
  OBVIOUS
<1>8. QED
  BY <1>1, <1>2, <1>4, <1>5, <1>6, <1>7 DEF R

LEMMA ModSmall == ASSUME NEW a \in 0 .. IntRange - 1 PROVE a % IntRange = a
BY Constants

LEMMA PlusType == ASSUME NEW a \in Int, NEW b \in Int PROVE Plus(a, b) \in 0 .. IntRange - 1
BY ModAdd DEF Plus

\* A counter that wraps counts as well as one that does not.
LEMMA PlusRest ==
  ASSUME NEW a \in Int, NEW b \in Int, NEW rest \in Int
  PROVE  (Plus(a, b) + rest) % IntRange = (a + b + rest) % IntRange
<1>1. PICK s \in Int : s = a + b
  OBVIOUS
<1>2. QED
  BY <1>1, ModAdd DEF Plus

\* One reader more, or less.
LEMMA OneMore ==
  ASSUME NEW z \in Int, NEW v \in Int, (z % IntRange) + v \in 0 .. IntRange - 1
  PROVE  (z + v) % IntRange = (z % IntRange) + v
<1>1. PICK n \in Int : n = z % IntRange
  BY ModAdd
<1>2. n + v \in 0 .. IntRange - 1 /\ (n + v) % IntRange = (z + v) % IntRange
  BY <1>1, ModAdd
<1>3. (n + v) % IntRange = n + v
  BY <1>2, ModSmall
<1>4. QED
  BY <1>1, <1>2, <1>3

\* Sets of tasks are finite, and there are fewer readers than values of an int.
LEMMA Tasks ==
  ASSUME NEW A \in {Reader, Writer}, NEW S \in SUBSET A
  PROVE  /\ IsFiniteSet(S) /\ Cardinality(S) \in Nat /\ Cardinality(S) <= Cardinality(A)
         /\ Cardinality(S) = 0 <=> S = {}
         /\ \A r \in A \ S : Cardinality(S \cup {r}) = Cardinality(S) + 1
         /\ \A r \in S : Cardinality(S \ {r}) = Cardinality(S) - 1
<1>1. IsFiniteSet(S) /\ Cardinality(S) <= Cardinality(A)
  BY RwsemAssumption, FS_Subset
<1>2. Cardinality(S) \in Nat
  BY <1>1, FS_CardinalityType
<1>3. Cardinality(S) = 0 <=> S = {}
  BY <1>1, FS_EmptySet
<1>4. \A r \in A \ S : Cardinality(S \cup {r}) = Cardinality(S) + 1
  BY <1>1, FS_AddElement
<1>5. \A r \in S : Cardinality(S \ {r}) = Cardinality(S) - 1
  BY <1>1, FS_RemoveElement
<1>6. QED
  BY <1>1, <1>2, <1>3, <1>4, <1>5

\* One counter changes, and the sums from its CPU on with it.
LEMMA SumsMove ==
  ASSUME NEW f \in [Cpu -> Int], NEW t, Sums(t, f), NEW c \in Cpu, NEW v \in Int
  PROVE  \E u : /\ Sums(u, [f EXCEPT ![c] = v])
                /\ \A n \in 0 .. CPUs : u[n] = t[n] + (IF n >= c THEN v - f[c] ELSE 0)
<1>1. PICK x \in Int : x = v - f[c]
  OBVIOUS
<1>2. PICK g : g = [f EXCEPT ![c] = v]
  BY Zenon
<1>3. PICK u : u = [n \in 0 .. CPUs |-> t[n] + (IF n >= c THEN x ELSE 0)]
  BY Zenon
<1>4. t \in [0 .. CPUs -> Int] /\ t[0] = 0 /\ c \in 1 .. CPUs
  BY DEF Sums, Cpu
<1>5. u \in [0 .. CPUs -> Int] /\ u[0] = 0
  <2>1. u \in [0 .. CPUs -> Int]
    BY <1>1, <1>3, <1>4
  <2>2. 0 \in 0 .. CPUs /\ ~(0 >= c)
    BY <1>4, Constants
  <2>3. u[0] = t[0] + 0
    BY <1>3, <2>2
  <2>4. QED
    BY <1>4, <2>1, <2>3
<1>6. ASSUME NEW d \in Cpu PROVE u[d] = u[d - 1] + g[d]
  <2>1. /\ d \in 1 .. CPUs /\ d \in 0 .. CPUs /\ d - 1 \in 0 .. CPUs
        /\ t[d] = t[d - 1] + f[d] /\ t[d] \in Int /\ t[d - 1] \in Int /\ f[d] \in Int
    BY <1>4, Constants DEF Sums, Cpu
  <2>2. g[d] = IF d = c THEN v ELSE f[d]
    BY <1>2
  <2>3. /\ u[d] = t[d] + (IF d >= c THEN x ELSE 0)
        /\ u[d - 1] = t[d - 1] + (IF d - 1 >= c THEN x ELSE 0)
    BY <1>3, <2>1
  <2>4. PICK a \in Int, b \in Int, y \in Int, z \in Int :
           a = t[d] /\ b = t[d - 1] /\ y = f[d] /\ z = v
    BY <2>1
  <2>5. CASE d = c
    BY <1>1, <1>4, <2>1, <2>2, <2>3, <2>4, <2>5
  <2>6. CASE d # c
    BY <1>1, <1>4, <2>1, <2>2, <2>3, <2>4, <2>6
  <2>7. QED
    BY <2>5, <2>6
<1>7. Sums(u, g)
  BY <1>5, <1>6, Zenon DEF Sums
<1>8. \A n \in 0 .. CPUs : u[n] = t[n] + (IF n >= c THEN v - f[c] ELSE 0)
  BY <1>1, <1>3
<1>9. QED
  BY <1>2, <1>7, <1>8
-----------------------------------------------------------------------------
(* Types.                                                                  *)

LEMMA Ints ==
  ASSUME Typed
  PROVE  /\ slow_read_ctr \in Int /\ fast_read_ctr \in [Cpu -> Int] /\ sum \in [Writer -> Int]
         /\ \A c \in Cpu : fast_read_ctr[c] \in 0 .. IntRange - 1
BY Constants DEF Typed

LEMMA TypedReaders ==
  ASSUME Typed, SectionInv, NEW r \in Reader, DownRead(r) \/ ReaderStep(r)
  PROVE  Typed'
<1> USE DEF RGoto, Rpc, counters, writer
<1>1. UNCHANGED <<wpc, grace, visit, sum>> /\ asleep' \subseteq asleep
  BY DEF DownRead, ReaderStep, UpdateFastCtr, FastAdd, DownSlow, DownLock, DownInc, DownUp,
         UpRead, UpDec, UpWake
<1>2. CASE DownRead(r) \/ UpRead(r)
  BY <1>1, <1>2 DEF DownRead, UpRead, UpdateFastCtr, Typed
<1>3. CASE FastAdd(r)
  <2>1. cpu[r] \in Cpu
    BY <1>3 DEF FastAdd, SectionInv, Typed
  <2>2. PICK v \in Int : fast_read_ctr' = [fast_read_ctr EXCEPT ![cpu[r]] = Plus(@, v)]
    <3>1. 1 \in Int /\ -1 \in Int
      OBVIOUS
    <3>2. QED
      BY <1>3, <3>1, Zenon DEF FastAdd
  <2>3. Plus(fast_read_ctr[cpu[r]], v) \in 0 .. IntRange - 1
    BY <2>1, Ints, PlusType, Zenon
  <2>4. fast_read_ctr' \in [Cpu -> 0 .. IntRange - 1]
    BY <2>1, <2>2, <2>3 DEF Typed
  <2>5. rpc' \in [Reader -> Rpc] /\ cpu' \in [Reader -> Cpu \cup {None}] /\ dirty' \subseteq Cpu
    BY <1>3, <2>1 DEF FastAdd, Typed
  <2>6. QED
    BY <1>1, <1>3, <2>4, <2>5 DEF FastAdd, Typed
<1>4. CASE DownSlow(r) \/ DownLock(r) \/ DownUp(r) \/ UpWake(r)
  BY <1>1, <1>4 DEF DownSlow, DownLock, DownUp, UpWake, Typed
<1>5. CASE DownInc(r) \/ UpDec(r)
  <2>1. 1 \in Int /\ -1 \in Int /\ slow_read_ctr \in Int
    BY Ints
  <2>2. slow_read_ctr' \in 0 .. IntRange - 1
    BY <1>5, <2>1, PlusType, Zenon DEF DownInc, UpDec
  <2>3. QED
    BY <1>1, <1>5, <2>2 DEF DownInc, UpDec, Typed
<1>6. QED
  BY <1>2, <1>3, <1>4, <1>5 DEF ReaderStep

LEMMA TypedWriters ==
  ASSUME Typed, NEW w \in Writer, DownWrite(w) \/ LockWrite(w) \/ WriterStep(w)
  PROVE  Typed'
<1> USE DEF WGoto, Wpc, Waiting, counters, reader
<1>1. CASE DownWrite(w) \/ UpWrite(w)
  BY <1>1 DEF DownWrite, UpWrite, Synchronize, Typed
<1>2. CASE LockWrite(w) \/ QueueWrite(w) \/ Prepare(w) \/ Woken(w) \/ DecWriteCtr(w) \/ Test(w)
  BY <1>2 DEF LockWrite, QueueWrite, Prepare, Woken, DecWriteCtr, Test, Typed
<1>3. CASE ClearFastCtr(w)
  <2>1. Plus(sum[w], fast_read_ctr[visit[w]]) \in 0 .. IntRange - 1
    BY <1>3, Ints, PlusType, Zenon DEF ClearFastCtr
  <2>2. fast_read_ctr' \in [Cpu -> 0 .. IntRange - 1] /\ sum' \in [Writer -> 0 .. IntRange - 1]
    BY <1>3, <2>1, Constants DEF ClearFastCtr, Cleared, Typed
  <2>3. visit' \in [Writer -> 1 .. CPUs + 1]
    BY <1>3, Constants DEF ClearFastCtr, Cpu, Typed
  <2>4. QED
    BY <1>3, <2>2, <2>3 DEF ClearFastCtr, Typed
<1>4. CASE MoveSum(w)
  <2>1. slow_read_ctr' \in 0 .. IntRange - 1
    BY <1>4, Ints, PlusType DEF MoveSum
  <2>2. QED
    BY <1>4, <2>1, Constants DEF MoveSum, Typed
<1>5. ASSUME NEW c \in Cpu, Quiesce(w, c) PROVE Typed'
  BY <1>5 DEF Quiesce, Typed
<1>6. QED
  BY <1>1, <1>2, <1>3, <1>4, <1>5 DEF WriterStep
-----------------------------------------------------------------------------
(* Sections, grace periods and barriers.                                   *)

\* A writer that counts is seen.
LEMMA NobodyBusy ==
  ASSUME SectionInv, write_ctr = 0
  PROVE  \A w \in Writer : wpc[w] = "out"
<1>1. Busy \in SUBSET Writer /\ Cardinality(Busy) = 0
  BY DEF SectionInv, Busy
<1>2. Busy = {}
  BY <1>1, Tasks
<1>3. QED
  BY <1>2 DEF Busy

LEMMA SectionReaders ==
  ASSUME Typed, SectionInv, NEW r \in Reader, DownRead(r) \/ ReaderStep(r)
  PROVE  SectionInv'
<1> USE DEF RGoto, Rpc, counters, writer
<1>1. UNCHANGED <<write_ctr, wpc, grace>>
  BY DEF DownRead, ReaderStep, UpdateFastCtr, FastAdd, DownSlow, DownLock, DownInc, DownUp,
         UpRead, UpDec, UpWake
<1>2. Busy' = Busy
  BY <1>1 DEF Busy
<1>3. CASE DownRead(r) \/ UpRead(r)
  <2>1. PICK c \in Cpu : \/ UpdateFastCtr(r, c, "downAdd", "downSlow") /\ rpc[r] = "out"
                         \/ UpdateFastCtr(r, c, "upAdd", "upDec") /\ rpc[r] = "in"
    BY <1>3 DEF DownRead, UpRead
  <2>2. c # None
    BY Constants
  <2>3. \A s \in Reader : cpu'[s] # None <=> rpc'[s] \in {"downAdd", "upAdd"}
    BY <2>1, <2>2 DEF UpdateFastCtr, Typed, SectionInv
  <2>4. CASE write_ctr = 0
    BY <1>1, <1>2, <2>1, <2>3, <2>4, NobodyBusy DEF UpdateFastCtr, SectionInv
  <2>5. CASE write_ctr # 0
    BY <1>1, <1>2, <2>1, <2>3, <2>5 DEF UpdateFastCtr, SectionInv
  <2>6. QED
    BY <2>4, <2>5
<1>4. CASE FastAdd(r)
  <2>1. /\ rpc[r] \in {"downAdd", "upAdd"} /\ cpu[r] # None
        /\ rpc'[r] \in {"in", "out"} /\ cpu'[r] = None
        /\ \A s \in Reader \ {r} : cpu'[s] = cpu[s] /\ rpc'[s] = rpc[s]
        /\ dirty' \subseteq dirty \cup {cpu[r]}
    BY <1>4 DEF FastAdd, SectionInv, Typed
  <2>2. /\ \A s \in Reader : cpu'[s] # None <=> rpc'[s] \in {"downAdd", "upAdd"}
        /\ \A s \in Reader : cpu'[s] # None => cpu'[s] = cpu[s]
    BY <2>1 DEF SectionInv
  <2>3. \A w \in Writer : wpc[w] # "out" => dirty' \subseteq IF wpc[w] = "grace" THEN grace[w] ELSE {}
    BY <2>1 DEF SectionInv
  <2>4. QED
    BY <1>1, <1>2, <2>2, <2>3 DEF SectionInv
<1>5. CASE DownSlow(r) \/ DownLock(r) \/ DownInc(r) \/ DownUp(r) \/ UpDec(r) \/ UpWake(r)
  <2>1. UNCHANGED <<cpu, dirty>>
    BY <1>5 DEF DownSlow, DownLock, DownInc, DownUp, UpDec, UpWake
  <2>2. /\ rpc[r] \notin {"downAdd", "upAdd"} /\ rpc'[r] \notin {"downAdd", "upAdd"}
        /\ \A s \in Reader \ {r} : rpc'[s] = rpc[s]
    BY <1>5 DEF DownSlow, DownLock, DownInc, DownUp, UpDec, UpWake, Typed
  <2>3. QED
    BY <1>1, <1>2, <2>1, <2>2 DEF SectionInv
<1>6. QED
  BY <1>3, <1>4, <1>5 DEF ReaderStep

LEMMA SectionWriters ==
  ASSUME Typed, SectionInv, NEW w \in Writer, DownWrite(w) \/ LockWrite(w) \/ WriterStep(w)
  PROVE  SectionInv'
<1> USE DEF WGoto, Wpc, Waiting, counters, reader
<1>1. UNCHANGED <<rpc, cpu>> /\ dirty' \subseteq dirty
  BY DEF WriterStep, DownWrite, LockWrite, QueueWrite, ClearFastCtr, MoveSum, Test, Prepare, Woken,
         UpWrite, DecWriteCtr, Quiesce
<1>2. CASE DownWrite(w)
  <2>1. /\ wpc[w] = "out" /\ wpc' = [wpc EXCEPT ![w] = "grace"]
        /\ grace' = [grace EXCEPT ![w] = Cpu] /\ write_ctr' = write_ctr + 1
    BY <1>2 DEF DownWrite, Synchronize
  <2>2. Busy' = Busy \cup {w} /\ w \in Writer \ Busy /\ Busy \in SUBSET Writer
    BY <2>1 DEF Busy, Typed
  <2>3. write_ctr' = Cardinality(Busy')
    BY <2>1, <2>2, Tasks DEF SectionInv
  <2>4. QED
    BY <1>1, <2>1, <2>3 DEF SectionInv, Typed
<1>3. CASE DecWriteCtr(w)
  <2>1. /\ wpc[w] = "sync" /\ wpc' = [wpc EXCEPT ![w] = "out"] /\ grace[w] = {}
        /\ UNCHANGED <<grace, dirty>> /\ write_ctr' = write_ctr - 1
    BY <1>3 DEF DecWriteCtr, UpWriteMayGoOn
  <2>2. Busy' = Busy \ {w} /\ w \in Busy /\ Busy \in SUBSET Writer
    BY <2>1 DEF Busy, Typed
  <2>3. write_ctr' = Cardinality(Busy')
    BY <2>1, <2>2, Tasks DEF SectionInv
  <2>4. QED
    BY <1>1, <2>1, <2>3 DEF SectionInv, Typed
<1>4. ASSUME NEW c \in Cpu, Quiesce(w, c) PROVE SectionInv'
  <2>1. /\ UNCHANGED <<wpc, write_ctr, cpu, rpc>> /\ \A r \in Reader : cpu[r] # c
        /\ grace' = [grace EXCEPT ![w] = @ \ {c}] /\ dirty' = dirty \ {c}
    BY <1>4 DEF Quiesce
  <2>2. Busy' = Busy
    BY <2>1 DEF Busy
  <2>3. \A v \in Writer : grace'[v] = grace[v] \/ grace'[v] = grace[v] \ {c}
    BY <2>1 DEF Typed
  <2>4. QED
    BY <2>1, <2>2, <2>3 DEF SectionInv
<1>5. CASE UpWrite(w)
  <2>1. /\ wpc[w] = "write" /\ wpc' = [wpc EXCEPT ![w] = "sync"]
        /\ grace' = [grace EXCEPT ![w] = Cpu] /\ UNCHANGED <<write_ctr, dirty>>
    BY <1>5 DEF UpWrite, Synchronize
  <2>2. Busy' = Busy
    BY <2>1 DEF Busy, Typed
  <2>3. QED
    BY <1>1, <2>1, <2>2 DEF SectionInv, Typed
<1>6. CASE QueueWrite(w)
  <2>1. /\ wpc[w] = "grace" /\ wpc' = [wpc EXCEPT ![w] = "lock"] /\ grace[w] = {}
        /\ UNCHANGED <<grace, write_ctr, dirty>>
    BY <1>6 DEF QueueWrite, DownWriteMayGoOn
  <2>2. Busy' = Busy
    BY <2>1 DEF Busy, Typed
  <2>3. QED
    BY <1>1, <2>1, <2>2 DEF SectionInv, Typed
<1>7. CASE LockWrite(w) \/ ClearFastCtr(w) \/ MoveSum(w) \/ Test(w) \/ Prepare(w) \/ Woken(w)
  <2>1. UNCHANGED <<grace, write_ctr, dirty>>
    BY <1>7 DEF LockWrite, ClearFastCtr, MoveSum, Test, Prepare, Woken
  <2>2. /\ wpc[w] \notin {"out", "grace", "sync"} /\ wpc'[w] \notin {"out", "grace", "sync"}
        /\ \A v \in Writer \ {w} : wpc'[v] = wpc[v]
    BY <1>7 DEF LockWrite, ClearFastCtr, MoveSum, Test, Prepare, Woken, Typed
  <2>3. Busy' = Busy
    BY <2>2 DEF Busy
  <2>4. QED
    BY <1>1, <2>1, <2>2, <2>3 DEF SectionInv
<1>8. QED
  BY <1>2, <1>3, <1>4, <1>5, <1>6, <1>7 DEF WriterStep
-----------------------------------------------------------------------------
(* Who holds ->rw_sem and who waits for it.                                *)

\* Readers that wait keep waiting.
LEMMA QueueSame ==
  ASSUME QueueOK(rw_queue), rw_queue' = rw_queue,
         \A s \in Reader : rpc[s] = "downLock" /\ s \notin rw_readers
                             => rpc'[s] = "downLock" /\ s \notin rw_readers'
  PROVE  QueueOK(rw_queue)'
BY DEF QueueOK

\* The k waiters of p are waiters of q, each from a place of its own, and none of them
\* is among those that turned from s into t.
Thinned(p, k, q, h, s, t) ==
  /\ p \in Seq(Rw!Waiter) /\ k = Len(p)
  /\ \A i \in 1 .. k : h[i] \in 1 .. Len(q) /\ p[i] = q[h[i]]
  /\ \A i, j \in 1 .. k : h[i] = h[j] => i = j
  /\ \A i \in 1 .. k : p[i].task \notin s => p[i].task \notin t

\* Some leave the queue, and the order of the others does not matter.
LEMMA QueueShrinks ==
  ASSUME QueueOK(rw_queue), NEW q, q = rw_queue, NEW p, p = rw_queue', NEW k, NEW h,
         Thinned(p, k, q, h, rw_readers, rw_readers'), rpc' = rpc
  PROVE  QueueOK(rw_queue)'
<1> USE DEF Thinned
<1>1. ASSUME NEW i \in 1 .. k, p[i].type = "read"
      PROVE  p[i].task \in Reader /\ rpc'[p[i].task] = "downLock" /\ p[i].task \notin rw_readers'
  <2>1. PICK j \in 1 .. Len(q) : p[i] = q[j]
    BY Zenon
  <2>2. q[j].task \in Reader /\ rpc[q[j].task] = "downLock" /\ q[j].task \notin rw_readers
    BY <1>1, <2>1 DEF QueueOK
  <2>3. QED
    BY <2>1, <2>2
<1>2. ASSUME NEW i \in 1 .. k, NEW j \in 1 .. k, p[i].task = p[j].task PROVE i = j
  <2>1. h[i] = h[j]
    <3>1. h[i] \in 1 .. Len(q) /\ q[h[i]] = p[i]
      OBVIOUS
    <3>2. h[j] \in 1 .. Len(q) /\ q[h[j]] = p[j]
      OBVIOUS
    <3>3. QED
      BY <1>2, <3>1, <3>2 DEF QueueOK
  <2>2. QED
    BY <2>1, Zenon
<1>3. QED
  BY <1>1, <1>2, Zenon DEF QueueOK

LEMMA QueueGrows ==
  ASSUME QueueOK(rw_queue), NEW t \in Reader \cup Writer, NEW type \in {"read", "write"},
         Rw!Join(t, type), type = "read" => t \in Reader /\ rpc'[t] = "downLock",
         \A s \in Reader : rpc[s] = "downLock" => rpc'[s] = "downLock"
  PROVE  QueueOK(rw_queue)' /\ UNCHANGED <<rw_readers, rw_writer>>
<1>1. PICK e : e = [task |-> t, type |-> type]
  BY Zenon
<1>2. e \in Rw!Waiter /\ e.task = t /\ e.type = type
  BY <1>1 DEF Rw!Waiter
<1>3. PICK q \in Seq(Rw!Waiter) : q = rw_queue
  BY DEF QueueOK
<1>4. rw_queue' = Append(q, e) /\ UNCHANGED <<rw_readers, rw_writer>>
  BY <1>1, <1>3 DEF Rw!Join
<1>5. t \notin rw_readers /\ \A i \in 1 .. Len(q) : q[i].task # t
  BY <1>3 DEF Rw!Join, Rw!Idle, Rw!Waiters
<1>6. /\ Append(q, e) \in Seq(Rw!Waiter) /\ Len(Append(q, e)) = Len(q) + 1
      /\ \A i \in 1 .. Len(q) : Append(q, e)[i] = q[i]
      /\ Append(q, e)[Len(q) + 1] = e /\ Len(q) \in Nat
  BY <1>2, AppendProperties, LenProperties
<1>7. PICK p : p = Append(q, e)
  BY Zenon
<1>8. ASSUME NEW i \in 1 .. Len(p)
      PROVE  p[i].type = "read" =>
               p[i].task \in Reader /\ rpc'[p[i].task] = "downLock" /\ p[i].task \notin rw_readers'
  <2>1. CASE i \in 1 .. Len(q)
    BY <1>3, <1>4, <1>6, <1>7, <2>1 DEF QueueOK
  <2>2. CASE i = Len(q) + 1
    BY <1>2, <1>4, <1>5, <1>6, <1>7, <2>2
  <2>3. QED
    BY <1>6, <1>7, <2>1, <2>2
<1>9. ASSUME NEW i \in 1 .. Len(p), NEW j \in 1 .. Len(p), p[i].task = p[j].task
      PROVE  i = j
  <2>1. i \in 1 .. Len(q) \/ i = Len(q) + 1
    BY <1>6, <1>7
  <2>2. j \in 1 .. Len(q) \/ j = Len(q) + 1
    BY <1>6, <1>7
  <2>3. \A a, b \in 1 .. Len(q) : q[a].task = q[b].task => a = b
    BY <1>3 DEF QueueOK
  <2>4. QED
    BY <1>2, <1>5, <1>6, <1>7, <1>9, <2>1, <2>2, <2>3
<1>10. QED
  BY <1>4, <1>6, <1>7, <1>8, <1>9 DEF QueueOK

\* Readers that are let in waited for it, and are not in the queue any more.
LEMMA ReadersEnter ==
  ASSUME LockInv, Rw!HeldBy(rw_readers), rpc' = rpc
  PROVE  /\ rw_readers \subseteq rw_readers' /\ rw_readers' \subseteq Reader
         /\ \A r \in rw_readers' : r \in rw_readers \/ rpc[r] = "downLock"
         /\ QueueOK(rw_queue)'
<1>1. CASE rw_readers' = rw_readers /\ UNCHANGED rw_queue
  BY <1>1, QueueSame DEF LockInv
<1>2. ASSUME NEW n \in 0 .. Len(rw_queue), Rw!InFront(rw_queue, n),
             rw_readers' = rw_readers \cup {rw_queue[i].task : i \in 1 .. n},
             rw_queue' = SubSeq(rw_queue, n + 1, Len(rw_queue))
      PROVE  /\ rw_readers \subseteq rw_readers' /\ rw_readers' \subseteq Reader
             /\ \A r \in rw_readers' : r \in rw_readers \/ rpc[r] = "downLock"
             /\ QueueOK(rw_queue)'
  <2>1. PICK q \in Seq(Rw!Waiter) : q = rw_queue
    BY DEF LockInv, QueueOK
  <2>2. PICK m \in Nat : m = Len(q)
    BY LenProperties
  <2>3. \A i \in 1 .. n : i \in 1 .. m /\ q[i].type = "read"
    BY <1>2, <2>1, <2>2 DEF Rw!InFront
  <2>4. \A i \in 1 .. n : q[i].task \in Reader /\ rpc[q[i].task] = "downLock"
    BY <2>1, <2>2, <2>3 DEF LockInv, QueueOK
  <2>5. PICK p : p = SubSeq(q, n + 1, m)
    BY Zenon
  <2>6. /\ p \in Seq(Rw!Waiter) /\ Len(p) = m - n
        /\ \A i \in 1 .. m - n : p[i] = q[n + i] /\ n + i \in 1 .. m
    <3>1. n \in Nat /\ n <= m
      BY <1>2, <2>1, <2>2
    <3>2. \A i \in n + 1 .. m : q[i] \in Rw!Waiter
      BY <2>2, <3>1, ElementOfSeq
    <3>3. /\ SubSeq(q, n + 1, m) \in Seq(Rw!Waiter)
          /\ Len(SubSeq(q, n + 1, m)) = IF n + 1 <= m THEN m - (n + 1) + 1 ELSE 0
          /\ \A i \in 1 .. m - (n + 1) + 1 : SubSeq(q, n + 1, m)[i] = q[n + 1 + i - 1]
      BY <2>2, <3>1, <3>2, SubSeqProperties
    <3>4. QED
      BY <2>5, <3>1, <3>3
  <2>7. PICK h : h = [i \in 1 .. m - n |-> n + i]
    BY Zenon
  <2>8. /\ \A i \in 1 .. m - n : h[i] \in 1 .. m /\ p[i] = q[h[i]]
        /\ \A i, j \in 1 .. m - n : h[i] = h[j] => i = j
    BY <2>2, <2>6, <2>7
  <2>9. \A i \in 1 .. m - n : p[i].task \notin {q[j].task : j \in 1 .. n}
    <3>1. \A i, j \in 1 .. m : q[i].task = q[j].task => i = j
      BY <2>1, <2>2 DEF LockInv, QueueOK
    <3>2. ASSUME NEW i \in 1 .. m - n, NEW j \in 1 .. n, p[i].task = q[j].task PROVE FALSE
      <4>1. p[i] = q[n + i] /\ n + i \in 1 .. m /\ j \in 1 .. m
        BY <2>3, <2>6
      <4>2. n + i = j
        BY <3>1, <3>2, <4>1
      <4>3. QED
        BY <1>2, <2>2, <4>2
    <3>3. QED
      BY <3>2
  <2>10. rw_queue' = p /\ rw_readers' = rw_readers \cup {q[i].task : i \in 1 .. n}
    BY <1>2, <2>1, <2>2, <2>5
  <2>11. \A i \in 1 .. Len(p) : p[i].task \notin rw_readers => p[i].task \notin rw_readers'
    BY <2>6, <2>9, <2>10
  <2>12. QueueOK(rw_queue)'
    <3>1. PICK k : k = m - n /\ k = Len(p)
      BY <2>6
    <3>2. QueueOK(rw_queue)
      BY DEF LockInv
    <3>3. Thinned(p, k, q, h, rw_readers, rw_readers')
      BY <2>2, <2>6, <2>8, <2>10, <2>11, <3>1 DEF Thinned
    <3>4. QED
      BY <2>1, <2>10, <3>2, <3>3, QueueShrinks, Zenon
  <2>13. QED
    BY <2>4, <2>10, <2>12 DEF LockInv
<1>3. QED
  BY <1>1, <1>2 DEF Rw!HeldBy

\* A writer that gets the lock leaves the queue.
LEMMA WriterEnters ==
  ASSUME LockInv, NEW w \in Writer, Rw!GrantWriter(w), rpc' = rpc
  PROVE  QueueOK(rw_queue)'
<1>1. PICK q \in Seq(Rw!Waiter) : q = rw_queue
  BY DEF LockInv, QueueOK
<1>2. PICK m \in Nat : m = Len(q)
  BY LenProperties
<1>3. PICK n \in 1 .. m : rw_queue' = [i \in 1 .. m - 1 |-> IF i < n THEN q[i] ELSE q[i + 1]]
  BY <1>1, <1>2 DEF Rw!GrantWriter
<1>4. PICK h : h = [i \in 1 .. m - 1 |-> IF i < n THEN i ELSE i + 1]
  BY Zenon
<1>5. \A i \in 1 .. m - 1 : h[i] \in 1 .. m /\ rw_queue'[i] = q[h[i]]
  BY <1>2, <1>3, <1>4
<1>6. \A i, j \in 1 .. m - 1 : h[i] = h[j] => i = j
  BY <1>2, <1>3, <1>4
<1>7. m - 1 \in Nat /\ \A i \in 1 .. m - 1 : rw_queue'[i] \in Rw!Waiter
  BY <1>2, <1>5, ElementOfSeq
<1>8. rw_queue' \in Seq(Rw!Waiter) /\ Len(rw_queue') = m - 1
  BY <1>3, <1>7, SeqDef, LenProperties
<1>9. rw_readers' = rw_readers /\ QueueOK(rw_queue)
  BY DEF Rw!GrantWriter, LockInv
<1>10. Thinned(rw_queue', m - 1, q, h, rw_readers, rw_readers')
  BY <1>2, <1>5, <1>6, <1>8, <1>9, Zenon DEF Thinned
<1>11. QED
  BY <1>1, <1>9, <1>10, QueueShrinks, Zenon

LEMMA LockReaders ==
  ASSUME Typed, LockInv, NEW r \in Reader, DownRead(r) \/ ReaderStep(r)
  PROVE  LockInv'
<1> USE DEF RGoto, Rpc, counters, writer, rw_sem
<1>1. UNCHANGED <<wpc, rw_writer>>
  BY DEF DownRead, ReaderStep, UpdateFastCtr, FastAdd, DownSlow, DownLock, DownInc, DownUp,
         UpRead, UpDec, UpWake, Rw!AcquireRead, Rw!Join, Rw!ReleaseRead
<1>2. QueueOK(rw_queue)
  BY DEF LockInv
<1>3. CASE DownRead(r) \/ UpRead(r) \/ FastAdd(r) \/ UpDec(r) \/ UpWake(r)
  <2>1. /\ UNCHANGED <<rw_readers, rw_queue>>
        /\ rpc[r] \notin {"downLock", "downInc", "downUp"}
        /\ rpc'[r] \notin {"downLock", "downInc", "downUp"}
        /\ \A s \in Reader \ {r} : rpc'[s] = rpc[s]
    BY <1>3 DEF DownRead, UpRead, UpdateFastCtr, FastAdd, UpDec, UpWake, Typed
  <2>2. QueueOK(rw_queue)'
    BY <1>2, <2>1, QueueSame, Zenon
  <2>3. QED
    BY <1>1, <2>1, <2>2 DEF LockInv
<1>4. CASE DownSlow(r)
  <2>1. CASE Rw!AcquireRead(r) /\ rpc' = [rpc EXCEPT ![r] = "downInc"]
    <3>1. /\ rpc[r] = "downSlow" /\ rpc'[r] = "downInc" /\ \A s \in Reader \ {r} : rpc'[s] = rpc[s]
          /\ rw_readers' = rw_readers \cup {r} /\ rw_writer = None /\ UNCHANGED rw_queue
      BY <1>4, <2>1 DEF DownSlow, Typed, Rw!AcquireRead, Rw!ReaderMayEnter
    <3>2. QueueOK(rw_queue)'
      BY <1>2, <3>1, QueueSame
    <3>3. QED
      BY <1>1, <3>1, <3>2 DEF LockInv
  <2>2. CASE Rw!Join(r, "read") /\ rpc' = [rpc EXCEPT ![r] = "downLock"]
    <3>1. rpc[r] = "downSlow" /\ rpc'[r] = "downLock" /\ \A s \in Reader \ {r} : rpc'[s] = rpc[s]
      BY <1>4, <2>2 DEF DownSlow, Typed
    <3>2. QueueOK(rw_queue)' /\ UNCHANGED <<rw_readers, rw_writer>>
      BY <1>2, <2>2, <3>1, QueueGrows
    <3>3. QED
      BY <1>1, <3>1, <3>2 DEF LockInv
  <2>3. QED
    BY <1>4, <2>1, <2>2 DEF DownSlow
<1>5. CASE DownLock(r) \/ DownInc(r)
  <2>1. /\ UNCHANGED <<rw_readers, rw_queue>> /\ r \in rw_readers
        /\ rpc'[r] \in {"downInc", "downUp"} /\ \A s \in Reader \ {r} : rpc'[s] = rpc[s]
    BY <1>5 DEF DownLock, DownInc, LockInv, Typed
  <2>2. QueueOK(rw_queue)'
    BY <1>2, <2>1, QueueSame
  <2>3. QED
    BY <1>1, <2>1, <2>2 DEF LockInv
<1>6. CASE DownUp(r)
  <2>1. /\ rpc[r] = "downUp" /\ rpc'[r] = "in" /\ \A s \in Reader \ {r} : rpc'[s] = rpc[s]
        /\ rw_readers' = rw_readers \ {r} /\ UNCHANGED rw_queue
    BY <1>6 DEF DownUp, Rw!ReleaseRead, Typed
  <2>2. QueueOK(rw_queue)'
    BY <1>2, <2>1, QueueSame
  <2>3. QED
    BY <1>1, <2>1, <2>2 DEF LockInv
<1>7. QED
  BY <1>3, <1>4, <1>5, <1>6 DEF ReaderStep

LEMMA LockWriters ==
  ASSUME Typed, LockInv, NEW w \in Writer, DownWrite(w) \/ LockWrite(w) \/ WriterStep(w)
  PROVE  LockInv'
<1> USE DEF WGoto, Wpc, Waiting, Holding, counters, reader, rw_sem
<1>1. rpc' = rpc /\ w # None
  BY Constants DEF WriterStep, DownWrite, LockWrite, QueueWrite, ClearFastCtr, MoveSum, Test,
         Prepare, Woken, UpWrite, DecWriteCtr, Quiesce
<1>2. QueueOK(rw_queue)
  BY DEF LockInv
<1>3. CASE LockWrite(w)
  <2>1. /\ wpc'[w] = "clear" /\ \A v \in Writer \ {w} : wpc'[v] = wpc[v]
        /\ rw_writer = None /\ rw_writer' = w /\ rw_readers = {} /\ rw_readers' = {}
    BY <1>3 DEF LockWrite, Rw!GrantWriter, Typed
  <2>2. QueueOK(rw_queue)'
    BY <1>1, <1>3, WriterEnters DEF LockWrite
  <2>3. \A v \in Writer : rw_writer # v
    BY <2>1, Constants
  <2>4. QED
    BY <1>1, <2>1, <2>2, <2>3 DEF LockInv
<1>4. CASE UpWrite(w)
  <2>1. /\ wpc[w] = "write" /\ wpc'[w] = "sync" /\ \A v \in Writer \ {w} : wpc'[v] = wpc[v]
        /\ rw_writer = w /\ rw_writer' = None /\ Rw!HeldBy(rw_readers)
    BY <1>4 DEF UpWrite, Synchronize, Rw!ReleaseWrite, Typed
  <2>2. /\ rw_readers \subseteq rw_readers' /\ rw_readers' \subseteq Reader
        /\ \A r \in rw_readers' : r \in rw_readers \/ rpc[r] = "downLock"
        /\ QueueOK(rw_queue)'
    BY <1>1, <2>1, ReadersEnter
  <2>3. \A v \in Writer : v # None
    BY Constants
  <2>4. QED
    BY <1>1, <2>1, <2>2, <2>3 DEF LockInv
<1>5. CASE QueueWrite(w)
  <2>1. /\ wpc[w] = "grace" /\ wpc'[w] = "lock" /\ \A v \in Writer \ {w} : wpc'[v] = wpc[v]
        /\ Rw!Join(w, "write")
    BY <1>5 DEF QueueWrite, Typed
  <2>2. QueueOK(rw_queue)' /\ UNCHANGED <<rw_readers, rw_writer>>
    BY <1>1, <1>2, <2>1, QueueGrows, Zenon
  <2>3. QED
    BY <1>1, <2>1, <2>2 DEF LockInv
<1>6. CASE \/ DownWrite(w) \/ ClearFastCtr(w) \/ MoveSum(w) \/ Test(w) \/ Prepare(w) \/ Woken(w)
           \/ DecWriteCtr(w) \/ \E c \in Cpu : Quiesce(w, c)
  <2>1. UNCHANGED <<rw_readers, rw_writer, rw_queue>>
    BY <1>6 DEF DownWrite, ClearFastCtr, MoveSum, Test, Prepare, Woken, DecWriteCtr, Quiesce
  <2>2. \A v \in Writer : wpc'[v] \in Holding <=> wpc[v] \in Holding
    BY <1>6 DEF DownWrite, Synchronize, ClearFastCtr, MoveSum, Test, Prepare, Woken, DecWriteCtr,
                Quiesce, Typed
  <2>3. QueueOK(rw_queue)'
    BY <1>1, <1>2, <2>1, QueueSame
  <2>4. QED
    BY <1>1, <2>1, <2>2, <2>3 DEF LockInv
<1>7. QED
  BY <1>3, <1>4, <1>5, <1>6 DEF WriterStep

LEMMA LockGrants ==
  ASSUME LockInv, GrantReaders
  PROVE  LockInv'
<1>1. rpc' = rpc /\ wpc' = wpc /\ rw_writer = None /\ rw_writer' = None /\ Rw!HeldBy(rw_readers)
  BY DEF GrantReaders, Rw!GrantReaders, reader, writer
<1>2. /\ rw_readers \subseteq rw_readers' /\ rw_readers' \subseteq Reader
      /\ \A r \in rw_readers' : r \in rw_readers \/ rpc[r] = "downLock"
      /\ QueueOK(rw_queue)'
  BY <1>1, ReadersEnter
<1>3. QED
  BY <1>1, <1>2 DEF LockInv
-----------------------------------------------------------------------------
(* What the counters count.                                                *)

\* A step that leaves the counters and those they count alone.
LEMMA CountSame ==
  ASSUME NEW t, Adds(t),
         UNCHANGED <<slow_read_ctr, fast_read_ctr>>, Counted' = Counted, Carried' = Carried,
         \A w \in Writer : wpc'[w] = "clear" =>
            \/ visit'[w] = 1
            \/ wpc[w] = "clear" /\ visit'[w] = visit[w],
         \A w \in Writer : wpc'[w] \in Waiting => wpc[w] \in Waiting
  PROVE  Adds(t)'
<1>1. Zeros(t)'
  BY DEF Adds, Zeros, Sums
<1>2. QED
  BY <1>1 DEF Adds

\* The holder of ->rw_sem is alone with it, and no section is open on the fast path.
LEMMA HolderAlone ==
  ASSUME Typed, SectionInv, LockInv, NEW w \in Writer, wpc[w] \in Holding
  PROVE  /\ rw_writer = w /\ w # None /\ \A v \in Writer : wpc[v] \in Holding => v = w
         /\ \A r \in Reader : rpc[r] \notin {"downAdd", "upAdd", "downInc", "downUp"}
<1>1. rw_writer = w /\ w # None /\ rw_readers = {}
  BY Constants DEF LockInv
<1>2. wpc[w] \notin {"out", "grace"}
  BY DEF Holding, Waiting
<1>3. QED
  BY <1>1, <1>2 DEF LockInv, SectionInv

LEMMA Numbers ==
  ASSUME Typed, LockInv, NEW t, Adds(t)
  PROVE  /\ slow_read_ctr \in Int /\ t[CPUs] \in Int /\ Carried \in Int /\ t \in [0 .. CPUs -> Int]
         /\ Cardinality(Counted) \in Nat /\ Counted \in SUBSET Reader
<1>1. t \in [0 .. CPUs -> Int]
  BY DEF Adds, Sums
<1>2. Carried \in Int
  BY Ints DEF Carried, LockInv
<1>3. Counted \in SUBSET Reader
  BY DEF Counted
<1>4. QED
  BY <1>1, <1>2, <1>3, Ints, Tasks, Constants

\* One reader comes to be counted, or ceases to be.
LEMMA OneCounted ==
  ASSUME Typed, NEW r \in Reader, NEW l \in Rpc, rpc' = [rpc EXCEPT ![r] = l],
         NEW v \in {1, -1},
         v = 1 => rpc[r] \in {"downAdd", "downInc"} /\ l \in {"in", "downUp"},
         v = -1 => rpc[r] \in {"upAdd", "upDec"} /\ l \in {"out", "upWake"}
  PROVE  /\ Cardinality(Counted)' = Cardinality(Counted) + v
         /\ Cardinality(Counted) + v \in 0 .. IntRange - 1
<1>1. rpc'[r] = l /\ \A s \in Reader \ {r} : rpc'[s] = rpc[s]
  BY DEF Typed
<1>2. Counted \in SUBSET Reader /\ Counted' \in SUBSET Reader
  BY DEF Counted
<1>3. CASE v = 1
  <2>1. Counted' = Counted \cup {r} /\ r \in Reader \ Counted
    BY <1>1, <1>3 DEF Counted
  <2>2. Cardinality(Counted') = Cardinality(Counted) + 1
    BY <1>2, <2>1, Tasks
  <2>3. Cardinality(Counted') \in Nat /\ Cardinality(Counted') <= Cardinality(Reader)
    BY <1>2, Tasks
  <2>4. QED
    BY <1>3, <2>2, <2>3, Constants
<1>4. CASE v = -1
  <2>1. Counted' = Counted \ {r} /\ r \in Counted
    BY <1>1, <1>4 DEF Counted
  <2>2. Cardinality(Counted') = Cardinality(Counted) - 1
    BY <1>2, <2>1, Tasks
  <2>3. Cardinality(Counted') \in Nat /\ Cardinality(Counted') <= Cardinality(Reader)
    BY <1>2, Tasks
  <2>4. QED
    BY <1>2, <1>4, <2>2, <2>3, Tasks, Constants
<1>5. QED
  BY <1>3, <1>4

LEMMA FastAddCounts ==
  ASSUME Typed, SectionInv, LockInv, CountInv, NEW r \in Reader, FastAdd(r)
  PROVE  CountInv'
<1>1. PICK v \in {1, -1}, l \in Rpc :
         /\ fast_read_ctr' = [fast_read_ctr EXCEPT ![cpu[r]] = Plus(fast_read_ctr[cpu[r]], v)]
         /\ rpc' = [rpc EXCEPT ![r] = l]
         /\ v = 1 => rpc[r] \in {"downAdd", "downInc"} /\ l \in {"in", "downUp"}
         /\ v = -1 => rpc[r] \in {"upAdd", "upDec"} /\ l \in {"out", "upWake"}
  <2>1. CASE rpc[r] = "downAdd"
    BY <2>1 DEF FastAdd, RGoto, Rpc
  <2>2. CASE rpc[r] = "upAdd"
    BY <2>2 DEF FastAdd, RGoto, Rpc
  <2>3. QED
    BY <2>1, <2>2, Zenon DEF FastAdd
<1>2. UNCHANGED <<slow_read_ctr, rw_writer, wpc, visit, sum>> /\ rpc[r] \in {"downAdd", "upAdd"}
  BY DEF FastAdd, rw_sem, writer
<1>3. cpu[r] \in Cpu
  BY <1>2 DEF SectionInv, Typed
<1>4. PICK c \in Cpu, f \in [Cpu -> Int] : c = cpu[r] /\ f = fast_read_ctr
  BY <1>3, Ints
<1>5. PICK y \in Int : y = Plus(f[c], v)
  BY PlusType
<1>6. PICK t : Adds(t)
  BY DEF CountInv
<1>7. PICK u : /\ Sums(u, [f EXCEPT ![c] = y])
               /\ \A n \in 0 .. CPUs : u[n] = t[n] + (IF n >= c THEN y - f[c] ELSE 0)
  BY <1>4, <1>6, SumsMove, Zenon DEF Adds
<1>8. \A w \in Writer : wpc[w] \notin Holding
  BY <1>2, HolderAlone
<1>9. Quiet' /\ Empty' /\ Zeros(u)' /\ Sums(u, fast_read_ctr)'
  <2>1. fast_read_ctr' = [f EXCEPT ![c] = y]
    BY <1>1, <1>4, <1>5
  <2>2. Quiet' /\ Empty' /\ Zeros(u)'
    BY <1>2, <1>8 DEF CountInv, Quiet, Empty, Zeros, Holding
  <2>3. QED
    BY <1>7, <2>1, <2>2
<1>10. PICK a \in Int, b \in Int, d \in Int, x \in Int, z \in Int :
          a = slow_read_ctr /\ b = t[CPUs] /\ d = Carried /\ x = f[c] /\ z = u[CPUs]
  <2>1. u[CPUs] \in Int
    BY <1>7, Constants DEF Sums
  <2>2. QED
    BY <1>6, <2>1, Numbers
<1>11. z = b + y - x
  BY <1>7, <1>10, Constants DEF Cpu
<1>12. (y + (a + b - x + d)) % IntRange = (x + v + (a + b - x + d)) % IntRange
  <2>1. PICK s \in Int : s = a + b - x + d
    OBVIOUS
  <2>2. (y + s) % IntRange = (x + v + s) % IntRange
    BY <1>5, <1>10, PlusRest
  <2>3. QED
    BY <2>1, <2>2
<1>13. a + z + d = y + (a + b - x + d) /\ (a + b + d) + v = x + v + (a + b - x + d)
  BY <1>11
<1>14. (a + b + d) % IntRange = Cardinality(Counted)
  BY <1>6, <1>10 DEF Adds
<1>15. Cardinality(Counted)' = Cardinality(Counted) + v /\ Cardinality(Counted) + v \in 0 .. IntRange - 1
  BY <1>1, OneCounted, Zenon
<1>16. ((a + b + d) + v) % IntRange = Cardinality(Counted) + v
  BY <1>14, <1>15, OneMore
<1>17. Carried' = Carried
  BY <1>2 DEF Carried
<1>18. (a + z + d) % IntRange = Cardinality(Counted)'
  BY <1>12, <1>13, <1>15, <1>16
<1>19. Adds(u)'
  BY <1>2, <1>9, <1>10, <1>17, <1>18 DEF Adds
<1>20. QED
  BY <1>9, <1>19 DEF CountInv

LEMMA SlowCounts ==
  ASSUME Typed, SectionInv, LockInv, CountInv, NEW r \in Reader, DownInc(r) \/ UpDec(r)
  PROVE  CountInv'
<1>1. PICK v \in {1, -1}, l \in Rpc :
         /\ slow_read_ctr' = Plus(slow_read_ctr, v)
         /\ rpc' = [rpc EXCEPT ![r] = l]
         /\ v = 1 => rpc[r] \in {"downAdd", "downInc"} /\ l \in {"in", "downUp"}
         /\ v = -1 => rpc[r] \in {"upAdd", "upDec"} /\ l \in {"out", "upWake"}
  <2>1. CASE DownInc(r)
    BY <2>1 DEF DownInc, RGoto, Rpc
  <2>2. CASE UpDec(r)
    <3>1. PICK l \in {"out", "upWake"} : rpc' = [rpc EXCEPT ![r] = l]
      BY <2>2, Zenon DEF UpDec, RGoto
    <3>2. rpc[r] = "upDec" /\ slow_read_ctr' = Plus(slow_read_ctr, -1) /\ l \in Rpc
      BY <2>2 DEF UpDec, Rpc
    <3>3. PICK v \in {1, -1} : v = -1 /\ v # 1
      OBVIOUS
    <3>4. QED
      BY <3>1, <3>2, <3>3, Zenon
  <2>3. QED
    BY <2>1, <2>2
<1>2. UNCHANGED <<fast_read_ctr, rw_writer, wpc, visit, sum>> /\ rpc[r] \in {"downInc", "upDec"}
  BY DEF DownInc, UpDec, rw_sem, writer
<1>3. PICK t : Adds(t)
  BY DEF CountInv
<1>4. PICK a \in Int, b \in Int, d \in Int, y \in Int :
         a = slow_read_ctr /\ b = t[CPUs] /\ d = Carried /\ y = Plus(a, v)
  <2>1. slow_read_ctr \in Int /\ t[CPUs] \in Int /\ Carried \in Int /\ v \in Int
    BY <1>3, Numbers
  <2>2. Plus(slow_read_ctr, v) \in Int
    BY <2>1, PlusType
  <2>3. QED
    BY <2>1, <2>2
<1>5. Carried' = Carried
  BY <1>2 DEF Carried
<1>6. \A w \in Writer : wpc[w] # "write"
  <2> SUFFICES ASSUME NEW w \in Writer, wpc[w] = "write" PROVE FALSE
    OBVIOUS
  <2>1. rpc[r] # "downInc"
    BY HolderAlone DEF Holding
  <2>2. rpc[r] # "upDec"
    BY DEF CountInv, Empty, Counted
  <2>3. QED
    BY <1>2, <2>1, <2>2
<1>7. Quiet' /\ Empty' /\ Zeros(t)' /\ Sums(t, fast_read_ctr)'
  BY <1>2, <1>3, <1>6 DEF CountInv, Quiet, Empty, Zeros, Adds
<1>8. (a + b + d) % IntRange = Cardinality(Counted)
  BY <1>3, <1>4 DEF Adds
<1>9. /\ Cardinality(Counted)' = Cardinality(Counted) + v
      /\ Cardinality(Counted) + v \in 0 .. IntRange - 1
  BY <1>1, OneCounted, Zenon
<1>10. ((a + b + d) + v) % IntRange = Cardinality(Counted) + v
  BY <1>8, <1>9, OneMore
<1>11. PICK z \in Int : z = b + d
  OBVIOUS
<1>12. (y + z) % IntRange = (a + v + z) % IntRange
  <2>1. v \in Int /\ y = Plus(a, v)
    BY <1>4
  <2>2. QED
    BY <2>1, PlusRest
<1>13. y + b + d = y + z /\ (a + b + d) + v = a + v + z
  BY <1>11
<1>14. (slow_read_ctr' + t[CPUs] + Carried') % IntRange = Cardinality(Counted)'
  BY <1>1, <1>4, <1>5, <1>9, <1>10, <1>12, <1>13
<1>15. Adds(t)'
  BY <1>7, <1>14 DEF Adds
<1>16. QED
  BY <1>7, <1>15 DEF CountInv

\* clear_fast_ctr() moves what it clears to its sum.
LEMMA ClearCounts ==
  ASSUME Typed, SectionInv, LockInv, CountInv, NEW w \in Writer, ClearFastCtr(w)
  PROVE  CountInv'
<1>1. /\ wpc[w] = "clear" /\ visit[w] \in Cpu /\ UNCHANGED <<slow_read_ctr, rw_writer, rpc, wpc>>
      /\ sum' = [sum EXCEPT ![w] = Plus(sum[w], fast_read_ctr[visit[w]])]
      /\ fast_read_ctr' = [fast_read_ctr EXCEPT ![visit[w]] = 0]
      /\ visit' = [visit EXCEPT ![w] = visit[w] + 1]
  BY DEF ClearFastCtr, Cleared, rw_sem, reader
<1>2. /\ rw_writer = w /\ w # None /\ \A v \in Writer : wpc[v] \in Holding => v = w
  BY <1>1, HolderAlone DEF Holding
<1>3. PICK c \in Cpu, f \in [Cpu -> Int] : c = visit[w] /\ f = fast_read_ctr
  BY <1>1, Ints
<1>4. PICK t : Adds(t)
  BY DEF CountInv
<1>5. PICK u : /\ Sums(u, [f EXCEPT ![c] = 0])
               /\ \A n \in 0 .. CPUs : u[n] = t[n] + (IF n >= c THEN 0 - f[c] ELSE 0)
  <2>1. 0 \in Int /\ Sums(t, f)
    BY <1>3, <1>4 DEF Adds
  <2>2. QED
    BY <2>1, SumsMove, Zenon
<1>6. Carried = sum[w] /\ Carried' = Plus(sum[w], f[c])
  BY <1>1, <1>2, <1>3 DEF Carried, Typed
<1>7. PICK a \in Int, b \in Int, d \in Int, x \in Int, y \in Int, z \in Int :
         a = slow_read_ctr /\ b = t[CPUs] /\ d = sum[w] /\ x = f[c] /\ y = Plus(d, x) /\ z = u[CPUs]
  <2>1. u[CPUs] \in Int
    BY <1>5, Constants DEF Sums
  <2>2. sum[w] \in Int /\ f[c] \in Int
    BY Ints
  <2>3. Plus(sum[w], f[c]) \in Int
    <3>1. PICK d \in Int, x \in Int : d = sum[w] /\ x = f[c]
      BY <2>2
    <3>2. Plus(d, x) \in 0 .. IntRange - 1
      BY PlusType, Zenon
    <3>3. QED
      BY <3>1, <3>2
  <2>4. slow_read_ctr \in Int /\ t[CPUs] \in Int
    BY <1>4, Numbers
  <2>5. QED
    BY <2>1, <2>2, <2>3, <2>4
<1>8. z = b - x
  BY <1>5, <1>7, Constants DEF Cpu
<1>9. (a + b + d) % IntRange = Cardinality(Counted)
  BY <1>4, <1>6, <1>7 DEF Adds
<1>10. PICK s \in Int : s = a + z
  OBVIOUS
<1>11. (y + s) % IntRange = (d + x + s) % IntRange
  BY <1>7, <1>10, PlusRest
<1>12. a + z + y = y + s /\ a + b + d = d + x + s
  BY <1>8, <1>10
<1>13. Counted' = Counted
  BY <1>1 DEF Counted
<1>14. (slow_read_ctr' + u[CPUs] + Carried') % IntRange = Cardinality(Counted')
  BY <1>1, <1>6, <1>7, <1>9, <1>11, <1>12, <1>13
<1>15. u[c] = 0
  <2>1. c \in 0 .. CPUs /\ t[c - 1] = 0 /\ t[c] = t[c - 1] + f[c]
    <3>1. t[c - 1] = 0
      BY <1>1, <1>3, <1>4 DEF Adds, Zeros
    <3>2. t[c] = t[c - 1] + f[c]
      BY <1>3, <1>4 DEF Adds, Sums
    <3>3. QED
      BY <3>1, <3>2, Constants DEF Cpu
  <2>2. QED
    BY <1>3, <1>5, <1>7, <2>1 DEF Cpu
<1>16. Zeros(u)'
  <2>1. visit'[w] - 1 = c /\ wpc'[w] = "clear" /\ \A v \in Writer : v # w => wpc'[v] \notin Holding
    BY <1>1, <1>2, <1>3 DEF Typed, Cpu
  <2>2. QED
    BY <1>15, <2>1 DEF Zeros, Holding, Waiting
<1>17. Adds(u)'
  BY <1>1, <1>3, <1>5, <1>14, <1>16 DEF Adds
<1>18. Quiet' /\ Empty'
  BY <1>1, <1>13 DEF CountInv, Quiet, Empty, Typed
<1>19. QED
  BY <1>17, <1>18 DEF CountInv

\* The sum goes to the slow counter.
LEMMA MoveCounts ==
  ASSUME Typed, SectionInv, LockInv, CountInv, NEW w \in Writer, MoveSum(w)
  PROVE  CountInv'
<1>1. /\ wpc[w] = "clear" /\ visit[w] \notin Cpu /\ UNCHANGED <<fast_read_ctr, rw_writer, rpc>>
      /\ slow_read_ctr' = Plus(slow_read_ctr, sum[w]) /\ wpc' = [wpc EXCEPT ![w] = "test"]
      /\ sum' = [sum EXCEPT ![w] = 0] /\ visit' = [visit EXCEPT ![w] = 1]
  BY DEF MoveSum, WGoto, rw_sem, reader
<1>2. rw_writer = w /\ w # None /\ \A v \in Writer : wpc[v] \in Holding => v = w
  BY <1>1, HolderAlone DEF Holding
<1>3. PICK t : Adds(t)
  BY DEF CountInv
<1>4. visit[w] = CPUs + 1
  BY <1>1, Constants DEF Typed, Cpu
<1>5. t[CPUs] = 0
  BY <1>1, <1>3, <1>4, Constants DEF Adds, Zeros
<1>6. Carried = sum[w] /\ Carried' = 0
  BY <1>1, <1>2 DEF Carried, Typed
<1>7. PICK a \in Int, d \in Int, y \in Int : a = slow_read_ctr /\ d = sum[w] /\ y = Plus(a, d)
  BY Ints, PlusType
<1>8. (a + 0 + d) % IntRange = Cardinality(Counted)
  BY <1>3, <1>5, <1>6, <1>7 DEF Adds
<1>9. (y + 0) % IntRange = (a + d + 0) % IntRange
  <2>1. PICK z \in Int : z = 0
    OBVIOUS
  <2>2. (Plus(a, d) + z) % IntRange = (a + d + z) % IntRange
    BY PlusRest
  <2>3. QED
    BY <1>7, <2>1, <2>2
<1>10. a + 0 + d = a + d + 0 /\ y + 0 + 0 = y + 0
  OBVIOUS
<1>11. Counted' = Counted
  BY <1>1 DEF Counted
<1>12. (slow_read_ctr' + t[CPUs] + Carried') % IntRange = Cardinality(Counted')
  BY <1>1, <1>5, <1>6, <1>7, <1>8, <1>9, <1>10, <1>11
<1>13. Zeros(t)'
  BY <1>1, <1>2, <1>5 DEF Zeros, Holding, Waiting, Typed
<1>14. Adds(t)'
  BY <1>1, <1>3, <1>12, <1>13 DEF Adds
<1>15. Quiet' /\ Empty'
  BY <1>1, <1>11 DEF CountInv, Quiet, Empty, Typed
<1>16. QED
  BY <1>14, <1>15 DEF CountInv

\* The slow counter says how many readers there are, to a writer that waits for them.
LEMMA SlowCounter ==
  ASSUME Typed, SectionInv, LockInv, CountInv, NEW w \in Writer, wpc[w] \in Waiting
  PROVE  slow_read_ctr = Cardinality(Counted)
<1>1. PICK t : Adds(t)
  BY DEF CountInv
<1>2. rw_writer = w /\ w # None
  BY HolderAlone DEF Holding
<1>3. sum[w] = 0
  BY DEF CountInv, Quiet, Waiting
<1>4. t[CPUs] = 0 /\ Carried = 0
  BY <1>1, <1>2, <1>3 DEF Adds, Zeros, Carried
<1>5. PICK a \in 0 .. IntRange - 1 : a = slow_read_ctr
  BY DEF Typed
<1>6. a + 0 + 0 = a
  BY Constants
<1>7. a % IntRange = Cardinality(Counted)
  BY <1>1, <1>4, <1>5, <1>6 DEF Adds
<1>8. QED
  BY <1>5, <1>7, ModSmall

LEMMA CountReaders ==
  ASSUME Typed, SectionInv, LockInv, CountInv, NEW r \in Reader, DownRead(r) \/ ReaderStep(r)
  PROVE  CountInv'
<1>1. CASE FastAdd(r)
  BY <1>1, FastAddCounts
<1>2. CASE DownInc(r) \/ UpDec(r)
  BY <1>2, SlowCounts
<1>3. CASE DownRead(r) \/ UpRead(r) \/ DownSlow(r) \/ DownLock(r) \/ DownUp(r) \/ UpWake(r)
  <2> USE DEF RGoto, Rpc, counters, writer, rw_sem
  <2>1. UNCHANGED <<slow_read_ctr, fast_read_ctr, wpc, visit, sum, rw_writer>>
    BY <1>3 DEF DownRead, UpRead, UpdateFastCtr, DownSlow, DownLock, DownUp, UpWake,
                Rw!AcquireRead, Rw!Join, Rw!ReleaseRead
  <2>2. Counted' = Counted
    BY <1>3, Zenon DEF DownRead, UpRead, UpdateFastCtr, DownSlow, DownLock, DownUp, UpWake, Counted, Typed
  <2>3. Carried' = Carried
    BY <2>1 DEF Carried
  <2>4. PICK t : Adds(t)
    BY DEF CountInv
  <2>5. Adds(t)'
    BY <2>1, <2>2, <2>3, <2>4, CountSame, Zenon
  <2>6. QED
    BY <2>1, <2>2, <2>5 DEF CountInv, Quiet, Empty
<1>4. QED
  BY <1>1, <1>2, <1>3 DEF ReaderStep

LEMMA CountWriters ==
  ASSUME Typed, SectionInv, LockInv, CountInv, NEW w \in Writer,
         DownWrite(w) \/ LockWrite(w) \/ WriterStep(w)
  PROVE  CountInv'
<1> USE DEF WGoto, Wpc, Waiting, counters, reader, rw_sem
<1>1. CASE ClearFastCtr(w)
  BY <1>1, ClearCounts
<1>2. CASE MoveSum(w)
  BY <1>2, MoveCounts
<1>3. CASE \/ DownWrite(w) \/ LockWrite(w) \/ QueueWrite(w) \/ Test(w) \/ Prepare(w) \/ Woken(w)
           \/ UpWrite(w) \/ DecWriteCtr(w) \/ \E c \in Cpu : Quiesce(w, c)
  <2> USE DEF DownWrite, LockWrite, QueueWrite, Test, Prepare, Woken, UpWrite, DecWriteCtr, Quiesce,
              Synchronize
  <2>1. UNCHANGED <<slow_read_ctr, fast_read_ctr, rpc, visit, sum>>
    BY <1>3, Zenon
  <2>2. Counted' = Counted
    BY <2>1 DEF Counted
  <2>3. Carried' = Carried
    <3>1. CASE LockWrite(w)
      <4>1. rw_writer = None /\ rw_writer' = w /\ wpc[w] = "lock" /\ w # None
        BY <3>1, Constants DEF Rw!GrantWriter
      <4>2. sum[w] = 0
        BY <4>1 DEF CountInv, Quiet
      <4>3. QED
        BY <2>1, <4>1, <4>2, Zenon DEF Carried
    <3>2. CASE UpWrite(w)
      <4>1. rw_writer = w /\ rw_writer' = None /\ wpc[w] = "write" /\ w # None
        BY <3>2, Constants DEF Rw!ReleaseWrite
      <4>2. sum[w] = 0
        BY <4>1 DEF CountInv, Quiet
      <4>3. QED
        BY <2>1, <4>1, <4>2 DEF Carried
    <3>3. CASE ~LockWrite(w) /\ ~UpWrite(w)
      <4>1. rw_writer' = rw_writer
        BY <1>3, <3>3, Zenon DEF Rw!Join
      <4>2. QED
        BY <2>1, <4>1 DEF Carried
    <3>4. QED
      BY <3>1, <3>2, <3>3
  <2>4. /\ \A v \in Writer \ {w} : wpc'[v] = wpc[v]
        /\ wpc'[w] = wpc[w] \/ wpc[w] # "clear"
        /\ wpc'[w] \in Waiting => wpc[w] \in Waiting
        /\ wpc'[w] = "write" => wpc[w] = "write" \/ (wpc[w] \in Waiting /\ slow_read_ctr = 0)
    BY <1>3, Zenon DEF Typed
  <2>5. Quiet'
    BY <2>1, <2>4, Zenon DEF CountInv, Quiet
  <2>6. PICK t : Adds(t)
    BY DEF CountInv
  <2>7. Adds(t)'
    <3>1. \A v \in Writer : wpc'[v] = "clear" =>
             \/ visit'[v] = 1
             \/ wpc[v] = "clear" /\ visit'[v] = visit[v]
      BY <2>1, <2>4, Zenon DEF CountInv, Quiet
    <3>2. \A v \in Writer : wpc'[v] \in Waiting => wpc[v] \in Waiting
      BY <2>4
    <3>3. QED
      BY <2>1, <2>2, <2>3, <2>6, <3>1, <3>2, CountSame
  <2>8. Empty'
    <3>1. ASSUME wpc[w] \in Waiting, slow_read_ctr = 0 PROVE Counted = {}
      <4>1. Cardinality(Counted) = 0 /\ Counted \in SUBSET Reader
        BY <3>1, SlowCounter DEF Counted
      <4>2. QED
        BY <4>1, Tasks
    <3>2. QED
      BY <2>2, <2>4, <3>1 DEF CountInv, Empty
  <2>9. QED
    BY <2>5, <2>7, <2>8 DEF CountInv
<1>4. QED
  BY <1>1, <1>2, <1>3 DEF WriterStep
-----------------------------------------------------------------------------
LEMMA PercpuInit == Init => PercpuInv
<1> SUFFICES ASSUME Init PROVE PercpuInv
  OBVIOUS
<1> USE DEF Init
<1>1. Typed
  BY Constants DEF Typed, Rpc, Wpc, Waiting
<1>2. SectionInv
  <2>1. Busy = {}
    BY DEF Busy
  <2>2. write_ctr = Cardinality(Busy)
    BY <2>1, FS_EmptySet
  <2>3. QED
    BY <2>2 DEF SectionInv
<1>3. LockInv
  <2>1. QueueOK(rw_queue)
    BY DEF QueueOK
  <2>2. \A w \in Writer : w # None
    BY Constants
  <2>3. QED
    BY <2>1, <2>2 DEF LockInv, Holding, Waiting
<1>4. CountInv
  <2>1. Quiet /\ Empty
    BY DEF Quiet, Empty
  <2>2. PICK t : t = [n \in 0 .. CPUs |-> 0]
    BY Zenon
  <2>3. Sums(t, fast_read_ctr) /\ t[CPUs] = 0
    BY <2>2, Constants DEF Sums, Cpu
  <2>4. Zeros(t)
    BY DEF Zeros, Waiting
  <2>5. Counted = {} /\ Carried = 0
    BY DEF Counted, Carried
  <2>6. Cardinality(Counted) = 0 /\ (0 + 0 + 0) % IntRange = 0
    BY <2>5, FS_EmptySet, Constants
  <2>7. Adds(t)
    BY <2>3, <2>4, <2>5, <2>6 DEF Adds
  <2>8. QED
    BY <2>1, <2>7 DEF CountInv
<1>5. QED
  BY <1>1, <1>2, <1>3, <1>4 DEF PercpuInv

LEMMA PercpuStep == ASSUME PercpuInv, [Next]_vars PROVE PercpuInv'
<1> USE DEF PercpuInv
<1>1. ASSUME NEW r \in Reader, DownRead(r) \/ ReaderStep(r) PROVE PercpuInv'
  BY <1>1, TypedReaders, SectionReaders, LockReaders, CountReaders
<1>2. ASSUME NEW w \in Writer, DownWrite(w) \/ LockWrite(w) \/ WriterStep(w) PROVE PercpuInv'
  BY <1>2, TypedWriters, SectionWriters, LockWriters, CountWriters
<1>3. CASE GrantReaders \/ UNCHANGED vars
  <2>1. UNCHANGED <<counters, reader, writer, dirty, rw_writer>>
    BY <1>3 DEF GrantReaders, Rw!GrantReaders, vars, rw_sem
  <2>2. /\ UNCHANGED <<write_ctr, slow_read_ctr, fast_read_ctr, rpc, cpu>>
        /\ UNCHANGED <<wpc, grace, visit, sum, asleep, dirty, rw_writer>>
    BY <2>1 DEF counters, reader, writer
  <2>3. Busy' = Busy /\ Counted' = Counted /\ Carried' = Carried
    BY <2>2 DEF Busy, Counted, Carried
  <2>4. Typed' /\ SectionInv'
    BY <2>2, <2>3 DEF Typed, SectionInv
  <2>5. LockInv'
    <3>1. CASE GrantReaders
      BY <3>1, LockGrants
    <3>2. CASE UNCHANGED vars
      <4>1. UNCHANGED <<rw_readers, rw_queue>>
        BY <3>2 DEF vars, rw_sem
      <4>2. QED
        BY <2>2, <4>1, Zenon DEF LockInv, QueueOK
    <3>3. QED
      BY <1>3, <3>1, <3>2
  <2>6. PICK t : Adds(t)
    BY DEF CountInv
  <2>7. Adds(t)'
    BY <2>2, <2>3, <2>6, CountSame, Zenon
  <2>8. QED
    BY <2>2, <2>3, <2>4, <2>5, <2>7 DEF CountInv, Quiet, Empty
<1>4. QED
  BY <1>1, <1>2, <1>3 DEF Next

LEMMA PercpuSpec == Spec => []PercpuInv
<1>1. PercpuInv /\ [Next]_vars => PercpuInv'
  BY PercpuStep
<1>2. QED
  BY <1>1, PercpuInit, PTL DEF Spec

\* A writer that has returned from percpu_down_write() is alone (percpu-rwsem.c:80, 145,
\* 151), for any number of readers, writers and CPUs.
THEOREM WriterAlone == Spec => []Exclusion
<1>1. PercpuInv => Exclusion
  <2> SUFFICES ASSUME PercpuInv, NEW w \in Writer, wpc[w] = "write"
               PROVE  /\ \A r \in Reader : rpc[r] # "in"
                      /\ \A v \in Writer \ {w} : wpc[v] # "write"
    BY DEF Exclusion
  <2>1. Counted = {}
    BY DEF PercpuInv, CountInv, Empty
  <2>2. \A v \in Writer : wpc[v] \in Holding => v = w
    BY HolderAlone DEF PercpuInv, Holding
  <2>3. QED
    BY <2>1, <2>2 DEF Counted, Holding
<1>2. QED
  BY <1>1, PercpuSpec, PTL

\* The slow counter is the number of active readers once the sum is in it, whichever
\* CPUs and counters they used and however often those wrapped (percpu-rwsem.c:121-122).
THEOREM SlowCountsReaders == Spec => []SlowIsReaders
<1>1. PercpuInv => SlowIsReaders
  <2> SUFFICES ASSUME PercpuInv PROVE SlowIsReaders
    OBVIOUS
  <2> USE DEF PercpuInv
  <2>1. write_ctr \in 0 .. Cardinality(Writer)
    <3>1. Busy \in SUBSET Writer /\ write_ctr = Cardinality(Busy)
      BY DEF Busy, SectionInv
    <3>2. Cardinality(Busy) \in Nat /\ Cardinality(Busy) <= Cardinality(Writer)
      BY <3>1, Tasks
    <3>3. Cardinality(Writer) \in Nat
      BY Tasks
    <3>4. QED
      BY <3>1, <3>2, <3>3
  <2>2. TypeOK
    BY <2>1, Zenon DEF TypeOK, Typed, LockInv, QueueOK, Rpc, Wpc
  <2>3. ASSUME NEW w \in Writer, wpc[w] \in Waiting PROVE slow_read_ctr = Cardinality(Active)
    <3>1. slow_read_ctr = Cardinality(Counted)
      BY <2>3, SlowCounter
    <3>2. \A r \in Reader : rpc[r] # "downUp"
      BY <2>3, HolderAlone DEF Holding
    <3>3. Counted = Active
      BY <3>2 DEF Counted, Active
    <3>4. QED
      BY <3>1, <3>3
  <2>4. QED
    BY <2>2, <2>3 DEF SlowIsReaders
<1>2. QED
  BY <1>1, PercpuSpec, PTL

\* A writer goes on only when every CPU on which a reader left on the fast path has
\* executed a barrier since (percpu-rwsem.c:41-42, 138-140).
THEOREM WriterSees == Spec => []WriterSeesReads
<1>1. PercpuInv => WriterSeesReads
  BY DEF PercpuInv, SectionInv, WriterSeesReads
<1>2. QED
  BY <1>1, PercpuSpec, PTL

\* A reader on the fast path is on a CPU that has executed a barrier since the last
\* up_write() (percpu-rwsem.c:44-45, 159-162).
THEOREM ReaderSees == Spec => []ReaderSeesWrites
<1>1. PercpuInv => ReaderSeesWrites
  BY DEF PercpuInv, SectionInv, ReaderSeesWrites
<1>2. QED
  BY <1>1, PercpuSpec, PTL
=============================================================================
