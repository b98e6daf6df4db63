---------------------------- MODULE PercpuRwsem ----------------------------
(***************************************************************************)
(* locking/percpu-rwsem.c: readers count themselves in per-CPU counters    *)
(* unless a writer is about, and in one shared counter otherwise.  Reading *)
(* write_ctr and adding to the CPU's counter are two steps, in a section   *)
(* with preemption disabled; synchronize_sched_expedited() runs a stopper  *)
(* on every CPU, which cannot interrupt a section.  Each access to a       *)
(* shared counter is a step of its own, in the order of the program text.  *)
(* ->rw_sem is the lock that RwLock describes.                             *)
(***************************************************************************)
EXTENDS Integers, FiniteSets, Sequences

CONSTANTS
  Reader, Writer,
  CPUs,         \* the number of possible CPUs
  None,
  IntRange      \* the number of values of an int (2^32)

Cpu == 1 .. CPUs

\* There are more values of an int than tasks.
ASSUME RwsemAssumption ==
  /\ None \notin Reader \cup Writer \cup Cpu /\ Reader \cap Writer = {}
  /\ CPUs \in Nat \ {0}
  /\ IsFiniteSet(Reader) /\ IsFiniteSet(Writer)
  /\ IntRange \in Nat /\ IntRange > Cardinality(Reader)

\* Addition in an int.  The counters are only right as a sum modulo the range:
\* a reader that goes down on one CPU and up on another leaves 1 and -1 behind,
\* and without a writer nobody ever collects them.
Plus(a, b) == (a + b) % IntRange

VARIABLES
  write_ctr, slow_read_ctr, fast_read_ctr,  \* struct percpu_rw_semaphore
  rw_readers, rw_writer,                    \* who holds ->rw_sem
  rw_queue,                                 \* and who waits for it
  rpc,     \* where a reader is
  cpu,     \* the CPU its preempt-disabled section runs on
  wpc,     \* where a writer is
  grace,   \* the CPUs a writer's synchronize_sched_expedited() waits for
  visit,   \* clear_fast_ctr(): the next CPU of the loop
  sum,     \* clear_fast_ctr(): sum
  asleep,  \* writers on write_waitq whose task state is not running
  dirty    \* history: CPUs a reader left on the fast path, without a barrier since

counters == <<write_ctr, slow_read_ctr, fast_read_ctr>>
rw_sem   == <<rw_readers, rw_writer, rw_queue>>
reader   == <<rpc, cpu>>
writer   == <<wpc, grace, visit, sum, asleep>>
vars     == <<counters, rw_sem, reader, writer, dirty>>

Rw == INSTANCE RwLock WITH
  Task <- Reader \cup Writer, readers <- rw_readers, writer <- rw_writer, queue <- rw_queue

Init ==
  /\ write_ctr = 0 /\ slow_read_ctr = 0 /\ fast_read_ctr = [c \in Cpu |-> 0]
  /\ rw_readers = {} /\ rw_writer = None /\ rw_queue = <<>>
  /\ rpc = [r \in Reader |-> "out"] /\ cpu = [r \in Reader |-> None]
  /\ wpc = [w \in Writer |-> "out"] /\ grace = [w \in Writer |-> {}]
  /\ visit = [w \in Writer |-> 1] /\ sum = [w \in Writer |-> 0]
  /\ asleep = {} /\ dirty = {}

RGoto(r, l) == rpc' = [rpc EXCEPT ![r] = l]
WGoto(w, l) == wpc' = [wpc EXCEPT ![w] = l]

\* The readers inside update_fast_ctr()'s preempt-disabled section.
InSection == {r \in Reader : cpu[r] # None}
-----------------------------------------------------------------------------
(* Readers.                                                                *)

\* update_fast_ctr() up to its test.  One that finds a writer leaves the
\* section at once.
UpdateFastCtr(r, c, fast, slow) ==
  /\ \A q \in Reader : cpu[q] # c
  /\ IF write_ctr = 0
     THEN RGoto(r, fast) /\ cpu' = [cpu EXCEPT ![r] = c]
     ELSE RGoto(r, slow) /\ UNCHANGED cpu
  /\ UNCHANGED <<counters, rw_sem, writer, dirty>>

DownRead(r) == rpc[r] = "out" /\ \E c \in Cpu : UpdateFastCtr(r, c, "downAdd", "downSlow")

UpRead(r) == rpc[r] = "in" /\ \E c \in Cpu : UpdateFastCtr(r, c, "upAdd", "upDec")

\* __this_cpu_add() and preempt_enable().
FastAdd(r) ==
  /\ rpc[r] \in {"downAdd", "upAdd"}
  /\ LET val == IF rpc[r] = "downAdd" THEN 1 ELSE -1 IN
     fast_read_ctr' = [fast_read_ctr EXCEPT ![cpu[r]] = Plus(@, val)]
  /\ RGoto(r, IF rpc[r] = "downAdd" THEN "in" ELSE "out")
  /\ dirty' = IF rpc[r] = "upAdd" THEN dirty \cup {cpu[r]} ELSE dirty
  /\ cpu' = [cpu EXCEPT ![r] = None]
  /\ UNCHANGED <<write_ctr, slow_read_ctr, rw_sem, writer>>

\* down_read(): at once, or in the queue.
DownSlow(r) ==
  /\ rpc[r] = "downSlow"
  /\ \/ Rw!AcquireRead(r) /\ RGoto(r, "downInc")
     \/ Rw!Join(r, "read") /\ RGoto(r, "downLock")
  /\ UNCHANGED <<counters, cpu, writer, dirty>>

DownLock(r) ==
  /\ rpc[r] = "downLock" /\ r \in rw_readers
  /\ RGoto(r, "downInc")
  /\ UNCHANGED <<counters, rw_sem, cpu, writer, dirty>>

DownInc(r) ==
  /\ rpc[r] = "downInc"
  /\ slow_read_ctr' = Plus(slow_read_ctr, 1)
  /\ RGoto(r, "downUp")
  /\ UNCHANGED <<write_ctr, fast_read_ctr, rw_sem, cpu, writer, dirty>>

DownUp(r) ==
  /\ rpc[r] = "downUp"
  /\ Rw!ReleaseRead(r)
  /\ RGoto(r, "in")
  /\ UNCHANGED <<counters, cpu, writer, dirty>>

LastReader(n) == n = 0

UpDec(r) ==
  /\ rpc[r] = "upDec"
  /\ slow_read_ctr' = Plus(slow_read_ctr, -1)
  /\ RGoto(r, IF LastReader(slow_read_ctr') THEN "upWake" ELSE "out")
  /\ UNCHANGED <<write_ctr, fast_read_ctr, rw_sem, cpu, writer, dirty>>

UpWake(r) ==
  /\ rpc[r] = "upWake"
  /\ asleep' = {}
  /\ RGoto(r, "out")
  /\ UNCHANGED <<counters, rw_sem, cpu, wpc, grace, visit, sum, dirty>>
-----------------------------------------------------------------------------
(* Writers.                                                                *)

\* synchronize_sched_expedited() is called, and the writer goes on at l.  When the
\* stoppers cannot be started, or too many calls are under way, it retries, returns
\* because another caller did its work, or falls back on synchronize_sched(); each
\* of these has the same contract, that every CPU left its section since the call.
Synchronize(w, l) == grace' = [grace EXCEPT ![w] = Cpu] /\ WGoto(w, l)

\* Its stopper has run on CPU c: a full barrier there, outside every section.
Quiesce(w, c) ==
  /\ c \in grace[w] /\ \A r \in Reader : cpu[r] # c
  /\ grace' = [grace EXCEPT ![w] = @ \ {c}]
  /\ dirty' = dirty \ {c}
  /\ UNCHANGED <<counters, rw_sem, reader, wpc, visit, sum, asleep>>

DownWrite(w) ==
  /\ wpc[w] = "out"
  /\ write_ctr' = write_ctr + 1
  /\ Synchronize(w, "grace")
  /\ UNCHANGED <<slow_read_ctr, fast_read_ctr, rw_sem, reader, visit, sum, asleep, dirty>>

\* Mutant: the first grace period is not waited for.
DownWriteMayGoOnEarly(w) == TRUE

DownWriteMayGoOn(w) == grace[w] = {}

\* The grace period is over, and down_write() is called.
QueueWrite(w) ==
  /\ wpc[w] = "grace" /\ DownWriteMayGoOn(w)
  /\ Rw!Join(w, "write")
  /\ WGoto(w, "lock")
  /\ UNCHANGED <<counters, reader, grace, visit, sum, asleep, dirty>>

LockWrite(w) ==
  /\ wpc[w] = "lock"
  /\ Rw!GrantWriter(w)
  /\ WGoto(w, "clear")
  /\ UNCHANGED <<counters, reader, grace, visit, sum, asleep, dirty>>

\* Mutant: the counter is not set back to 0.
ClearedKeeps(c) == fast_read_ctr

Cleared(c) == [fast_read_ctr EXCEPT ![c] = 0]

\* One round of the loop of clear_fast_ctr().
ClearFastCtr(w) ==
  /\ wpc[w] = "clear" /\ visit[w] \in Cpu
  /\ sum' = [sum EXCEPT ![w] = Plus(@, fast_read_ctr[visit[w]])]
  /\ fast_read_ctr' = Cleared(visit[w])
  /\ visit' = [visit EXCEPT ![w] = @ + 1]
  /\ UNCHANGED <<write_ctr, slow_read_ctr, rw_sem, reader, wpc, grace, asleep, dirty>>

MoveSum(w) ==
  /\ wpc[w] = "clear" /\ visit[w] \notin Cpu
  /\ slow_read_ctr' = Plus(slow_read_ctr, sum[w])
  /\ sum' = [sum EXCEPT ![w] = 0] /\ visit' = [visit EXCEPT ![w] = 1]
  /\ WGoto(w, "test")
  /\ UNCHANGED <<write_ctr, fast_read_ctr, rw_sem, reader, grace, asleep, dirty>>

\* wait_event(): the test before queueing, and the one after prepare_to_wait().
Test(w) ==
  /\ wpc[w] \in {"test", "prepared"}
  /\ IF slow_read_ctr = 0
     THEN WGoto(w, "write") /\ asleep' = asleep \ {w}
     ELSE WGoto(w, IF wpc[w] = "test" THEN "prepare" ELSE "sleep") /\ UNCHANGED asleep
  /\ UNCHANGED <<counters, rw_sem, reader, grace, visit, sum, dirty>>

Prepare(w) ==
  /\ wpc[w] = "prepare"
  /\ asleep' = asleep \cup {w}
  /\ WGoto(w, "prepared")
  /\ UNCHANGED <<counters, rw_sem, reader, grace, visit, sum, dirty>>

\* schedule() returns, and the loop prepares to wait again.
Woken(w) ==
  /\ wpc[w] = "sleep" /\ w \notin asleep
  /\ WGoto(w, "prepare")
  /\ UNCHANGED <<counters, rw_sem, reader, grace, visit, sum, asleep, dirty>>

UpWrite(w) ==
  /\ wpc[w] = "write"
  /\ Rw!ReleaseWrite(w)
  /\ Synchronize(w, "sync")
  /\ UNCHANGED <<counters, reader, visit, sum, asleep, dirty>>

\* Mutant: the second grace period is not waited for.
UpWriteMayGoOnEarly(w) == TRUE

UpWriteMayGoOn(w) == grace[w] = {}

DecWriteCtr(w) ==
  /\ wpc[w] = "sync" /\ UpWriteMayGoOn(w)
  /\ write_ctr' = write_ctr - 1
  /\ WGoto(w, "out")
  /\ UNCHANGED <<slow_read_ctr, fast_read_ctr, rw_sem, reader, grace, visit, sum, asleep, dirty>>
-----------------------------------------------------------------------------
ReaderStep(r) ==
  \/ FastAdd(r) \/ DownSlow(r) \/ DownLock(r) \/ DownInc(r) \/ DownUp(r)
  \/ UpRead(r) \/ UpDec(r) \/ UpWake(r)

WriterStep(w) ==
  \/ QueueWrite(w) \/ ClearFastCtr(w) \/ MoveSum(w)
  \/ Test(w) \/ Prepare(w) \/ Woken(w) \/ UpWrite(w) \/ DecWriteCtr(w)
  \/ \E c \in Cpu : Quiesce(w, c)

\* __rwsem_do_wake() lets the readers at the front in.
GrantReaders == Rw!GrantReaders /\ UNCHANGED <<counters, reader, writer, dirty>>

Next ==
  \/ GrantReaders
  \/ \E r \in Reader : DownRead(r) \/ ReaderStep(r)
  \/ \E w \in Writer : DownWrite(w) \/ LockWrite(w) \/ WriterStep(w)

Spec == Init /\ [][Next]_vars

\* Runnable tasks run and critical sections end.  A waiter gets the lock when it is
\* there for it to take; nothing keeps running writers from stealing it before.
FairSpec ==
  /\ Spec
  /\ WF_vars(GrantReaders)
  /\ \A r \in Reader : WF_vars(ReaderStep(r))
  /\ \A w \in Writer : WF_vars(WriterStep(w)) /\ WF_vars(LockWrite(w))
-----------------------------------------------------------------------------
Active == {r \in Reader : rpc[r] \in {"in", "upAdd", "upDec"}}

Waiting == {"test", "prepare", "prepared", "sleep"}

\* Every variable keeps its type, and write_ctr never exceeds the number of
\* writers or drops below zero (percpu-rwsem.c:61, 86, 99, 130, 148, 164).
TypeOK ==
  /\ write_ctr \in 0 .. Cardinality(Writer)
  /\ slow_read_ctr \in 0 .. IntRange - 1
  /\ fast_read_ctr \in [Cpu -> 0 .. IntRange - 1]
  /\ rw_readers \subseteq Reader /\ rw_writer \in Writer \cup {None}
  /\ rw_queue \in Seq(Rw!Waiter)
  /\ rpc \in [Reader -> {"out", "downAdd", "downSlow", "downLock", "downInc", "downUp",
                         "in", "upAdd", "upDec", "upWake"}]
  /\ cpu \in [Reader -> Cpu \cup {None}]
  /\ wpc \in [Writer -> Waiting \cup {"out", "grace", "lock", "clear", "write", "sync"}]
  /\ grace \in [Writer -> SUBSET Cpu] /\ dirty \subseteq Cpu /\ visit \in [Writer -> 1 .. CPUs + 1]
  /\ sum \in [Writer -> 0 .. IntRange - 1] /\ asleep \subseteq Writer

\* A writer that has returned from percpu_down_write() is alone: no reader is in
\* its critical section and no other writer in its own (percpu-rwsem.c:80, 145, 151).
Exclusion ==
  \A w \in Writer : wpc[w] = "write" =>
     /\ \A r \in Reader : rpc[r] # "in"
     /\ \A v \in Writer \ {w} : wpc[v] # "write"

\* "Once the writer moves its sum into the slow counter it represents the number
\* of active readers" (percpu-rwsem.c:121-122), however the readers migrated and
\* whichever counter they went down and up on.  Every variable keeps its type.
SlowIsReaders ==
  /\ TypeOK
  /\ (\E w \in Writer : wpc[w] \in Waiting) => slow_read_ctr = Cardinality(Active)

\* "R_W: down_write() comes after up_read(), the writer should see all changes done
\* by the reader" (percpu-rwsem.c:41-42, 138-140): every CPU on which a reader left
\* without a barrier has executed one before the writer goes on.
WriterSeesReads == (\E w \in Writer : wpc[w] = "write") => dirty = {}

\* "W_R: down_read() comes after up_write(), the reader should see all changes done
\* by the writer" (percpu-rwsem.c:44-45, 159-162): a reader on the fast path is on a
\* CPU that has executed a barrier since the last up_write().
ReaderSeesWrites ==
  \A r \in Reader : rpc[r] = "downAdd" =>
     \A w \in Writer : wpc[w] \in {"sync", "out"} => cpu[r] \notin grace[w]

\* Readers never starve a writer, however many come and go: a writer waits for ever
\* only if other writers, which may steal ->rw_sem from those who wait for it, get
\* in again and again.  The same is true of a reader that was sent to the slow path
\* (percpu-rwsem.c:85-88, 99-100, 130, 145, 151; rwsem-xadd.c:72-76,
\* rwsem-spinlock.c:203-210).
EveryoneGetsIn ==
  /\ \A w \in Writer :
       \/ []<>(wpc[w] \in {"out", "write"})
       \/ \E v \in Writer \ {w} : []<>(wpc[v] = "write")
  /\ \A r \in Reader :
       \/ []<>(rpc[r] \in {"out", "in"})
       \/ \E v \in Writer : []<>(wpc[v] = "write")
=============================================================================
