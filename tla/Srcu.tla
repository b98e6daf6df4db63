-------------------------------- MODULE Srcu --------------------------------
(***************************************************************************)
(* rcu/srcu.c: readers count themselves in one of two ranks of per-CPU     *)
(* counters.  A grace period waits for one rank, flips the rank that new   *)
(* readers use, and waits for the other.  It is driven by the work item of *)
(* the srcu_struct, or by a synchronize_srcu() that found nobody driving.  *)
(* Every access to a per-CPU counter is a step; sections under queue_lock  *)
(* are atomic.                                                             *)
(***************************************************************************)
EXTENDS Integers, Sequences, FiniteSets

CONSTANTS
  Reader, Updater,   \* tasks; every updater has one struct rcu_head
  Work,              \* the work item
  CPUs,              \* the CPUs are 1 .. CPUs
  UlongRange,        \* the number of values of an unsigned long (2^64)
  Batch,             \* SRCU_CALLBACK_BATCH
  SyncTries          \* SYNCHRONIZE_SRCU_TRYCOUNT

Cpu  == 1 .. CPUs
Rank == {0, 1}
Proc == Updater \cup {Work}

ASSUME SrcuAssumption ==
  /\ Work \notin Updater
  /\ {CPUs, Batch, SyncTries} \subseteq Nat \ {0}
  /\ IsFiniteSet(Reader) /\ UlongRange \in Nat /\ UlongRange > Cardinality(Reader)

VARIABLES
  completed,     \* its lowest bit
  c, seq,        \* struct srcu_struct_array; seq since the check in progress began:
                 \* nothing but the difference of two sums is ever looked at
  batch_queue, batch_check0, batch_check1, batch_done,
  running, work, \* running, and whether the work item is scheduled
  rpc, ridx, rcpu,  \* where a reader is, its index, its CPU with preemption disabled
  status,        \* what an updater's rcu_head is in use for
  pc, loc,       \* where a driver is, and its local variables
  old,           \* history: the readers an updater has to wait for
  earlier        \* history: the callbacks an updater has to wait for

counters == <<completed, c, seq>>
batches  == <<batch_queue, batch_check0, batch_check1, batch_done>>
reader   == <<rpc, ridx, rcpu>>
driver   == <<pc, loc>>
history  == <<old, earlier>>
vars     == <<counters, batches, running, work, reader, status, driver, history>>

\* idx, what is left of trycount, the second check or the first, the next CPU, the
\* two sums, and callbacks done.
Blank == [idx |-> 0, tries |-> 0, flipped |-> FALSE, cpu |-> 1, seq |-> 0, sum |-> 0, i |-> 0]

Init ==
  /\ completed = 0
  /\ c = [d \in Cpu |-> [x \in Rank |-> 0]] /\ seq = [d \in Cpu |-> 0]
  /\ batch_queue = <<>> /\ batch_check0 = <<>> /\ batch_check1 = <<>> /\ batch_done = <<>>
  /\ running = FALSE /\ work = FALSE
  /\ rpc = [r \in Reader |-> "out"] /\ ridx = [r \in Reader |-> 0] /\ rcpu = [r \in Reader |-> 0]
  /\ status = [u \in Updater |-> "out"]
  /\ pc = [p \in Proc |-> "idle"] /\ loc = [p \in Proc |-> Blank]
  /\ old = [u \in Updater |-> {}] /\ earlier = [u \in Updater |-> {}]

Plus(a, b) == (a + b) % UlongRange
-----------------------------------------------------------------------------
(* Readers.                                                                *)

RGoto(r, l) == rpc' = [rpc EXCEPT ![r] = l]

Preemptible(d) == \A r \in Reader : rcpu[r] # d

\* __srcu_read_lock() in three accesses.
ReadIdx(r) ==
  /\ rpc[r] = "out"
  /\ ridx' = [ridx EXCEPT ![r] = completed]
  /\ RGoto(r, "picked")
  /\ UNCHANGED <<counters, batches, running, work, rcpu, status, driver, history>>

Count(r, d) ==
  /\ rpc[r] = "picked" /\ Preemptible(d)
  /\ c' = [c EXCEPT ![d][ridx[r]] = Plus(@, 1)]
  /\ rcpu' = [rcpu EXCEPT ![r] = d]
  /\ RGoto(r, "counted")
  /\ UNCHANGED <<completed, seq, batches, running, work, ridx, status, driver, history>>

\* The ranks whose seq somebody is summing up.
Summing == {"seq", "sum", "again"}
Checked == {loc[p].idx : p \in {q \in Proc : pc[q] \in Summing}}

CountSeq(r) ==
  /\ rpc[r] = "counted"
  /\ seq' = IF ridx[r] \in Checked THEN [seq EXCEPT ![rcpu[r]] = Plus(@, 1)] ELSE seq
  /\ rcpu' = [rcpu EXCEPT ![r] = 0]
  /\ RGoto(r, "in")
  /\ UNCHANGED <<completed, c, batches, running, work, ridx, status, driver, history>>

\* Mutant: the rank that is current at the time of the unlock.
UnlockRankNow(r) == completed

UnlockRank(r) == ridx[r]

\* __srcu_read_unlock(), on any CPU.
Unlock(r, d) ==
  /\ rpc[r] = "in" /\ Preemptible(d)
  /\ c' = [c EXCEPT ![d][UnlockRank(r)] = Plus(@, -1)]
  /\ ridx' = [ridx EXCEPT ![r] = 0]
  /\ RGoto(r, "out")
  /\ old' = [u \in Updater |-> old[u] \ {r}]
  /\ UNCHANGED <<completed, seq, batches, running, work, rcpu, status, driver, earlier>>
-----------------------------------------------------------------------------
(* Updaters.                                                               *)

InSection == {r \in Reader : rpc[r] = "in"}

Begin(u, s) ==
  /\ status[u] = "out" /\ pc[u] = "idle"
  /\ status' = [status EXCEPT ![u] = s]
  /\ old' = [old EXCEPT ![u] = InSection]
  /\ earlier' = [earlier EXCEPT ![u] = {v \in Updater : status[v] = "call"}]

CallSrcu(u) ==
  /\ Begin(u, "call")
  /\ batch_queue' = Append(batch_queue, u)
  /\ running' = TRUE
  /\ work' = IF running THEN work ELSE TRUE
  /\ UNCHANGED <<counters, batch_check0, batch_check1, batch_done, reader, driver>>

\* Mutant: the owner is stolen from whoever it is.
MayStealAlways == TRUE

MaySteal == ~running

\* __synchronize_srcu() up to the first unlock.
SynchronizeSrcu(u) ==
  /\ Begin(u, "sync")
  /\ running' = TRUE
  /\ IF MaySteal
     THEN /\ batch_check0' = Append(batch_check0, u)
          /\ pc' = [pc EXCEPT ![u] = "advance"]
          /\ UNCHANGED batch_queue
     ELSE batch_queue' = Append(batch_queue, u) /\ UNCHANGED <<batch_check0, pc>>
  /\ UNCHANGED <<counters, batch_check1, batch_done, work, reader, loc>>

\* wait_for_completion() returns, or there was nothing to wait for.
Return(u) ==
  /\ status[u] = "done" /\ pc[u] = "idle"
  /\ status' = [status EXCEPT ![u] = "out"]
  /\ UNCHANGED <<counters, batches, running, work, reader, driver, history>>
-----------------------------------------------------------------------------
(* The driver p of the grace periods: the work item or an updater.         *)

Goto(p, l) == pc' = [pc EXCEPT ![p] = l]

\* Mutant: rcu_batch_move() puts the callbacks in front.
MoveToFront(to, from) == from \o to

Move(to, from) == to \o from

\* process_srcu() starts and collects the new callbacks.
ProcessSrcu ==
  /\ work /\ pc[Work] = "idle"
  /\ work' = FALSE
  /\ batch_check0' = Move(batch_check0, batch_queue)
  /\ batch_queue' = <<>>
  /\ Goto(Work, "advance")
  /\ UNCHANGED <<counters, batch_check1, batch_done, running, reader, status, loc, history>>

TryCount(p) == IF p = Work THEN 1 ELSE SyncTries

\* What follows srcu_advance_batches().
Advanced(p) == IF p = Work THEN "invoke" ELSE "claim"

LeaveAdvance(p) == Goto(p, Advanced(p)) /\ loc' = [loc EXCEPT ![p] = Blank]

\* One more srcu_readers_active_idx_check() of rank idx.
Check(p, idx, tries, flipped) ==
  /\ Goto(p, "seq")
  /\ loc' = [loc EXCEPT ![p] = [Blank EXCEPT !.idx = idx, !.tries = tries, !.flipped = flipped]]

AdvanceBatches(p) ==
  /\ pc[p] = "advance"
  /\ IF batch_check0 = <<>> /\ batch_check1 = <<>>
     THEN LeaveAdvance(p)
     ELSE Check(p, 1 - completed, TryCount(p), FALSE)
  /\ UNCHANGED <<counters, batches, running, work, reader, status, history>>

\* Mutant: no validation step.
SeqStableAlways(diff) == TRUE

SeqStable(diff) == diff = 0

\* The sum with the counter of one more CPU.  The second sum of seq is subtracted from
\* the first.
Total(p) ==
  LET l == loc[p] IN
  CASE pc[p] = "seq"   -> Plus(l.seq, seq[l.cpu])
    [] pc[p] = "sum"   -> Plus(l.sum, c[l.cpu][l.idx])
    [] pc[p] = "again" -> Plus(l.seq, -seq[l.cpu])

\* What follows the loop that ends with the sum g.
AfterLoop(p, g) ==
  CASE pc[p] = "seq"   -> "sum"
    [] pc[p] = "sum"   -> IF g = 0 THEN "again" ELSE "fail"
    [] pc[p] = "again" -> IF SeqStable(g) THEN "pass" ELSE "fail"

\* One round of the loops of srcu_readers_seq_idx() and srcu_readers_active_idx().
AddUp(p) ==
  LET l    == loc[p]
      g    == Total(p)
      last == l.cpu = CPUs
      over == last /\ AfterLoop(p, g) \in {"pass", "fail"}
  IN
  /\ pc[p] \in Summing
  /\ IF last THEN Goto(p, AfterLoop(p, g)) ELSE UNCHANGED pc
  /\ loc' = [loc EXCEPT ![p] =
               [l EXCEPT !.cpu = IF last THEN 1 ELSE l.cpu + 1,
                         !.sum = IF over THEN 0 ELSE IF pc[p] = "sum" THEN g ELSE l.sum,
                         !.seq = IF over THEN 0 ELSE IF pc[p] = "sum" THEN l.seq ELSE g]]
  /\ seq' = IF over THEN [d \in Cpu |-> 0] ELSE seq
  /\ UNCHANGED <<completed, c, batches, running, work, reader, status, history>>

\* try_check_zero() tries again or gives up.
CheckFails(p) ==
  LET l == loc[p] IN
  /\ pc[p] = "fail"
  /\ IF l.tries > 1
     THEN Check(p, l.idx, l.tries - 1, l.flipped)
     ELSE LeaveAdvance(p)
  /\ UNCHANGED <<counters, batches, running, work, reader, status, history>>

\* The rank is free of readers: batch_check1 is done.  After the first check of the
\* two, the new callbacks take its place and srcu_flip() is called.
CheckSucceeds(p) ==
  LET l == loc[p]
      flip == ~l.flipped /\ batch_check0 # <<>>
  IN
  /\ pc[p] = "pass"
  /\ batch_done' = Move(batch_done, batch_check1)
  /\ IF flip
     THEN /\ completed' = 1 - completed
          /\ batch_check1' = batch_check0 /\ batch_check0' = <<>>
          /\ Check(p, 1 - l.idx, IF TryCount(p) < 2 THEN 2 ELSE TryCount(p), TRUE)
     ELSE /\ batch_check1' = <<>>
          /\ LeaveAdvance(p)
          /\ UNCHANGED <<completed, batch_check0>>
  /\ UNCHANGED <<c, seq, batch_queue, running, work, reader, status, history>>

\* The callback of an updater is invoked: it wakes a synchronize_srcu().
Invoked(u) ==
  /\ status' = [status EXCEPT ![u] = IF @ = "call" THEN "out" ELSE "done"]
  /\ earlier' = [v \in Updater |-> earlier[v] \ {u}]

InvokeCallbacks ==
  /\ pc[Work] = "invoke"
  /\ IF loc[Work].i < Batch /\ batch_done # <<>>
     THEN /\ Invoked(Head(batch_done))
          /\ batch_done' = Tail(batch_done)
          /\ loc' = [loc EXCEPT ![Work].i = @ + 1]
          /\ UNCHANGED pc
     ELSE /\ Goto(Work, "reschedule")
          /\ loc' = [loc EXCEPT ![Work] = Blank]
          /\ UNCHANGED <<batch_done, status, earlier>>
  /\ UNCHANGED <<counters, batch_queue, batch_check0, batch_check1, running, work, reader, old>>

\* __synchronize_srcu() takes its own callback off batch_done.
Claim(u) ==
  /\ pc[u] = "claim"
  /\ IF batch_done # <<>>
     THEN Invoked(Head(batch_done)) /\ batch_done' = Tail(batch_done)
     ELSE UNCHANGED <<batch_done, status, earlier>>
  /\ Goto(u, "reschedule")
  /\ UNCHANGED <<counters, batch_queue, batch_check0, batch_check1, running, work, reader, loc, old>>

\* Mutant: callbacks that are ready are overlooked.
AllEmptyButDone == batch_queue \o batch_check0 \o batch_check1 = <<>>

AllEmpty == batch_queue \o batch_check0 \o batch_check1 \o batch_done = <<>>

\* srcu_reschedule(): the look without the lock.
Reschedule(p) ==
  /\ pc[p] = "reschedule"
  /\ IF AllEmpty
     THEN Goto(p, "locked") /\ UNCHANGED work
     ELSE Goto(p, "idle") /\ work' = TRUE
  /\ UNCHANGED <<counters, batches, running, reader, status, loc, history>>

\* Mutant: the second look is left out.
StillEmptyAlways == TRUE

StillEmpty == AllEmpty

\* The look with the lock held.
RescheduleLocked(p) ==
  /\ pc[p] = "locked"
  /\ running' = ~StillEmpty
  /\ work' = IF StillEmpty THEN work ELSE TRUE
  /\ Goto(p, "idle")
  /\ UNCHANGED <<counters, batches, reader, status, loc, history>>
-----------------------------------------------------------------------------
Drive(p) ==
  \/ AdvanceBatches(p) \/ AddUp(p) \/ CheckFails(p) \/ CheckSucceeds(p)
  \/ Reschedule(p) \/ RescheduleLocked(p)

ReaderStep(r) == CountSeq(r) \/ \E d \in Cpu : Count(r, d) \/ Unlock(r, d)

Driving ==
  \/ ProcessSrcu \/ InvokeCallbacks
  \/ \E u \in Updater : Claim(u)
  \/ \E p \in Proc : Drive(p)

Next ==
  \/ Driving
  \/ \E u \in Updater : CallSrcu(u) \/ SynchronizeSrcu(u) \/ Return(u)
  \/ \E r \in Reader : ReadIdx(r) \/ ReaderStep(r)

Spec == Init /\ [][Next]_vars

\* The driver and the tasks run, and read-side critical sections end.
Fairness ==
  /\ WF_vars(Driving)
  /\ \A u \in Updater : WF_vars(Return(u))
  /\ \A r \in Reader : WF_vars(ReaderStep(r))

FairSpec == Spec /\ Fairness
-----------------------------------------------------------------------------
\* Every variable keeps its type; the counters are unsigned and wrap
\* (srcu.c:149-177, 297-321).
TypeOK ==
  /\ completed \in Rank
  /\ c \in [Cpu -> [Rank -> 0 .. UlongRange - 1]] /\ seq \in [Cpu -> 0 .. UlongRange - 1]
  /\ {batch_queue, batch_check0, batch_check1, batch_done} \subseteq Seq(Updater)
  /\ {running, work} \subseteq BOOLEAN
  /\ rpc \in [Reader -> {"out", "picked", "counted", "in"}]
  /\ ridx \in [Reader -> Rank] /\ rcpu \in [Reader -> Cpu \cup {0}]
  /\ status \in [Updater -> {"out", "call", "sync", "done"}]
  /\ pc \in [Proc -> {"idle", "advance", "seq", "sum", "again", "pass", "fail",
                     "invoke", "claim", "reschedule", "locked"}]
  /\ loc \in [Proc -> [idx : Rank, tries : Nat, flipped : BOOLEAN, cpu : Cpu,
                       seq : 0 .. UlongRange - 1, sum : 0 .. UlongRange - 1, i : 0 .. Batch]]
  /\ old \in [Updater -> SUBSET Reader] /\ earlier \in [Updater -> SUBSET Updater]

\* "Wait until all pre-existing readers complete" (srcu.c:337): a callback is ready
\* to be invoked, or a synchronize_srcu() over, only when the critical sections that
\* were open at the call have ended, however readers migrate between CPUs and
\* however long they hold an index before they use it.
GracePeriod ==
  \A u \in Updater :
     status[u] \in {"done", "out"} \/ (\E i \in DOMAIN batch_done : batch_done[i] = u) => old[u] = {}

\* "Wait until all in-flight call_srcu() callbacks complete" (srcu.c:535):
\* srcu_barrier() is a synchronize_srcu(), so one that is over must not leave a
\* callback behind that was queued before it.
Barrier == \A u \in Updater : status[u] \in {"done", "out"} => earlier[u] = {}

\* BUG_ON(sp->batch_done.head != head) (srcu.c:456): the updater that drove the
\* grace period itself finds nothing but its own callback done.
NoBug == \A u \in Updater : pc[u] = "claim" => batch_done \in {<<>>, <<u>>}

\* ->running says that exactly one driver is at work or scheduled; otherwise there
\* is nothing to do (srcu.c:399-402, 448-451, 665-677).
OneOwner ==
  LET owners == Cardinality({p \in Proc : pc[p] # "idle"}) + (IF work THEN 1 ELSE 0) IN
  IF running THEN owners = 1 ELSE owners = 0 /\ AllEmpty

\* The sums of a per-CPU quantity over the first n CPUs.
Sums(f) ==
  LET s[n \in 0 .. CPUs] == IF n = 0 THEN 0 ELSE s[n - 1] + f[n] IN s

\* The counters of all CPUs and both ranks add up to the number of readers, so that
\* cleanup_srcu_struct() warns only of real readers, and every variable keeps its type
\* (srcu.c:264-289, 297-321).
Balanced ==
  /\ TypeOK
  /\ \A x \in Rank :
        Sums([d \in Cpu |-> c[d][x]])[CPUs] % UlongRange
          = Cardinality({r \in Reader : rpc[r] \in {"counted", "in"} /\ ridx[r] = x})

\* Every callback is invoked and every synchronize_srcu() returns, although new
\* readers keep coming (srcu.c:353-361, 657-678).
CallbacksRun == \A u \in Updater : []<>(status[u] = "out")
=============================================================================
