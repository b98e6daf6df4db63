---------------------------- MODULE StopMachine ----------------------------
(***************************************************************************)
(* stop_machine.c: callers queue works at the stopper threads of the CPUs. *)
(* A stopper preempts everything else on its CPU.  Works that run          *)
(* multi_cpu_stop() wait for each other on all their CPUs, so the order in *)
(* which works are queued on different CPUs decides whether the system     *)
(* goes on.  A section under a stopper's lock is one step.                 *)
(***************************************************************************)
EXTENDS Naturals, Sequences, FiniteSets

CONSTANTS
  Cpu, Offline,   \* CPU numbers, and the CPUs that are down at first
  Caller, None,
  Plan            \* Plan[t]: the calls [kind, cpus] task t may make

VARIABLES
  works, enabled,       \* struct cpu_stopper
  running, stage,       \* a stopper's work and where it is in it
  curstate,             \* multi_cpu_stop(): curstate
  handler,              \* the task whose irq_cpu_stop_queue_work() runs on a CPU
  active, online,       \* cpu_active_mask, cpu_online_mask
  park,                 \* stoppers that should park
  pc,                   \* where a caller is
  job,                  \* its works, struct cpu_stop_done and multi_stop_data
  lglock,               \* the per-CPU spinlocks of stop_cpus_lock
  mutex                 \* stop_cpus_mutex

stopper == <<running, stage, curstate>>
locks   == <<lglock, mutex>>
hotplug == <<enabled, active, online, park>>
vars    == <<works, stopper, handler, hotplug, pc, job, locks>>

Kinds == {"one", "nowait", "two", "try", "machine", "inactive", "down"}

\* The kinds whose works run multi_cpu_stop(), and those behind the mutex.
Multi  == {"two", "machine", "inactive", "down"}
Static == {"try", "machine", "inactive", "down"}

ASSUME StopMachineAssumption ==
  /\ Cpu \subseteq Nat /\ IsFiniteSet(Cpu) /\ Offline \subseteq Cpu
  /\ None \notin Caller
  /\ \A t \in Caller : Plan[t] \subseteq [kind : Kinds, cpus : Seq(Cpu)]

\* enum multi_stop_state
MULTI_STOP_NONE        == 0
MULTI_STOP_PREPARE     == 1
MULTI_STOP_DISABLE_IRQ == 2
MULTI_STOP_RUN         == 3
MULTI_STOP_EXIT        == 4

NoWork == [owner |-> None, kind |-> "none"]

NoJob == [kind |-> "none", cpus |-> <<>>, targets |-> <<>>, queued |-> 0, nr_todo |-> 0,
          executed |-> FALSE, num_threads |-> 0, ack |-> 0, state |-> MULTI_STOP_NONE,
          on |-> None, grace |-> {}]

Init ==
  /\ works = [c \in Cpu |-> <<>>]
  /\ enabled = Cpu \ Offline /\ active = Cpu \ Offline /\ online = Cpu \ Offline
  /\ running = [c \in Cpu |-> NoWork] /\ stage = [c \in Cpu |-> "idle"]
  /\ curstate = [c \in Cpu |-> MULTI_STOP_NONE] /\ handler = [c \in Cpu |-> None]
  /\ park = {}
  /\ pc = [t \in Caller |-> "out"] /\ job = [t \in Caller |-> NoJob]
  /\ lglock = [c \in Cpu |-> None] /\ mutex = None

Goto(t, l) == pc' = [pc EXCEPT ![t] = l]

\* for_each_cpu()
InOrder(S) == CHOOSE q \in [1 .. Cardinality(S) -> S] : \A i, j \in DOMAIN q : i < j => q[i] < q[j]

Lowest(q) == CHOOSE c \in {q[1], q[2]} : \A d \in {q[1], q[2]} : c <= d
-----------------------------------------------------------------------------
(* Callers.                                                                *)

\* cpu_hotplug_begin() is held, so that get_online_cpus() waits: a CPU is on its way
\* down or up.
HotplugActive ==
  \/ active \ enabled # {}
  \/ \E t \in Caller : job[t].kind \in {"inactive", "down"}

\* get_online_cpus() or cpu_hotplug_begin() is held.
HotplugLocked == HotplugActive \/ \E t \in Caller : job[t].kind \in Static

\* What a call works on.
Targets(k) ==
  CASE k.kind \in {"one", "nowait", "two"} -> k.cpus
    [] k.kind = "inactive" -> InOrder(active)
    [] OTHER -> InOrder(online)

Threads(k) == Len(Targets(k)) + (IF k.kind = "inactive" THEN 1 ELSE 0)

\* Mutant: one work is waited for.
InitDoneOne(k) == 1

\* The number cpu_stop_init_done() is given.
InitDone(k) == Len(Targets(k))

NewJob(k) ==
  [kind |-> k.kind, cpus |-> k.cpus, targets |-> Targets(k), queued |-> 0,
   nr_todo |-> InitDone(k), executed |-> FALSE,
   num_threads |-> Threads(k), ack |-> Threads(k), state |-> MULTI_STOP_PREPARE,
   on |-> None, grace |-> {}]

\* A call that returns at once, with -ENOENT or -EAGAIN, changes nothing.
Refused(k) ==
  \/ k.kind = "two" /\ ~({k.cpus[1], k.cpus[2]} \subseteq active)
  \/ k.kind = "try" /\ mutex # None

\* stop_two_cpus() runs with preemption disabled on this CPU.
Pinned(c) == \E t \in Caller : job[t].on = c /\ pc[t] \in {"local", "ipi", "queue"}

\* The CPUs that stop_two_cpus() may find itself on: the caller was free to move after
\* migrate_swap() had read its CPU.  A stopper with work to do has preempted it.
CallerCpu(k) ==
  IF k.kind = "two"
  THEN {c \in online : /\ stage[c] = "idle" /\ (c \in enabled => works[c] = <<>>)
                       /\ handler[c] = None /\ ~Pinned(c)}
  ELSE {None}

\* From the call to the first wait.
Start(t, k) ==
  /\ pc[t] = "out" /\ k.kind # "down" /\ ~Refused(k)
  /\ k.kind \in Static => ~HotplugActive
  /\ k.kind = "inactive" => ~HotplugLocked /\ k.cpus[1] \notin active
  /\ \E c \in CallerCpu(k) : job' = [job EXCEPT ![t] = [NewJob(k) EXCEPT !.on = c]]
  /\ IF k.kind = "try"
     THEN mutex' = t /\ Goto(t, "global")
     ELSE /\ Goto(t, CASE k.kind \in {"one", "nowait"} -> "queue"
                       [] k.kind = "two" -> "local"
                       [] OTHER -> "mutex")
          /\ UNCHANGED mutex
  /\ UNCHANGED <<works, stopper, handler, hotplug, lglock>>

\* _cpu_down() clears the CPU in the active mask and waits in synchronize_sched().
CpuDown(t, k) ==
  /\ pc[t] = "out" /\ k.kind = "down" /\ ~HotplugLocked
  /\ k.cpus[1] \in online /\ Cardinality(online) > 1
  /\ active' = active \ {k.cpus[1]}
  /\ job' = [job EXCEPT ![t] = [NewJob(k) EXCEPT !.grace = online]]
  /\ Goto(t, "sync")
  /\ UNCHANGED <<works, stopper, handler, enabled, online, park, locks>>

\* CPU c is outside every section with preemption disabled.  After the last one
\* _cpu_down() calls __stop_machine().
Quiesce(t, c) ==
  /\ pc[t] = "sync" /\ c \in job[t].grace
  /\ handler[c] = None /\ ~Pinned(c) /\ stage[c] \in {"idle", "loop"}
  /\ job' = [job EXCEPT ![t].grace = @ \ {c}]
  /\ Goto(t, IF job[t].grace = {c} THEN "mutex" ELSE "sync")
  /\ UNCHANGED <<works, stopper, handler, hotplug, locks>>

TakeMutex(t) ==
  /\ pc[t] = "mutex" /\ mutex = None
  /\ mutex' = t
  /\ Goto(t, "global")
  /\ UNCHANGED <<works, stopper, handler, hotplug, job, lglock>>

\* Mutant: stop_two_cpus() does not respect the other lock.
LgLocalFree(c) == TRUE

LgFree(c) == lglock[c] = None

LgLocalLock(t) ==
  LET c == job[t].on IN
  /\ pc[t] = "local" /\ LgFree(c)
  /\ lglock' = [lglock EXCEPT ![c] = t]
  /\ Goto(t, "ipi")
  /\ UNCHANGED <<works, stopper, handler, hotplug, job, mutex>>

\* One round of the loop of lg_global_lock().
LgGlobalLock(t) ==
  LET todo == {c \in Cpu : lglock[c] # t} IN
  /\ pc[t] = "global"
  /\ \E c \in todo :
        /\ \A d \in todo : c <= d
        /\ lglock[c] = None
        /\ lglock' = [lglock EXCEPT ![c] = t]
        /\ Goto(t, IF todo = {c} THEN "queue" ELSE "global")
  /\ UNCHANGED <<works, stopper, handler, hotplug, job, mutex>>

IrqsOff(c) == curstate[c] >= MULTI_STOP_DISABLE_IRQ

Released(f, t) == [c \in Cpu |-> IF f[c] = t THEN None ELSE f[c]]

\* smp_call_function_single(): the handler starts on the lower CPU.  If that is not
\* online nothing is queued, and the caller does not look at -ENXIO.
Ipi(t) ==
  LET c == Lowest(job[t].cpus) IN
  /\ pc[t] = "ipi"
  /\ IF c \in online
     THEN /\ handler[c] = None /\ ~IrqsOff(c)
          /\ handler' = [handler EXCEPT ![c] = t]
          /\ Goto(t, "queue")
          /\ UNCHANGED lglock
     ELSE lglock' = Released(lglock, t) /\ Goto(t, "wait") /\ UNCHANGED handler
  /\ UNCHANGED <<works, stopper, hotplug, job, mutex>>

\* Mutant: a work for a CPU that is down is forgotten.
SignalOfflineNever(j) == j

\* cpu_stop_signal_done(), not executed.
SignalOffline(j) == IF j.kind = "nowait" THEN j ELSE [j EXCEPT !.nr_todo = @ - 1]

\* cpu_stop_queue_work() for the next CPU.  After the last one the locks are
\* given back; stop_machine_from_inactive_cpu() goes on as a stopper.
CpuStopQueueWork(t) ==
  LET j    == [job[t] EXCEPT !.queued = @ + 1]
      c    == j.targets[j.queued]
      w    == [owner |-> t, kind |-> j.kind]
      last == j.queued = Len(j.targets)
  IN
  /\ pc[t] = "queue"
  /\ IF c \in enabled
     THEN works' = [works EXCEPT ![c] = Append(@, w)] /\ job' = [job EXCEPT ![t] = j]
     ELSE job' = [job EXCEPT ![t] = SignalOffline(j)] /\ UNCHANGED works
  /\ lglock' = IF last THEN Released(lglock, t) ELSE lglock
  /\ handler' = IF last THEN Released(handler, t) ELSE handler
  /\ Goto(t, IF last THEN IF j.kind = "nowait" /\ c \in enabled THEN "buf" ELSE "wait" ELSE "queue")
  /\ IF last /\ j.kind = "inactive"
     THEN /\ running' = [running EXCEPT ![j.cpus[1]] = w]
          /\ stage' = [stage EXCEPT ![j.cpus[1]] = "look"]
          /\ UNCHANGED curstate
     ELSE UNCHANGED stopper
  /\ UNCHANGED <<hotplug, mutex>>

\* wait_for_completion(), the busy wait for the completion, and the return;
\* _cpu_down() waits for the stopper to park first.
Return(t) ==
  /\ pc[t] = "wait"
  /\ job[t].nr_todo = 0 \/ job[t].kind = "nowait"
  /\ job[t].kind = "inactive" => running[job[t].cpus[1]] = NoWork
  /\ job[t].kind = "down" => job[t].cpus[1] \notin enabled
  /\ mutex' = IF mutex = t THEN None ELSE mutex
  /\ job' = [job EXCEPT ![t] = NoJob]
  /\ Goto(t, "out")
  /\ UNCHANGED <<works, stopper, handler, hotplug, lglock>>
-----------------------------------------------------------------------------
(* The stopper of CPU c; an interrupt handler or a task that disables      *)
(* preemption holds it up.                                                 *)

Free(c) == handler[c] = None /\ ~Pinned(c)

Owner(c) == running[c].owner

\* cpu_stopper_thread() takes the first work off its list.  The buffer of a
\* stop_one_cpu_nowait() is free again.
TakeWork(c) ==
  /\ stage[c] \in {"idle", "loop"} /\ Free(c) /\ c \in enabled
  /\ works[c] # <<>>
  /\ running' = [running EXCEPT ![c] = Head(works[c])]
  /\ works' = [works EXCEPT ![c] = Tail(@)]
  /\ stage' = [stage EXCEPT ![c] = IF Head(works[c]).kind \in Multi THEN "look" ELSE "end"]
  /\ IF Head(works[c]).kind = "nowait"
     THEN Goto(Head(works[c]).owner, "wait")
     ELSE UNCHANGED pc
  /\ UNCHANGED <<curstate, handler, hotplug, job, locks>>

\* multi_cpu_stop() sees a new state; fn runs on the chosen CPU, and
\* take_cpu_down() takes it offline and asks the stopper to park.
SeeState(c) ==
  /\ stage[c] = "look" /\ Free(c)
  /\ curstate[c] # job[Owner(c)].state
  /\ curstate' = [curstate EXCEPT ![c] = job[Owner(c)].state]
  /\ IF curstate'[c] = MULTI_STOP_RUN /\ running[c].kind = "down" /\ c = job[Owner(c)].cpus[1]
     THEN park' = park \cup {c} /\ online' = online \ {c}
     ELSE UNCHANGED <<park, online>>
  /\ stage' = [stage EXCEPT ![c] = "ack"]
  /\ UNCHANGED <<works, running, handler, enabled, active, pc, job, locks>>

\* Mutant: somebody else still has to acknowledge.
LastAckEarly(n) == n <= 1

LastAck(n) == n = 0

\* ack_state(); set_state() resets the counter before it publishes the state.
AckState(c) ==
  LET n == job[Owner(c)].ack - 1 IN
  /\ stage[c] = "ack" /\ Free(c)
  /\ job' = [job EXCEPT ![Owner(c)].ack = IF LastAck(n) THEN job[Owner(c)].num_threads ELSE n]
  /\ stage' = [stage EXCEPT ![c] =
                 IF LastAck(n) THEN "publish"
                 ELSE IF curstate[c] = MULTI_STOP_EXIT THEN "end" ELSE "look"]
  /\ UNCHANGED <<works, running, curstate, handler, hotplug, pc, locks>>

Publish(c) ==
  /\ stage[c] = "publish" /\ Free(c)
  /\ job' = [job EXCEPT ![Owner(c)].state = @ + 1]
  /\ stage' = [stage EXCEPT ![c] = IF curstate[c] = MULTI_STOP_EXIT THEN "end" ELSE "look"]
  /\ UNCHANGED <<works, running, curstate, handler, hotplug, pc, locks>>

\* fn has returned; cpu_stop_signal_done(), executed.
EndWork(c) ==
  /\ stage[c] = "end" /\ Free(c)
  /\ job' = IF running[c].kind = "nowait" \/ (running[c].kind = "inactive" /\ c \notin enabled)
            THEN job
            ELSE [job EXCEPT ![Owner(c)].executed = TRUE, ![Owner(c)].nr_todo = @ - 1]
  /\ running' = [running EXCEPT ![c] = NoWork]
  /\ curstate' = [curstate EXCEPT ![c] = MULTI_STOP_NONE]
  /\ stage' = [stage EXCEPT ![c] = IF c \in enabled THEN "loop" ELSE "idle"]
  /\ UNCHANGED <<works, handler, hotplug, pc, locks>>

\* The list is empty: back to smpboot_thread_fn().
LeaveLoop(c) ==
  /\ stage[c] = "loop" /\ works[c] = <<>> /\ Free(c)
  /\ stage' = [stage EXCEPT ![c] = "idle"]
  /\ UNCHANGED <<works, running, curstate, handler, hotplug, pc, job, locks>>

Stopper(c) == TakeWork(c) \/ SeeState(c) \/ AckState(c) \/ Publish(c) \/ EndWork(c) \/ LeaveLoop(c)
-----------------------------------------------------------------------------
(* _cpu_up() in three steps: CPU c joins the active mask at CPU_STARTING,  *)
(* the architecture sets it online, and _cpu_up() unparks its stopper.     *)

CpuStarting(c) ==
  /\ c \notin active /\ ~HotplugLocked
  /\ active' = active \cup {c}
  /\ UNCHANGED <<works, stopper, handler, enabled, online, park, pc, job, locks>>

CpuOnline(c) ==
  /\ c \in active \ online
  /\ online' = online \cup {c}
  /\ UNCHANGED <<works, stopper, handler, enabled, active, park, pc, job, locks>>

CpuStopUnpark(c) ==
  /\ c \in (active \cap online) \ enabled
  /\ enabled' = enabled \cup {c}
  /\ UNCHANGED <<works, stopper, handler, active, online, park, pc, job, locks>>

\* The works that wait are signalled; they stay in the list.
CpuStopPark(c) ==
  LET left(t) == Cardinality({i \in DOMAIN works[c] : works[c][i].owner = t /\ works[c][i].kind # "nowait"}) IN
  /\ stage[c] = "idle" /\ c \in park /\ Free(c)
  /\ job' = [t \in Caller |-> [job[t] EXCEPT !.nr_todo = @ - left(t)]]
  /\ enabled' = enabled \ {c}
  /\ park' = park \ {c}
  /\ UNCHANGED <<works, stopper, handler, active, online, pc, locks>>

Call(t) == TakeMutex(t) \/ LgLocalLock(t) \/ LgGlobalLock(t) \/ Ipi(t) \/ CpuStopQueueWork(t) \/ Return(t)

Next ==
  \/ \E t \in Caller : Call(t) \/ \E k \in Plan[t] : Start(t, k)
  \/ \E c \in Cpu : Stopper(c) \/ CpuStarting(c) \/ CpuOnline(c) \/ CpuStopUnpark(c)

Spec == Init /\ [][Next]_vars

\* The same with CPUs that are taken down.
HotplugNext ==
  \/ Next
  \/ \E t \in Caller : (\E k \in Plan[t] : CpuDown(t, k)) \/ (\E c \in Cpu : Quiesce(t, c))
  \/ \E c \in Cpu : CpuStopPark(c)

HotplugSpec == Init /\ [][HotplugNext]_vars

\* Callers and stoppers run.  Strong fairness: mutex and spinlocks are handed on
\* in turn, and an interrupt stays pending until the CPU takes it.
FairSpec ==
  /\ Spec
  /\ \A t \in Caller : SF_vars(Call(t))
  /\ \A c \in Cpu : WF_vars(Stopper(c))
-----------------------------------------------------------------------------
Listed(c) == {works[c][i] : i \in DOMAIN works[c]}

\* Every variable keeps its type, and no completion is signalled more often than
\* there are works (stop_machine.c:58, 68, 164).
TypeOK ==
  /\ works \in [Cpu -> Seq([owner : Caller, kind : Kinds])]
  /\ enabled \subseteq Cpu /\ active \subseteq Cpu /\ online \subseteq Cpu /\ park \subseteq Cpu
  /\ running \in [Cpu -> [owner : Caller, kind : Kinds] \cup {NoWork}]
  /\ stage \in [Cpu -> {"idle", "loop", "look", "ack", "publish", "end"}]
  /\ curstate \in [Cpu -> 0 .. 4] /\ handler \in [Cpu -> Caller \cup {None}]
  /\ pc \in [Caller -> {"out", "sync", "mutex", "local", "global", "ipi", "queue", "wait", "buf"}]
  /\ \A t \in Caller :
        /\ job[t].nr_todo \in 0 .. Cardinality(Cpu) /\ job[t].ack \in 0 .. Cardinality(Cpu)
        /\ job[t].queued \in 0 .. Cardinality(Cpu) /\ job[t].state \in 0 .. 5
  /\ lglock \in [Cpu -> Caller \cup {None}] /\ mutex \in Caller \cup {None}

\* While a CPU runs fn, every CPU of the same call is in multi_cpu_stop() with its
\* interrupts off, and none of them has left (stop_machine.c:188-208).
StoppedTogether ==
  \A c \in Cpu : curstate[c] = MULTI_STOP_RUN /\ stage[c] = "ack" =>
     LET t == Owner(c) IN
     Cardinality({d \in Cpu : Owner(d) = t /\ IrqsOff(d)}) = job[t].num_threads

\* Works, completion and state live on the stack of the caller or in static
\* memory: no stopper has one in its list or in its hands when the call is over
\* (stop_machine.c:118-123, 246-249, 326-327).  Every variable keeps its type.
NothingLeftBehind ==
  /\ TypeOK
  /\ \A c \in Cpu : \A w \in Listed(c) \cup {running[c]} :
        w.kind \notin {"none", "nowait"} => pc[w.owner] \in {"queue", "wait"}

\* "Queuing needs to be done by the lowest numbered CPU, to ensure that works are
\* always queued in the same order on every CPU. This prevents deadlocks."
\* (stop_machine.c:289-293): there are no calls that run on some of their CPUs
\* and are kept off the others by each other.
Blocks(u, t) ==
  \E c \in Cpu : /\ Owner(c) = u /\ running[c].kind \in Multi
                 /\ \E w \in Listed(c) : w.owner = t /\ w.kind \in Multi

NoCircularWait ==
  ~ \E S \in SUBSET {t \in Caller : job[t].kind \in Multi} :
       S # {} /\ \A t \in S : \E u \in S \ {t} : Blocks(u, t)

\* "drain remaining works" (stop_machine.c:501): a stopper that is parked has no
\* works left.
ParkedIsDrained == \A c \in Cpu : c \notin enabled => works[c] = <<>>

\* A stop_two_cpus() that took a CPU for active while its stopper was still parked
\* (sched/core.c:5054-5056, cpu.c:419-425): one of its works or both are not queued,
\* and it waits for a multi_cpu_stop() that nobody enters, or that one CPU never leaves.
Halved(t) ==
  /\ job[t].kind = "two" /\ pc[t] = "wait"
  /\ job[t].queued = 0 \/ (job[t].nr_todo = 1 /\ ~job[t].executed)

\* Every call returns, also one for a CPU that is down or comes up, unless a
\* stop_two_cpus() hits the moment described above and takes a CPU with it
\* (stop_machine.c:86-87, 123, 300, 362, 640).
CallsReturn ==
  (\A t \in Caller : []<>(pc[t] = "out")) \/ <>(\E t \in Caller : Halved(t))
=============================================================================
