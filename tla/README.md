# Verification of the SOTABOTS robot code

The repository holds the software of a FIRST robot (Java on the controller, an
Arduino sketch for the LED lamps, Python vision and scouting programs) next to a
directory of vendored code, "ROBOT OS", of which the largest part is the
`kernel/` directory of Linux 3.14. This project models the robot program with its
two links to other machines and the kernel's blocking primitives in TLA+, checks
the models with TLC and proves the most important invariants with TLAPS.

`PROJECT.json` lists the components, runs, mutants, findings, hazards and
theorems, and for every definition that models code the lines it stands for.
Paths below are relative to `src/`; `K/` stands for `ROBOT OS/ROBT KERNLE/`.

## Parts of the system

| Part | State | Operations | What is hard about it |
|---|---|---|---|
| Robot program, drive and catapult (`Robot.java`) | fields `pressed`, `winding`, `latched`; winch, latch and drive outputs; encoders, limit switch, timer | `autonomous()`, `operatorControl()`, `test()` | state outlives mode changes; sensors change between two tests of one if/else chain; loops that end only by themselves |
| Robot program, intake and shifter (`Robot.java`) | `shifted`, `intakeDown`, `intake` and their outputs | the same methods, `SetIntakeMotor()` | fields and outputs set in different places |
| Vision link (`Network.java`, `2014 Vision.py`, `NetworkTest.py`) | sockets, the host's accept queue, bytes on the way | `listenCoor()`; the host's loop and `send()` | blocking calls on the robot thread, two formats for one message, a host that ends at any point |
| LED link (`Robot.java`, `Blue_mode.ino`) | `modeIndex`, five digital outputs; the sketch's current mode | one pass of the operator loop; `loop()` of the sketch | two processors without synchronisation, one pin at a time |
| Sleeping tasks (`K/sched/core.c`, `K/timer.c`, `K/signal.c`) | task state, pending signal, timer | wake-up, signal, timeout | each can come at any time |
| Semaphore (`K/locking/semaphore.c`) | count, wait list, waiter records | `down*()`, `up()` | hand-over racing with a signal or a timeout |
| Completion (`K/sched/completion.c`) | counter, queue | `wait_for_*()`, `try_wait_*()`, `complete()`, `complete_all()`, `completion_done()` | a woken waiter owns nothing yet; counter at its limit |
| rw_semaphore (`K/locking/rwsem.c`, `rwsem-xadd.c`, `rwsem-spinlock.c`) | one count or activity word, wait list | `{down,up}_{read,write}()`, trylocks, `downgrade_write()` | fast paths change the count without the lock; writers steal it during a wake-up |
| Per-CPU rw-semaphore (`K/locking/percpu-rwsem.c`) | per-CPU and shared counters, inner rw_semaphore | `percpu_{down,up}_{read,write}()` | counters that are right only as a sum; grace periods |
| CPU stopper (`K/stop_machine.c`) | works, stopper threads, `multi_stop_data`, locks | `stop_one_cpu*()`, `stop_two_cpus()`, `try_stop_cpus()`, `stop_machine()`, parking | works on several CPUs wait for each other, so the order of queuing decides |
| Sleepable RCU (`K/rcu/srcu.c`) | two ranks of per-CPU counters, four batches of callbacks, `running` | `srcu_read_lock/unlock()`, `call_srcu()`, `synchronize_srcu()`, the work item | sums of counters that are read one by one while readers move |
| Other code | | | not modelled, with the reason, in `PROJECT.json` |

The parts interact as follows. The WPILib framework calls one method of `Robot`
per mode, on one thread; the driver station changes the mode at any time, and
the mechanism moves at any time. `autonomous()` calls the vision host and does
nothing else until the call returns. The operator loop drives the LED controller
through five wires. The kernel primitives are used by tasks that sleep and are
woken through the scheduler; the per-CPU semaphore is built on the rw_semaphore.

## Modules

| Module | Models | Properties checked |
|---|---|---|
| `SimpleRobot` | the framework (external: WPILib is not in the repository) | |
| `RobotControl` | drive and catapult | `WindingIsLatched`, `OvershootBounded`, `AutoFiresAtRest`, `OnlyTriggerReleases`, `TeleopReached`, `WindingEnds` |
| `Manipulators` | intake and shifter | `OutputsMatch`, `ArmMovesOnRequest` |
| `VisionLink` | `listenCoor()`, the network and the vision host | `OwnConnection` |
| `MCRobotNet` | `Manipulators` and `VisionLink` on one thread | the above, `OperatorServed`, `AnswerReturned` |
| `LedLink`, `MCLedLink` | LED link; the wiring for TLC | `OneMode`, `ShownWasWanted`, `LampsFollow` |
| `CountingSemaphore` | the promise of the semaphore | |
| `TaskSleep` | a sleeping task and all that can wake it | |
| `Semaphore` | `semaphore.c`, on `TaskSleep` | `TypeOK`, `Fifo`, `Implements`, `WaitEnds` |
| `Completion` | `completion.c`, on `TaskSleep` | `TypeOK`, `AllLetThrough`, `EnoughAwake`, `Taken` |
| `RwLock` | the promise of the rw_semaphore | |
| `RwsemXadd` | the build with an atomic count | `Exclusion`, `Implements`, `LockIsUsed` |
| `RwsemSpinlock` | the build with a spinlock | |
| `MCRwsem` | both builds, either of which may run | the above and `LockLedger` |
| `PercpuRwsem` | `percpu-rwsem.c`, on `RwLock` | `Exclusion`, `SlowIsReaders`, `WriterSeesReads`, `ReaderSeesWrites`, `EveryoneGetsIn` |
| `StopMachine`, `MCStopMachine` | `stop_machine.c`; the calls the tasks make | `StoppedTogether`, `NothingLeftBehind`, `NoCircularWait`, `CallsReturn`, `ParkedIsDrained` |
| `Srcu`, `MCSrcu` | `srcu.c`; the casts of the run | `GracePeriod`, `Barrier`, `NoBug`, `OneOwner`, `Balanced`, `CallbacksRun` |
| `RobotControlProofs`, `RobotNetProofs`, `LedLinkProofs`, `CompletionProofs` | | theorems about the module of that name, `RobotNetProofs` about `MCRobotNet` |
| `SemaphoreProofs` | | theorems about `Semaphore` and, in its last section, `RwsemSpinlock` |
| `PercpuRwsemProofs` | | theorems about `PercpuRwsem` |
| `SrcuProofs`, `SrcuGraceProofs` | | theorems about `Srcu`; the second has the grace period and rests on the first |

Every module has one type invariant. Where the properties column does not name
`TypeOK`, it is a conjunct of the module's first state invariant that speaks about
all of the state (`OutputsMatch`, `OwnConnection`, `LockLedger`, `SlowIsReaders`,
`NothingLeftBehind`, `Balanced`), or it is proved (`RobotControl`, `LedLink`).

Definitions whose comment begins with "Mutant:" are wrong variants of the
definition that follows. None is part of a specification; for each property of
each passing run there is one that TLC finds to violate the property.

### How state and actions correspond to the code

**RobotControl.** A variable per field, output and sensor. `pc` is the place of
the robot thread: one value per loop of `autonomous()`, and for the operator loop
one per test of the winch chain (`w1` to `w6`, Robot.java:201-236), because each
test reads the sensors anew. A button is read as either value. `WinchTurns`,
`ArmMoves`, `WheelsTurn` and `Tick` are the machine and the clock. The latch's
two solenoids are one variable, since each branch writes them one after the
other with opposite values. `relatched` and `wound` are history variables: button 2
has kept the chain from its encoder test; the motor has turned in branch 212 since
the latch was last opened. The compressor, the dashboard and console output
are left out; the network call returns after any time (`MCRobotNet` says when).

**Manipulators.** The same thread, where a pass has two halves: buttons set
fields, then fields are copied to the outputs. The three variables of each half
are written in one step, since nothing in the program reads them in between.

**VisionLink.** `call` is the place in `listenCoor()`: opening the connection,
opening the stream, reading. Each of the three catch blocks (error codes 221, 222
and 224) is an early return. `queue` is the host's accept queue, in which
connections of calls that gave up stay, because the robot never closes a socket.
The host analyses a frame, accepts one connection, sends a string, and at the end
of its loop sends "Stopped."; it may die anywhere and be started again. Bytes
arrive in pieces, the end of the connection after all of them. `readUTF()` is
modelled by what it does with bytes that another format put there: it takes the
first two as a length. `MCRobotNet` makes the call a part of `autonomous()`: the
thread takes no other step until it returns.

**LedLink.** One step per `set()` call and one per `digitalRead()`, in the order
of the program text. `Chain` is the wiring between the outputs and the pins of
the sketch, any bijection.

**TaskSleep, Semaphore, Completion.** What happens under the lock is one step.
A waiter is in `schedule_timeout()` (`sched`) or about to take the lock again
(`relock`). Between the two a wake-up, a signal, the timeout or a spurious
wake-up may happen, before as well as after the task has left the CPU. `up` in
`Semaphore` is the set of waiters whose `waiter.up` is set. In `Completion` the
counter has its width (`UintMax`), and `posted`, `alls`, `taken` and `owed` are
history variables; `owed` holds the tasks that waited at a `complete_all()` and have
not got through since. `completion_done()` changes nothing and is no action.

**RwLock, RwsemXadd, RwsemSpinlock.** `RwLock` says who holds the lock and who
waits. In `RwsemXadd` every access to `count` is a step; `Bias` is
`RWSEM_ACTIVE_MASK + 1`. `wait_lock` is held over several steps where the code
looks at the count more than once under it, and `__rwsem_do_wake()` is the chain
of those accesses: try to grant, find that a writer has stolen the lock, take the
grant back, try again. A reader that has been let in and does not know it yet
(`waiter.task` is NULL) is in `granted`. The inline fast paths belong to
architecture headers that are not in the repository and are marked external. In
`RwsemSpinlock` everything under `wait_lock` is one step.

**PercpuRwsem.** Every access to a shared counter is a step. Reading `write_ctr`
and adding to the CPU's counter are two steps of a preempt-disabled section, which
occupies its CPU. `grace` holds the CPUs that `synchronize_sched_expedited()`
still waits for, and `dirty` those that have left a critical section without a
memory barrier since: the two grace periods are there for ordering, and the two
properties say what they order. `synchronize_sched_expedited()` also retries, returns
because another caller did its work, or falls back on `synchronize_sched()`
(K/rcu/tree.c:2710-2716, 2734-2773); these paths have the same contract and are not
told apart. All counters are added modulo `IntRange`.
`clear_fast_ctr()` visits one CPU per step, in the order of the loop (`visit`). The
inner rw_semaphore is an instance of `RwLock`, whose actions this module takes.

**StopMachine.** A caller's `job` holds its works, `cpu_stop_done` and
`multi_stop_data`; a stopper's `stage` is its place in `multi_cpu_stop()`, where
reading `state`, acknowledging and publishing the next state are steps.
`stop_two_cpus()` goes through the local or global lock, the interrupt on the lower
CPU, and one queuing after the other. The caller keeps preemption off on some CPU,
not necessarily one of the two (`CallerCpu`): `migrate_swap()` reads its CPU before.
A CPU whose stopper has interrupts off takes no interrupt, and one that is not online
takes none either, which the caller does not notice. A CPU comes up in three steps:
it joins the active mask (`CpuStarting`), the architecture sets it online
(`CpuOnline`), its stopper is unparked (`CpuStopUnpark`). `HotplugSpec` adds
`_cpu_down()`: out of the active mask (`CpuDown`), a grace period (`Quiesce`),
`__stop_machine()`, which takes the CPU offline, and `cpu_stop_park()`, for which
`_cpu_down()` waits.

**Srcu.** `__srcu_read_lock()` is three accesses (read the index, add to `c`, add
to `seq`), and the check of a rank reads the counters of one CPU per step: all
`seq`, all `c`, all `seq` again. `AddUp` is one turn of these three loops, `Total` the
sum so far and `AfterLoop` what follows the last turn. `seq` is counted from the beginning of the check
in progress, because only the difference of two sums is used. `loc` holds the
locals of the driver, which is the work item or a `synchronize_srcu()`. `old` and
`earlier` are history variables: what a grace period has to wait for.

## Runs

| Run | Distinct states | Shows |
|---|---|---|
| `robot` | 343,920 | the winch pulls only on a closed latch and stops less than two passes beyond its target; what the motor wound is let go only by the trigger and `autonomous()`; a prompt `autonomous()` fires at rest; the operator gets control; winding ends (target and end not for a winding during which button 2 is held again, see Findings) |
| `robot_net` | 29,412 | outputs match the fields in every mode; the arm moves on request only; a connection left behind by a failed call is never taken for the next call's; an operator waiting for the call to end is served, although the host may break down in it |
| `robot_net_doc` | violation | see Findings |
| `led_link` | 3,653 | no unwanted LED mode is shown; the lamps follow the index |
| `semaphore` | 110,934 | the kernel semaphore implements the promise, first come first served; every wait ends |
| `completion` | 615,344 | whoever waits at a `complete_all()` is let through; enough waiters are awake; no completion lies idle while tasks wait |
| `rwsem` | 15,956 | both builds implement the abstract lock; the count is the ledger of those inside; a lock that is waited for does not stay free |
| `percpu_rwsem` | 78,440 | writers are alone; what the comments say of the two counters and of the two grace periods; readers starve nobody, and only writers that get in again and again keep anybody waiting |
| `stop_machine` | 372,227 | the CPUs of a call stop together; no work outlives its call; no circle of waiting calls; every call returns, but for one case (see Findings) |
| `stop_two` | violation | see Findings |
| `stop_park` | violation | see Findings |
| `srcu` | 307,510 | no callback runs before the readers it waits for are gone; a barrier leaves no callback behind; the `BUG_ON` never fires; there is one driver; the counters add up to the readers; callbacks run although readers keep coming |

### Bounds

* Robot: small targets and times in place of 560 and 3400 counts and 0.5, 1.8
  and 2 s. The conditions compare each sensor with one constant, so below, at and
  beyond the constant is all they can tell apart. `Slip` (counts per pass) is 2,
  so that the target can be jumped over. `MaxStall` bounds how late the thread may
  be; `Prompt` is the condition under which it cannot miss the firing window.
* Vision link: `Backlog = 2`, what `listen(1)` allows, so that an abandoned
  connection can be in front of the call's own. The two messages are the ones the
  host sends.
* Semaphore: three tasks and one permit, so that two wait while one holds; one
  additional `up()`; waits that nothing disturbs and waits that everything does.
* Completion: three tasks, so that a wake-up can meet a waiter that runs already
  and one that sleeps. All wait killably with a timeout, which includes the
  behaviour of the waits that nothing disturbs. `UintMax = 7`: two `complete_all()`
  and two `complete()` wrap the counter to 0, as with 2^32 - 1.
* rw_semaphore: three tasks, so that a writer steals from a wake-up of another
  task while a third holds or waits. `Bias = 5` leaves room for all tasks in the
  active part, as the real mask does.
* Per-CPU rw-semaphore: two CPUs are needed for a reader to change CPUs; two
  writers to overlap one's `up_write` with the other's `down_write`; two readers to
  have one on each path. `IntRange = 3` exceeds the number of readers.
* CPU stopper: three CPUs of which one is down at first and comes up at any time,
  and three callers, with at least one call of every kind between them. Two of them
  name the same two CPUs in opposite order, and one of the two is the CPU that comes
  up. A circle of waiting calls needs
  three pairs of CPUs, hence the triangle of `stop_two`.
* SRCU: `UlongRange = 3` counter values, more than there are readers, two CPUs, and two
  casts, because the two difficulties are independent: readers that migrate
  against one callback, and two updaters against one reader that stays.
  `Batch = 1` makes the work item stop half-way; `SyncTries = 2` is the real value.

### Fairness

* `RobotControl`: weak fairness of the robot thread (it is never descheduled for
  ever, and the network call returns), of the clock, of the wheels while driven
  forward and of the winch while it winds. The driver station and the sticks are
  not fair.
* `MCRobotNet`: weak fairness of the thread, of a host that is up, and of the
  network. That the host dies or is started again is not assumed. A host machine
  that vanishes without ending its connections is excluded: `readUTF()` has no
  timeout, so nothing in the code would end the call.
* `LedLink`: both processors keep running.
* `Semaphore`, `Completion`, `MCRwsem`: a runnable waiter runs; who holds the lock
  gives it back. Signals, timeouts and `complete()` are not fair.
* `PercpuRwsem`: weak fairness of every task inside an operation and of leaving a
  critical section. Nothing in the code keeps other writers from stealing the inner
  lock from a waiter for ever, so `EveryoneGetsIn` excepts exactly that; without the
  exception TLC finds such a behaviour.
* `StopMachine`: weak fairness of the stoppers, which preempt everything else;
  strong fairness of callers, because the mutex and the spinlocks are handed on in
  turn and an interrupt stays pending until the CPU takes it. A caller does not begin
  on a CPU whose stopper has work, since the stopper has preempted it. Deadlock is not
  checked in `stop_machine`: the system does stop in the case under Findings.
* `Srcu`: weak fairness of the driver, of tasks returning and of readers, whose
  critical sections end. That a reader enters, or anybody calls, is not assumed.

## Findings

**`listenCoor()`** is documented as "If error ocurrs returns value "-2,-2"" and "If no
error occurs returns "x,y" or "-1,-1" if nothing found" (Network.java:55-56). The host
sends the characters of its answer alone (NetworkTest.py:11), and `readUTF()`
(Network.java:75) takes the first two of them as a length: in `robot_net_doc` the whole
answer arrives, no step fails, and the call still returns "-2,-2" with error code 224.

**`stop_two_cpus()`** queues its two works from the lower CPU of the pair, "to
ensure that works are always queued in the same order on every CPU. This prevents
deadlocks." (stop_machine.c:289-293). That orders the calls of one lower CPU only.
`stop_two` has the pairs {0,1}, {1,2} and {2,0}: two different CPUs do the
queuing, and each call can end up running on one CPU and behind the next
call on the other. No stopper goes on from there. With calls for one pair, in
either order, and any mixture with the other kinds of call, `stop_machine` shows
that there is no such circle.

**`cpu_stop_park()`** says "drain remaining works" (stop_machine.c:501). It signals
the completion of every work in the list (line 503) but takes none off the list. In
`stop_park` a work that is queued between the stopper's last look and its parking
is still in the list of the parked stopper, after the caller on whose stack it lies
has returned.

Remarks that need no run:

* Button 2 held again while the winch winds takes branch Robot.java:205 in every pass.
  That branch does not touch the motor, and the encoder stop further down is not
  reached. `OvershootBounded` and `WindingEnds` except such a winding (`relatched`)
  and say nothing about it.
* An arm that button 2 has latched but the motor has not wound has `pressed` FALSE,
  and the last branch of the chain (Robot.java:232-235) opens the latch as soon as the
  button is up. `OnlyTriggerReleases` is about what the motor wound.
* `stop_two_cpus()` tests the active mask (stop_machine.c:283), which a CPU that comes
  up joins before it is online and before its stopper is unparked (sched/core.c:5054-5056,
  cpu.c:419-425). A call in between queues one of its works, or none, and never returns;
  in the first case the other CPU stays in `multi_cpu_stop()`. `CallsReturn` excepts
  these calls (`Halved`); without the exception TLC finds the hang in six steps.
* `completion_done()` is documented as "0 if there are waiters (wait_for_completion()
  in progress), 1 if there are no waiters" (completion.c:284-285). The code tests the
  counter only (line 294): a fresh completion without waiters gives 0.
* `Connector.open("10.25.57.10:111")` names no protocol, and `cam = Camera()` is
  commented out in `2014 Vision.py`; the model leaves open whether they succeed.
* The dashboard's LOCK STATE shows the field `latched`, which two branches of the
  winch chain set (Robot.java:207, 219) and which does not follow the latch when
  `autonomous()` opens it or the manual branch switches it.
* The works of `stop_one_cpu_nowait()` have no `cpu_stop_done`, yet the stopper stores
  a non-zero result of their function through it without a test
  (stop_machine.c:472-474); results of functions are not modelled.

## Proofs

| Theorem | Statement | For all |
|---|---|---|
| `RobotControlProofs!TypeCorrect` | `Spec => []TypeOK` | targets, times, stalls |
| `RobotControlProofs!WindingLatched` | `Spec => []WindingIsLatched` | the same |
| `RobotControlProofs!TriggerReleases` | `Spec => OnlyTriggerReleases` | the same |
| `RobotControlProofs!Overshoot` | `Spec => []OvershootBounded` | targets and winch speeds |
| `RobotControlProofs!FiresAtRest` | `Spec => []AutoFiresAtRest` | time windows and stalls |
| `RobotNetProofs!OutputsFollow` | `NetSpec => []OutputsMatch` | sequences of mode changes, buttons and calls of the host |
| `RobotNetProofs!ArmOnRequest` | `NetSpec => ArmMovesOnRequest` | the same |
| `RobotNetProofs!ConnectionsApart` | `NetSpec => []OwnConnection` | lengths of the accept queue |
| `LedLinkProofs!OneModeHigh` | `Spec => []OneMode` | wirings |
| `LedLinkProofs!OnlyWantedShown` | `Spec => ShownWasWanted` | wirings |
| `SemaphoreProofs!SemaphoreImplements` | `Spec => Implements`, the refinement of `CountingSemaphore` | sets of tasks, permits, kinds of waiting |
| `SemaphoreProofs!SemaphoreFifo` | `Spec => Fifo` | the same |
| `SemaphoreProofs!PermitsKept` | `Spec => [](Conserved /\ (Queued # {} => count = 0))` | finite sets of tasks, permits |
| `SemaphoreProofs!SemaphoreTyped` | `Spec => []TypeOK` | the same |
| `SemaphoreProofs!SpinlockSafe` | `Spin!Spec => [](Spin!Ledger /\ Alone /\ Spin!HeadIsWriter)`, where `Spin` is `RwsemSpinlock` | finite sets of tasks |
| `CompletionProofs!EverybodyLetThrough` | `Spec => []AllLetThrough` | finite sets of tasks, widths of the counter |
| `CompletionProofs!CompletionTyped` | `Spec => []TypeOK` | the same |
| `CompletionProofs!EnoughWoken` | `Spec => []EnoughAwake` | the same |
| `PercpuRwsemProofs!WriterAlone` | `Spec => []Exclusion` | numbers of readers, writers and CPUs, widths of the counters |
| `PercpuRwsemProofs!SlowCountsReaders` | `Spec => []SlowIsReaders` | the same |
| `PercpuRwsemProofs!WriterSees` | `Spec => []WriterSeesReads` | the same |
| `PercpuRwsemProofs!ReaderSees` | `Spec => []ReaderSeesWrites` | the same |
| `SrcuProofs!OneDriver` | `Spec => []OneOwner` | numbers of readers, sets of updaters, numbers of CPUs, widths |
| `SrcuProofs!ClaimsItsOwn` | `Spec => []NoBug` | the same |
| `SrcuProofs!ReadersBalanced` | `Spec => []Balanced` | the same |
| `SrcuProofs!BarrierWaits` | `Spec => []Barrier` | the same |
| `SrcuGraceProofs!GraceKept` | `Spec => []GracePeriod` | the same |

### Assumptions

They are the named ASSUMEs of the modules, which TLC evaluates in the runs, and for
some theorems the hypothesis that there are finitely many tasks, without which
"the number of" holders or waiters means nothing. Two of the ASSUMEs limit what is
claimed:

* `RwsemAssumption` and `SrcuAssumption`: a counter has more values than there are
  readers (`IntRange`, `UlongRange` greater than the cardinality of `Reader`). A task
  that reads takes memory, so an `int` and an `unsigned long` can count them. The
  comment at srcu.c:236-240 rules the overflow out with at most `NR_CPUS` readers; the
  model counts tasks, because `__srcu_read_lock()` reads the index before it disables
  preemption. That single per-CPU counters
  wrap, below 0 and above the range, is not excluded: the theorems hold because
  only sums modulo the range are ever used.
* `RwsemAssumption` keeps `Reader` and `Writer` apart: nobody waits for the lock as
  a reader and as a writer at once.

### Inductive invariants

The invariants the runs check are not inductive by themselves.

* `WindingInv` adds that the motor is stopped in all of `autonomous()` after its
  first step. Without it the latch opened by `AutoFire` could meet a winding motor.
* `WoundInv` says that what the motor wound has `pressed` set and the latch closed. The
  field is what keeps the last branch of the chain from opening the latch, and no
  change of mode resets it.
* `OvershootInv` adds how far the encoder can be at each of the tests `w1` to
  `w6`, in terms of the counts turned since the pass began: at the end of a pass the
  encoder was below the target when this pass looked at it, further up the chain
  when the previous pass did.
* `AutoInv` relates the timer to the ticks since the thread's last step in each
  phase of `autonomous()`.
* `ArmInv` adds that in the middle of a pass whose arm buttons were not used the arm
  still is where its field says: copying the field then does not move it.
* `LinkInv` says that the call's own connection is in the host's queue at most once,
  that while it waits there the call knows of it and nothing was sent or ended on it,
  and that nothing arrives unless it was sent. `Accepted` and `Connected` are the two
  operations on the queue; with two own entries, the host's `accept()` would leave one
  behind that the next call would take for its own.
* `LedInv` describes the outputs after each of the five writes.
* `SemInv` says what the refinement needs: the wait list holds exactly the waiters
  without a permit, once each (`ListInv`), so that the `list_del()` of a waiter that
  gives up, or of the first one, removes one task from the abstract set; a task that
  was handed a permit is still in its wait loop (`UpInv`), so that it is counted as an
  owner once; the list is empty while the count is positive; and only a wait with
  a timeout expires (`TimeInv`), without which a plain wait could give up.
  `PermitInv` adds the sum of the permits, whose changes are read off the steps of the
  promise (`Moves`).
* `CountInv` of `CompletionProofs` says that what was given is left or taken, as long as
  it fits the counter: an addition modulo the width wraps only when more was given than
  the counter holds. `OwedInv` is `AllLetThrough` with the fact that somebody is owed
  only after a `complete_all()`: half the range was given then, so that with less taken
  the counter is positive (`SomeLeft`), and a task that looks at it neither gives up nor
  sleeps. `QueueInv` says that the queue holds the waiting tasks, once each, and `AwakeInv`
  adds that as many of them are awake as `done` counts, or all of them.
* `SpinInv` has the shape of the wait list: every task in it waits, is there
  once and has not been let in (`ListOK`), every waiting writer is in it (`Listed`,
  without which the `list_del()` of a writer would have nothing to delete), and a
  reader that was let in is still in its wait loop (`LetIn`). The three
  operations on the list are lemmas of their own: a waiter is appended, a waiter is
  deleted, the readers at the front are cut off. The last rests on `Prefix`: these
  readers are an initial segment, of as many tasks as `__rwsem_do_wake()` adds to
  `activity`, and what follows is a writer. `HeadIsWriter` is the reason why
  `__up_read()` may wake the head of the list without looking at its type.
* `PercpuInv` has three parts besides the types. `SectionInv` is about the grace
  periods: `write_ctr` counts the writers that are busy, and a preempt-disabled
  section, or a CPU without a barrier since, can only be left over on a CPU for which
  a writer's grace period still waits. `LockInv` says that `rw_sem` is held by those
  who act as if they held it, and that its queue holds each waiter once. `CountInv`
  is the ledger: the slow counter, the per-CPU counters and what a writer in
  `clear_fast_ctr()` has already collected add up, modulo the range, to the readers
  that are counted, while the CPUs that writer has passed stay at zero. That they
  stay so is where `SectionInv` is needed. The sum over the CPUs is a function
  `t` with `t[c] = t[c - 1] + f[c]`, and `SumsMove` says how it changes with one
  counter.
* `OwnerInv` adds to `OneOwner` that an updater which drives has its own callback and
  no other in the batches behind `batch_queue` (`Mine`). It took `running` while
  everything was empty, and only the driver moves callbacks beyond `batch_queue`.
* `BalanceInv` states `Balanced` for the sums before the last modulo; `Typed` supplies
  that a reader uses the index it got until it leaves, on whatever CPU.
* `QueueInv` sees the four batches as one queue, `Waiting`: each `rcu_head` in use is in
  it once, and behind those it waits for. Moving the batches on does not change
  `Waiting` (`QueueMoves`), which is why callbacks cannot overtake.
* `GraceInv` and `CheckInv` are the argument for `srcu_readers_active_idx_check()`, srcu.c:188-254. A callback in
  `batch_check1` waits for readers of one rank only, the one that new readers do not
  get. A check of that rank is followed through its three loops (`Phase`). While `seq`
  is added up for the first time, the sum is at most what has been counted. While `c` is
  added up, either a reader has passed its second access since, or the sum will come
  to at least the readers inside, and to no more than all readers, so it is not 0
  modulo the range unless nobody is inside (`SumsTo`). While `seq` is added up again, a
  reader that passed makes the two sums differ. `Room` is why this difference cannot
  wrap: only readers that fetched their index before the check began can still use the
  rank, each of them once.

### What is only model-checked

* All liveness properties: `TeleopReached`, `WindingEnds`, `OperatorServed`,
  `LampsFollow`, `WaitEnds`, `Taken`, `LockIsUsed`, `EveryoneGetsIn`, `CallsReturn`,
  `CallbacksRun`. They rest on fairness, which is out of the prover's reach.
* `RwsemXadd` (`Exclusion`, `LockLedger`, its refinement of `RwLock`). A wake-up there is
  a chain of accesses to `count` that fast paths of other tasks interleave with, and an
  inductive invariant has to say for every place in the chain what each task has
  added. It has not been worked out.
* `StopMachine` (`StoppedTogether`, `NothingLeftBehind`, `NoCircularWait`).
  `NoCircularWait` fails for some sets of calls (run `stop_two`), so that it is no theorem
  for all values of the constants. The other two need an account of each work from its
  queuing to its signal, which has not been worked out either.

## Not modelled

* Memory ordering: every model executes the accesses of a task in program order.
  `PercpuRwsem` models what its grace periods order by a history variable.
* The scheduler's run queues, the timer wheel, the hardware behind the WPILib
  calls, the colours of the LED animations, the analysis of camera images.
* `test()` is empty (Robot.java:290), `listenBool()` and `Vision.java` are called
  by nothing, and the calls of the scouting functions are commented out.
* `mutex.c` and `rtmutex.c` stand on assembly fast paths and headers that are not in
  the repository, `futex.c` on user memory. Most of the rest of the kernel directory
  (tracing, scheduling classes, interrupts, power, events, audit, cgroups) depends
  in the same way on code that is not here: a model of it would be a model of the
  missing half. CPU hotplug is modelled as far as the stoppers see it.
* CP/M-86, the DRI tools and the game sources are historic code that no other part
  uses. They, with the kernel directory, are nearly all of the repository's lines, so
  the share of lines that is modelled is small although the robot's own stateful
  code is nearly all covered.
