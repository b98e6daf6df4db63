----------------------------- MODULE TaskSleep -----------------------------
(***************************************************************************)
(* How a kernel task sleeps on a lock-protected condition: it sets its     *)
(* task state, drops the lock and calls schedule_timeout(), from where it  *)
(* returns once its state is running again.  A wake-up, a signal, the      *)
(* timeout and spurious wake-ups can come at any time after the state is   *)
(* set, before as well as after the task has left the CPU.                 *)
(***************************************************************************)

CONSTANTS
  Task,
  Kinds,     \* the kinds of sleep that happen
  Signals    \* the signals that are sent

\* The task state a function sleeps in, with or without a timeout.
Kind == {"plain", "interruptible", "killable",
         "timeout", "interruptible_timeout", "killable_timeout"}

\* The pending signal of a task.
Signal == {"none", "ordinary", "fatal"}

ASSUME SleepAssumption == Kinds \subseteq Kind /\ Signals \subseteq Signal \ {"none"}

VARIABLES
  pc,        \* "sched": in schedule_timeout(), "relock": back and about to lock
  kind,      \* how the task sleeps
  state,     \* task state: "RUNNING" or "SLEEP"
  signal,    \* pending signal
  expired    \* the timeout has run down

task == <<pc, kind, state, signal, expired>>

SleepInit ==
  /\ pc = [t \in Task |-> "out"]
  /\ kind = [t \in Task |-> "plain"]
  /\ state = [t \in Task |-> "RUNNING"]
  /\ signal = [t \in Task |-> "none"]
  /\ expired = [t \in Task |-> FALSE]

Timed(k) == k \in {"timeout", "interruptible_timeout", "killable_timeout"}

\* signal_pending_state() in the state this kind of sleep sets.
SignalPending(k, s) ==
  \/ k \in {"interruptible", "interruptible_timeout"} /\ s # "none"
  \/ k \in {"killable", "killable_timeout"} /\ s = "fatal"

\* The signal or the timeout ends the wait of t.
Disturbed(t) == SignalPending(kind[t], signal[t]) \/ expired[t]

\* try_to_wake_up() of a set of tasks.
Wake(S) == state' = [t \in Task |-> IF t \in S THEN "RUNNING" ELSE state[t]]

\* A task that holds the lock calls a function that sleeps in this way.
Enter(t, k) ==
  /\ kind' = [kind EXCEPT ![t] = k]
  /\ state' = [state EXCEPT ![t] = "SLEEP"]
  /\ pc' = [pc EXCEPT ![t] = "sched"]
  /\ UNCHANGED <<signal, expired>>

\* The loop around schedule_timeout() is entered once more.
SleepOn(t) ==
  /\ state' = [state EXCEPT ![t] = "SLEEP"]
  /\ pc' = [pc EXCEPT ![t] = "sched"]
  /\ UNCHANGED <<kind, signal, expired>>

\* The function returns; its locals and its timer are gone.
Leave(t, to) ==
  /\ kind' = [kind EXCEPT ![t] = "plain"]
  /\ expired' = [expired EXCEPT ![t] = FALSE]
  /\ pc' = [pc EXCEPT ![t] = to]
  /\ UNCHANGED <<state, signal>>

\* schedule_timeout() returns: the task was woken, or schedule() did not let it
\* sleep because of a pending signal.
Scheduled(t) ==
  /\ pc[t] = "sched"
  /\ state[t] = "RUNNING" \/ SignalPending(kind[t], signal[t])
  /\ state' = [state EXCEPT ![t] = "RUNNING"]
  /\ pc' = [pc EXCEPT ![t] = "relock"]
  /\ UNCHANGED <<kind, signal, expired>>
-----------------------------------------------------------------------------
(* What can happen to a task at any time.                                  *)

\* signal_wake_up_state(): the signal is pending first, then the task is woken
\* if it sleeps in a state this signal may interrupt.
SendSignal(t, s) ==
  /\ signal[t] \notin {"fatal", s}
  /\ signal' = [signal EXCEPT ![t] = s]
  /\ Wake({u \in {t} : SignalPending(kind[t], s)})
  /\ UNCHANGED <<pc, kind, expired>>

\* The task is on its way back to user mode and takes its signals.
SignalHandled(t) ==
  /\ pc[t] = "out" /\ signal[t] # "none"
  /\ signal' = [signal EXCEPT ![t] = "none"]
  /\ UNCHANGED <<pc, kind, state, expired>>

\* process_timeout(), or the time is over when the task returns for another
\* reason.
Timeout(t) ==
  /\ pc[t] = "sched" /\ Timed(kind[t]) /\ ~expired[t]
  /\ expired' = [expired EXCEPT ![t] = TRUE]
  /\ Wake({t})
  /\ UNCHANGED <<pc, kind, signal>>

SpuriousWake(t) ==
  /\ pc[t] = "sched" /\ state[t] = "SLEEP"
  /\ Wake({t})
  /\ UNCHANGED <<pc, kind, signal, expired>>

Disturb(t) ==
  \/ \E s \in Signals : SendSignal(t, s)
  \/ SignalHandled(t) \/ Timeout(t) \/ SpuriousWake(t)

SleepTypeOK ==
  /\ pc \in [Task -> {"out", "sched", "relock", "held"}]
  /\ kind \in [Task -> Kind]
  /\ state \in [Task -> {"RUNNING", "SLEEP"}]
  /\ signal \in [Task -> Signal]
  /\ expired \in [Task -> BOOLEAN]
=============================================================================
