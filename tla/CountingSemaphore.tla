------------------------- MODULE CountingSemaphore -------------------------
(***************************************************************************)
(* What the kernel semaphore promises: a number of permits, each free or   *)
(* held.  A permit is free only while nobody waits; a release hands it to  *)
(* one of the waiters if there is one.                                     *)
(***************************************************************************)
EXTENDS Naturals

CONSTANTS
  Task,     \* the tasks
  Permits,  \* initial count, sema_init(sem, val)
  MaxExtra  \* bound on permits added by up() without a down()

VARIABLES
  free,      \* permits nobody holds
  waiting,   \* tasks inside down() without a permit
  holding,   \* tasks that own a permit
  extra      \* permits added by up() without a down()

vars == <<free, waiting, holding, extra>>

Init == free = Permits /\ waiting = {} /\ holding = {} /\ extra = 0

Acquire(t) ==
  /\ t \notin waiting \cup holding
  /\ free > 0
  /\ free' = free - 1 /\ holding' = holding \cup {t}
  /\ UNCHANGED <<waiting, extra>>

Wait(t) ==
  /\ t \notin waiting \cup holding
  /\ free = 0
  /\ waiting' = waiting \cup {t}
  /\ UNCHANGED <<free, holding, extra>>

\* An interrupted or timed-out waiter leaves without a permit.
GiveUp(t) ==
  /\ t \in waiting
  /\ waiting' = waiting \ {t}
  /\ UNCHANGED <<free, holding, extra>>

\* t gives its permit back; nobody waits.
Release(t) ==
  /\ t \in holding /\ waiting = {}
  /\ free' = free + 1 /\ holding' = holding \ {t}
  /\ UNCHANGED <<waiting, extra>>

\* t's permit goes to the waiter w.
HandOver(t, w) ==
  /\ t \in holding /\ w \in waiting
  /\ waiting' = waiting \ {w} /\ holding' = (holding \ {t}) \cup {w}
  /\ UNCHANGED <<free, extra>>

\* up() by somebody who holds nothing.
Add ==
  /\ waiting = {} /\ extra < MaxExtra
  /\ free' = free + 1 /\ extra' = extra + 1
  /\ UNCHANGED <<waiting, holding>>

Give(w) ==
  /\ w \in waiting /\ extra < MaxExtra
  /\ waiting' = waiting \ {w} /\ holding' = holding \cup {w} /\ extra' = extra + 1
  /\ UNCHANGED free

Next ==
  \/ \E t \in Task :
        \/ Acquire(t) \/ Wait(t) \/ GiveUp(t) \/ Release(t) \/ Give(t)
        \/ \E w \in Task : HandOver(t, w)
  \/ Add

Spec == Init /\ [][Next]_vars
=============================================================================
