------------------------------ MODULE MCRwsem ------------------------------
(***************************************************************************)
(* The two builds of the rw_semaphore side by side: a behaviour belongs to *)
(* one of them.  They have the same callers and the same promise, RwLock.  *)
(***************************************************************************)
EXTENDS RwsemXadd

VARIABLES
  build,      \* CONFIG_RWSEM_XCHGADD_ALGORITHM or CONFIG_RWSEM_GENERIC_SPINLOCK
  activity    \* struct rw_semaphore of the second

mcvars == <<vars, build, activity>>

Spin == INSTANCE RwsemSpinlock

MCInit == Init /\ Spin!Init /\ build \in {"xadd", "spinlock"}

Xadd(A) == build = "xadd" /\ A /\ UNCHANGED <<build, activity>>

Spinlock(A) == build = "spinlock" /\ A /\ UNCHANGED <<build, count, wait_lock, after>>

MCNext == Xadd(Next) \/ Spinlock(Spin!Next)

\* Runnable tasks run, and whoever holds the lock gives it back.
MCSpec ==
  /\ MCInit /\ [][MCNext]_mcvars
  /\ \A t \in Task :
        /\ WF_mcvars(Xadd(Step(t))) /\ WF_mcvars(Xadd(Release(t)))
        /\ WF_mcvars(Spinlock(Spin!Step(t))) /\ WF_mcvars(Spinlock(Spin!Release(t)))
-----------------------------------------------------------------------------
\* The counter of either build is the ledger of those inside, and every variable
\* keeps its type (rwsem-xadd.c:54-55, rwsem-spinlock.c:62-63).
LockLedger == TypeOK /\ IF build = "xadd" THEN Ledger ELSE Spin!Ledger

=============================================================================
