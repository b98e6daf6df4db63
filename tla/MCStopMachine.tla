--------------------------- MODULE MCStopMachine ---------------------------
(* The calls of the tasks in the runs of StopMachine.                      *)
EXTENDS StopMachine, TLC

CONSTANTS t1, t2, t3

Of(k, q) == [kind |-> k, cpus |-> q]

\* Every kind of call that leaves the CPUs up; CPU 1 is down at first.
MixedPlan == (t1 :> {Of("machine", <<>>), Of("inactive", <<1>>)})
          @@ (t2 :> {Of("two", <<2, 1>>)})
          @@ (t3 :> {Of("two", <<1, 2>>), Of("try", <<>>),
                     Of("one", <<1>>), Of("nowait", <<1>>)})

\* Three tasks swap places with tasks on the next CPU.
TrianglePlan == (t1 :> {Of("two", <<0, 1>>)})
             @@ (t2 :> {Of("two", <<1, 2>>)})
             @@ (t3 :> {Of("two", <<2, 0>>)})

\* CPU 1 is taken down while others use its stopper.
DownPlan == (t1 :> {Of("down", <<1>>)})
         @@ (t2 :> {Of("one", <<1>>)})
         @@ (t3 :> {Of("two", <<0, 1>>)})
=============================================================================
