------------------------------- MODULE MCSrcu -------------------------------
(***************************************************************************)
(* The check of a rank is hard with readers that migrate, the pipeline of  *)
(* batches with several updaters.  A behaviour has one callback and two    *)
(* readers, of which one migrates, or two updaters and one reader that     *)
(* stays on its CPU.                                                       *)
(***************************************************************************)
EXTENDS Srcu

CONSTANTS r1, r2, u1, u2

VARIABLE cast

Migrants == [readers |-> {r1, r2}, cpus |-> [r \in Reader |-> IF r = r1 THEN {1} ELSE Cpu], callers |-> {u1}, syncers |-> {}]
Pipeline == [readers |-> {r1}, cpus |-> [r \in Reader |-> {1}], callers |-> {u1, u2}, syncers |-> {u1, u2}]

MCInit == Init /\ cast \in {Migrants, Pipeline}

MCNext ==
  /\ \/ Driving
     \/ \E u \in Updater : Return(u)
     \/ \E u \in cast.callers : CallSrcu(u)
     \/ \E u \in cast.syncers : SynchronizeSrcu(u)
     \/ \E r \in cast.readers :
           ReadIdx(r) \/ CountSeq(r) \/ \E d \in cast.cpus[r] : Count(r, d) \/ Unlock(r, d)
  /\ UNCHANGED cast

MCSpec == MCInit /\ [][MCNext]_<<vars, cast>> /\ Fairness
=============================================================================
