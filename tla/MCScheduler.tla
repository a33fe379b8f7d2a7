---------------------------- MODULE MCScheduler ----------------------------
(***************************************************************************)
(* The scheduler on small instances, for TLC.                              *)
(***************************************************************************)
EXTENDS Scheduler, TLC

WorkerSymmetry == Permutations(Worker)

(***************************************************************************)
(* The order of the queue does not depend on output paths, cancellation,   *)
(* pauses or time.  Without those requests three jobs, the fewest that can *)
(* overtake each other in more than one way, are within reach.             *)
(***************************************************************************)
OrderNext ==
  \/ Submit \/ Clear \/ RemoveAll \/ RetryAll
  \/ \E i \in JobId : Remove({i})
  \/ \E ids \in Batches : Retry(ids)
  \/ \E ids \in Batches : Urgent(ids)
  \/ \E i, k \in JobId : Swap(i, k)
  \/ \E w \in Worker : \/ Register(w)
                       \/ \E i \in JobId : ClaimNext(w, i)
                       \/ \E i \in JobId : FinishRunning(i, w, "failed")

OrderSpec == Init /\ [][OrderNext]_vars
=============================================================================
