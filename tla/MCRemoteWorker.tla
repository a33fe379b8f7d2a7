--------------------------- MODULE MCRemoteWorker ---------------------------
(***************************************************************************)
(* Daemons and controller on small instances, for TLC.                     *)
(***************************************************************************)
EXTENDS RemoteWorker, TLC

WorkerSymmetry == Permutations(Worker)

(***************************************************************************)
(* Two daemons that take a job from each other: one falls silent, the job  *)
(* is expired and retried, and the other claims it.  What one daemon does  *)
(* to itself (stopping, giving up, cancelled jobs, commands that cannot be *)
(* started) is left to the runs with one daemon.                           *)
(***************************************************************************)
PairNext ==
  \/ \E w \in Worker :
       \/ Start(w) \/ Send(w) \/ Answer(w) \/ TimeOut(w) \/ LoseAnswer(w)
       \/ AfterRegister(w) \/ AfterClaim(w) \/ Activate(w) \/ AfterOutput(w)
       \/ Interrupt(w) \/ Launch(w) \/ Exit(w)
       \/ AfterReport(w) \/ ReportRefused(w) \/ Crash(w) \/ Beat(w)
  \/ /\ Submit \/ List \/ Tick \/ \E i \in JobId : Retry(<<i>>) \/ Remove({i})
     /\ Remember
     /\ UNCHANGED <<daemon, heartbeat, late, starts>>

PairSpec == SystemInit /\ [][PairNext]_systemVars
=============================================================================
