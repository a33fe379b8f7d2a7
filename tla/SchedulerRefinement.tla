------------------------ MODULE SchedulerRefinement ------------------------
(***************************************************************************)
(* The scheduler implements JobLifecycle, for every set of workers, every  *)
(* timeout and every bound.  The argument needs the inductive invariant of *)
(* SchedulerProofs before and after the step: AssignmentsAgree is what     *)
(* makes "the worker's current_job_id is NULL" mean "it runs nothing".     *)
(***************************************************************************)
EXTENDS SchedulerProofs

USE SchedulerConstants

Holder(i) == jobs[i].worker_id

\* What one job may do in a step of the abstract specification.
Move(i) == \/ Lifecycle!Keep(i) \/ Lifecycle!Enqueue(i) \/ Lifecycle!Assign(i)
           \/ Lifecycle!End(i) \/ Lifecycle!Lose(i) \/ Lifecycle!Delete(i)

\* The moves, in terms of the tables.
LEMMA MovesOfRows ==
  ASSUME NEW i \in JobId
  PROVE  /\ Lifecycle!Keep(i) <=> Phase(i)' = Phase(i) /\ Holder(i)' = Holder(i)
         /\ Lifecycle!Enqueue(i) <=> /\ Phase(i) \in {"absent", "failed", "lost"}
                                     /\ Phase(i)' = "queued" /\ Holder(i)' = None
         /\ Lifecycle!Assign(i) <=> /\ Phase(i) = "queued" /\ Phase(i)' = "running"
                                    /\ \E w \in Worker :
                                         /\ Holder(i)' = w
                                         /\ \A k \in JobId : ~(Phase(k) = "running" /\ Holder(k) = w)
         /\ Lifecycle!End(i) <=> /\ Phase(i) = "running"
                                 /\ Phase(i)' \in {"succeeded", "failed"}
                                 /\ Holder(i)' = Holder(i)
         /\ Lifecycle!Lose(i) <=> /\ Phase(i) = "running"
                                  /\ Holder(i) \in {w \in Worker : Stale(w)}
                                  /\ Phase(i)' = "lost" /\ Holder(i)' = Holder(i)
         /\ Lifecycle!Delete(i) <=>
              /\ \/ Phase(i) \in {"queued", "succeeded", "failed", "lost"}
                 \/ Phase(i) = "running" /\ Holder(i) \in {w \in Worker : Stale(w)}
              /\ Phase(i)' = "absent" /\ Holder(i)' = None
BY DEF Holder, Lifecycle!Keep, Lifecycle!Enqueue, Lifecycle!Assign, Lifecycle!End,
       Lifecycle!Lose, Lifecycle!Delete, Lifecycle!Over, Lifecycle!Running

\* Under the invariant the phase of a job is its status, but for lost jobs.
LEMMA PhaseOfStatus ==
  ASSUME Inv, NEW i \in JobId
  PROVE  /\ Phase(i) = "running" <=> Running(i)
         /\ Phase(i) = "queued" <=> Queued(i)
         /\ Phase(i) = "absent" <=> ~Exists(i)
         /\ Phase(i) = "succeeded" <=> jobs[i].status = "succeeded"
         /\ Phase(i) \in {"failed", "lost"} <=> Failed(i)
         /\ Phase(i) \in {"absent", "queued", "running", "succeeded", "failed", "lost"}
         /\ Holder(i) \in Worker \cup {None}
<1>1. jobs[i] \in JobRow
  BY DEF Inv, TypeOK
<1>2. jobs[i].error = "disconnected" => jobs[i].status = "failed"
  BY DEF Inv, RunDetailsMatch, DetailsMatch, Failed
<1>3. /\ jobs[i].status \in {"absent", "queued", "running", "succeeded", "failed"}
      /\ jobs[i].worker_id \in Worker \cup {None}
  BY <1>1 DEF JobRow
<1> QED BY <1>2, <1>3 DEF Phase, Holder, Running, Queued, Exists, Failed

\* The phase of a row after a step.
LEMMA PhaseOfStatusNext ==
  ASSUME Inv', NEW i \in JobId
  PROVE  /\ Phase(i)' = "running" => Running(i)'
         /\ Phase(i)' \in {"absent", "queued", "running", "succeeded", "failed", "lost"}
<1>1. jobs'[i] \in JobRow
  BY DEF Inv, TypeOK
<1> QED BY <1>1 DEF JobRow, Phase, Running

\* A row that keeps status, error and worker makes no move.
LEMMA SameRow ==
  ASSUME NEW i \in JobId, jobs'[i].status = jobs[i].status,
         jobs'[i].error = jobs[i].error, jobs'[i].worker_id = jobs[i].worker_id
  PROVE  Move(i)
BY MovesOfRows DEF Move, Phase, Holder

\* Expiry and deletion: a row is kept, given up, or deleted.
LEMMA CleanupMoves ==
  ASSUME Inv, Inv', NEW i \in JobId,
         \/ jobs'[i] = ExpiredJobs[i]
         \/ jobs'[i] = AbsentJob /\ ExpiredJobs[i].status # "running"
  PROVE  Move(i)
<1>1. jobs[i] \in JobRow
  BY DEF Inv, TypeOK
<1>2. CASE Abandoned(i)
  <2>1. ExpiredJobs[i] = [jobs[i] EXCEPT !.status = "failed", !.error = "disconnected",
                                         !.cancel_requested = 0]
    BY <1>2 DEF ExpiredJobs
  <2>2. Phase(i) = "running" /\ Holder(i) \in {w \in Worker : Stale(w)}
    BY <1>2, PhaseOfStatus DEF Abandoned, Holder
  <2>3. CASE jobs'[i] = ExpiredJobs[i]
    <3>1. Phase(i)' = "lost" /\ Holder(i)' = Holder(i)
      BY <1>1, <2>1, <2>3 DEF Phase, Holder, JobRow
    <3> QED BY <2>2, <3>1, MovesOfRows DEF Move
  <2>4. CASE jobs'[i] = AbsentJob
    <3>1. Phase(i)' = "absent" /\ Holder(i)' = None
      BY <2>4, AbsentJobType DEF Phase, Holder
    <3> QED BY <2>2, <3>1, MovesOfRows DEF Move
  <2> QED BY <2>3, <2>4
<1>3. CASE ~Abandoned(i)
  <2>1. ExpiredJobs[i] = jobs[i]
    BY <1>3 DEF ExpiredJobs
  <2>2. CASE jobs'[i] = jobs[i]
    BY <2>2, SameRow
  <2>3. CASE jobs'[i] = AbsentJob /\ jobs[i].status # "running"
    <3>1. Phase(i)' = "absent" /\ Holder(i)' = None
      BY <2>3, AbsentJobType DEF Phase, Holder
    <3>2. Phase(i) # "running"
      BY <2>3, PhaseOfStatus DEF Running
    <3>3. CASE Exists(i)
      <4>1. Phase(i) \in {"queued", "succeeded", "failed", "lost"}
        BY <3>2, <3>3, PhaseOfStatus
      <4> QED BY <3>1, <4>1, MovesOfRows DEF Move
    <3>4. CASE ~Exists(i)
      <4>1. Phase(i) = "absent"
        BY <3>4, PhaseOfStatus
      <4>2. Holder(i) = None
        BY <3>4, PhaseOfStatus DEF Inv, RunDetailsMatch, DetailsMatch, Holder
      <4> QED BY <3>1, <4>1, <4>2, MovesOfRows DEF Move
    <3> QED BY <3>3, <3>4
  <2> QED BY <2>1, <2>2, <2>3
<1> QED BY <1>2, <1>3

\* Retrying and reordering: a row is kept, or is queued at a new place.
LEMMA QueueingMoves ==
  ASSUME Inv, NEW i \in JobId,
         \/ jobs'[i] = jobs[i]
         \/ /\ Queued(i) \/ Failed(i)
            /\ \E p \in Int : jobs'[i] = Row("queued", p)
  PROVE  Move(i)
<1>1. CASE jobs'[i] = jobs[i]
  BY <1>1, SameRow
<1>2. CASE /\ Queued(i) \/ Failed(i)
           /\ \E p \in Int : jobs'[i] = Row("queued", p)
  <2>1. Phase(i)' = "queued" /\ Holder(i)' = None
    BY <1>2, RowType DEF Phase, Holder
  <2>2. CASE Failed(i)
    BY <2>1, <2>2, PhaseOfStatus, MovesOfRows DEF Move
  <2>3. CASE Queued(i)
    <3>1. Phase(i) = "queued"
      BY <2>3, PhaseOfStatus
    <3>2. Holder(i) = None
      BY <2>3, PhaseOfStatus DEF Inv, RunDetailsMatch, DetailsMatch, Holder
    <3> QED BY <2>1, <3>1, <3>2, MovesOfRows DEF Move
  <2> QED BY <1>2, <2>2, <2>3
<1> QED BY <1>1, <1>2

\* What a retry or a reordering does to a row.
LEMMA QueueingRows ==
  ASSUME Inv,
         \/ RetryAll
         \/ \E ids \in Batches : Retry(ids) \/ Urgent(ids)
         \/ \E i, k \in JobId : Swap(i, k)
  PROVE  \A x \in JobId : \/ jobs'[x] = jobs[x]
                          \/ /\ Queued(x) \/ Failed(x)
                             /\ \E p \in Int : jobs'[x] = Row("queued", p)
<1>1. CASE RetryAll
  BY <1>1, RetryAllRows
<1>2. CASE \E ids \in Batches : Retry(ids)
  BY <1>2, RetryRows
<1>3. CASE \E ids \in Batches : Urgent(ids)
  BY <1>3, UrgentRows
<1>4. CASE \E i, k \in JobId : Swap(i, k)
  BY <1>4, SwapRows
<1> QED BY <1>1, <1>2, <1>3, <1>4

\* A submission enqueues its job and keeps the others.
LEMMA SubmitMoves == ASSUME Inv, Submit, NEW i \in JobId PROVE Move(i)
<1>1. i = sequence + 1 => ~Exists(i) /\ i \in Int /\ jobs'[i] = Row("queued", i)
  BY DEF Submit, Inv, TypeOK, JobId, IdsBelowSequence
<1>2. i # sequence + 1 => jobs'[i] = jobs[i]
  BY DEF Submit, Inv, TypeOK
<1>3. CASE i = sequence + 1
  <2>1. Phase(i)' = "queued" /\ Holder(i)' = None
    BY <1>1, <1>3, RowType DEF Phase, Holder
  <2>2. Phase(i) = "absent"
    BY <1>1, <1>3, PhaseOfStatus
  <2> QED BY <2>1, <2>2, MovesOfRows DEF Move
<1>4. CASE i # sequence + 1
  BY <1>2, <1>4, SameRow
<1> QED BY <1>3, <1>4

\* A claim assigns its job and keeps the others.
LEMMA ClaimNextMoves ==
  ASSUME Inv, NEW w \in Worker, NEW k \in JobId, ClaimNext(w, k), NEW i \in JobId
  PROVE  Move(i)
<1>1. jobs[k] \in JobRow /\ Queued(k) /\ workers[w].current_job_id = NoJob
  BY DEF ClaimNext, Inv, TypeOK
<1>2. /\ jobs'[k] = [jobs[k] EXCEPT !.status = "running", !.worker_id = w]
      /\ i # k => jobs'[i] = jobs[i]
  BY DEF ClaimNext, Inv, TypeOK
<1>3. CASE i = k
  <2>1. Phase(k) = "queued" /\ jobs[k].error = "null"
    BY <1>1, PhaseOfStatus DEF Inv, RunDetailsMatch, DetailsMatch, Queued, Failed
  <2>2. Phase(k)' = "running" /\ Holder(k)' = w
    BY <1>1, <1>2, <2>1 DEF Phase, Holder, JobRow
  <2>3. \A j \in JobId : ~(Phase(j) = "running" /\ Holder(j) = w)
    BY <1>1, PhaseOfStatus DEF Inv, AssignmentsAgree, Holder, NoJob, JobId
  <2> QED BY <1>3, <2>1, <2>2, <2>3, MovesOfRows DEF Move
<1>4. CASE i # k
  BY <1>2, <1>4, SameRow
<1> QED BY <1>3, <1>4

\* A report ends its job and keeps the others.
LEMMA FinishRunningMoves ==
  ASSUME Inv, NEW w \in Worker, NEW k \in JobId, NEW s \in {"succeeded", "failed"},
         FinishRunning(k, w, s), NEW i \in JobId
  PROVE  Move(i)
<1> DEFINE e == IF s = "succeeded" THEN "null" ELSE "reported"
<1>1. jobs[k] \in JobRow /\ Running(k)
  BY DEF FinishRunning, Inv, TypeOK
<1>2. /\ jobs'[k] = [jobs[k] EXCEPT !.status = s, !.error = e]
      /\ i # k => jobs'[i] = jobs[i]
  BY DEF FinishRunning, Inv, TypeOK
<1>3. CASE i = k
  <2>1. Phase(k) = "running"
    BY <1>1, PhaseOfStatus
  <2>2. Phase(k)' = s /\ Holder(k)' = Holder(k)
    BY <1>1, <1>2 DEF Phase, Holder, JobRow
  <2> QED BY <1>3, <2>1, <2>2, MovesOfRows DEF Move
<1>4. CASE i # k
  BY <1>2, <1>4, SameRow
<1> QED BY <1>3, <1>4

\* Cancelling a job or recording its output path is no move.
LEMMA FlagMoves ==
  ASSUME Inv, NEW k \in JobId, Cancel(k) \/ \E w \in Worker : Output(k, w), NEW i \in JobId
  PROVE  Move(i)
<1>1. jobs[k] \in JobRow
  BY DEF Inv, TypeOK
<1>2. i # k => jobs'[i] = jobs[i]
  BY DEF Cancel, Output, Inv, TypeOK
<1>3. \/ jobs'[k] = [jobs[k] EXCEPT !.cancel_requested = 1]
      \/ jobs'[k] = [jobs[k] EXCEPT !.output_path = "path"]
  BY DEF Cancel, Output, Inv, TypeOK
<1>4. /\ jobs'[k].status = jobs[k].status
      /\ jobs'[k].error = jobs[k].error
      /\ jobs'[k].worker_id = jobs[k].worker_id
  BY <1>1, <1>3 DEF JobRow
<1> QED BY <1>2, <1>4, SameRow

-----------------------------------------------------------------------------
\* Every step moves every job as the life of a job allows.
LEMMA EveryJobMoves == ASSUME Inv, Inv', [Next]_vars, NEW i \in JobId PROVE Move(i)
<1>1. CASE UNCHANGED jobs
  BY <1>1, SameRow
<1>2. CASE AdminStep
  <2>1. CASE Submit
    BY <2>1, SubmitMoves
  <2>2. CASE \/ List \/ Clear \/ RemoveAll
             \/ \E targets \in (SUBSET JobId) \ {{}} : Remove(targets)
    <3>1. \/ jobs'[i] = ExpiredJobs[i]
          \/ jobs'[i] = AbsentJob /\ ExpiredJobs[i].status # "running"
      BY <2>2 DEF List, Clear, RemoveAll, Remove
    <3> QED BY <3>1, CleanupMoves
  <2>3. CASE \/ RetryAll
             \/ \E ids \in Batches : Retry(ids) \/ Urgent(ids)
             \/ \E j, k \in JobId : Swap(j, k)
    BY <2>3, QueueingRows, QueueingMoves
  <2>4. CASE \E k \in JobId : Cancel(k)
    BY <2>4, FlagMoves
  <2>5. CASE \E w \in Worker, paused \in {0, 1} : SetWorkerPaused(w, paused)
    BY <2>5, <1>1 DEF SetWorkerPaused
  <2> QED BY <1>2, <2>1, <2>2, <2>3, <2>4, <2>5 DEF AdminStep
<1>3. CASE WorkerStep
  <2> PICK w \in Worker :
        \/ Register(w) \/ Heartbeat(w) \/ Claim(w)
        \/ \E k \in JobId : Output(k, w)
        \/ \E k \in JobId, status \in {"succeeded", "failed"} : Finish(k, w, status)
    BY <1>3 DEF WorkerStep
  <2>1. CASE Register(w) \/ Heartbeat(w) \/ ClaimHeld(w) \/ ClaimNothing(w)
    BY <2>1, <1>1 DEF Register, Heartbeat, ClaimHeld, ClaimNothing
  <2>2. CASE \E k \in JobId : ClaimNext(w, k)
    BY <2>2, ClaimNextMoves
  <2>3. CASE \E k \in JobId : Output(k, w)
    BY <2>3, FlagMoves
  <2>4. CASE \E k \in JobId, status \in {"succeeded", "failed"} : FinishAgain(k, w, status)
    BY <2>4, <1>1 DEF FinishAgain, vars
  <2>5. CASE \E k \in JobId, status \in {"succeeded", "failed"} : FinishRunning(k, w, status)
    BY <2>5, FinishRunningMoves
  <2> QED BY <2>1, <2>2, <2>3, <2>4, <2>5 DEF Claim, Finish
<1>4. CASE Tick
  BY <1>4, <1>1 DEF Tick
<1> QED BY <1>1, <1>2, <1>3, <1>4 DEF Next, vars

\* Every request is a step of the abstract specification.
LEMMA StepRefines == ASSUME Inv, Inv', [Next]_vars PROVE Lifecycle!Next
<1>1. [i \in JobId |-> Phase(i)]' \in [JobId -> {"absent", "queued", "running"} \cup Lifecycle!Over]
  BY PhaseOfStatusNext DEF Lifecycle!Over
<1>2. [i \in JobId |-> jobs[i].worker_id]' \in [JobId -> Worker \cup {None}]
  BY DEF Inv, TypeOK, JobRow
<1>3. {w \in Worker : Stale(w)}' \in SUBSET Worker
  OBVIOUS
<1>4. \A i \in JobId : \/ Lifecycle!Keep(i) \/ Lifecycle!Enqueue(i) \/ Lifecycle!Assign(i)
                       \/ Lifecycle!End(i) \/ Lifecycle!Lose(i) \/ Lifecycle!Delete(i)
  BY EveryJobMoves DEF Move
<1>5. Lifecycle!Exclusive'
  <2>1. \A i \in JobId : Phase(i)' = "running" => Running(i)'
    BY PhaseOfStatusNext
  <2>2. \A i, k \in JobId : \A w \in Worker :
           /\ Running(i)' /\ jobs'[i].worker_id = w
           /\ Running(k)' /\ jobs'[k].worker_id = w
           => i = k
    BY DEF Inv, AssignmentsAgree
  <2> QED BY <2>1, <2>2 DEF Lifecycle!Exclusive, Lifecycle!Running
<1> QED BY <1>1, <1>2, <1>3, <1>4, <1>5 DEF Lifecycle!Next

\* The initial tables are the initial state of the abstract specification.
LEMMA InitRefines == ASSUME Init PROVE Lifecycle!Init
<1>1. [i \in JobId |-> Phase(i)] = [i \in JobId |-> "absent"]
  BY AbsentJobType DEF Init, Phase
<1>2. [i \in JobId |-> jobs[i].worker_id] = [i \in JobId |-> None]
  BY AbsentJobType DEF Init
<1>3. {w \in Worker : Stale(w)} = {}
  BY DEF Init, Stale
<1> QED BY <1>1, <1>2, <1>3 DEF Lifecycle!Init

\* The scheduler implements the life of a job: no interleaving of requests
\* gives a worker two jobs, moves a running job to another worker, gives up
\* the run of a worker that is not silent, or replaces a recorded outcome
\* other than by retry or deletion.
THEOREM SchedulerImplementsLifecycle == Spec => ImplementsLifecycle
<1>1. Init => Lifecycle!Init
  BY InitRefines
<1>2. Inv /\ Inv' /\ [Next]_vars => [Lifecycle!Next]_(Lifecycle!vars)
  BY StepRefines
<1> QED BY <1>1, <1>2, Invariance, PTL DEF Spec, ImplementsLifecycle, Lifecycle!Spec
=============================================================================
