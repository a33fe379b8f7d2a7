-------------------------- MODULE SchedulerProofs --------------------------
(***************************************************************************)
(* Proofs about the scheduler, for every set of workers, every timeout and *)
(* every bound.                                                            *)
(***************************************************************************)
EXTENDS Scheduler, FiniteSetTheorems, TLAPS

\* The inductive invariant.  AssignmentsAgree is not inductive alone: claim
\* needs to know that a queued row names no worker, and a submission that the
\* row it writes did not exist.
Inv == TypeOK /\ AssignmentsAgree /\ RunDetailsMatch /\ IdsBelowSequence

USE SchedulerConstants

-----------------------------------------------------------------------------
(* Rows and counts.                                                        *)

\* A row at its defaults is a row of the table, whatever its position is.
LEMMA RowType ==
  ASSUME NEW s \in {"absent", "queued"}, NEW p \in Int
  PROVE  /\ Row(s, p) \in JobRow
         /\ Row(s, p).status = s
         /\ Row(s, p).worker_id = None
         /\ Row(s, p).cancel_requested = 0
         /\ Row(s, p).error = "null"
         /\ Row(s, p).queue_position = p
BY DEF Row, JobRow

\* A row that does not exist is a row of the table.
LEMMA AbsentJobType ==
  /\ AbsentJob \in JobRow
  /\ AbsentJob.status = "absent"
  /\ AbsentJob.worker_id = None
  /\ AbsentJob.error = "null"
BY RowType DEF AbsentJob

\* The places of a batch can be counted.
LEMMA CountInBatch ==
  ASSUME NEW ids \in Batches, NEW S \in SUBSET DOMAIN ids
  PROVE  Cardinality(S) \in Nat
<1>1. PICK n \in 1..MaxBatch : ids \in [1..n -> JobId]
  BY DEF Batches
<1>2. DOMAIN ids = 1..n /\ 1 \in Int /\ n \in Int
  BY <1>1
<1>3. IsFiniteSet(DOMAIN ids)
  BY <1>2, FS_Interval
<1>4. IsFiniteSet(S)
  BY <1>3, FS_Subset
<1> QED BY <1>4, FS_CardinalityType

\* A request for one job is a batch of one.
LEMMA BatchOfOne == ASSUME NEW i \in JobId PROVE <<i>> \in Batches
<1>1. <<i>> \in [1..1 -> JobId] /\ 1 \in 1..MaxBatch
  OBVIOUS
<1>2. <<i>> \in UNION {[1..n -> JobId] : n \in 1..MaxBatch}
  BY <1>1
<1>3. \A m, n \in DOMAIN <<i>> : m = n
  BY <1>1
<1> QED BY <1>2, <1>3 DEF Batches

\* So can the jobs.
LEMMA CountJobs ==
  ASSUME NEW S \in SUBSET JobId
  PROVE  Cardinality(S) \in Nat
<1>1. IsFiniteSet(JobId)
  BY FS_Interval DEF JobId
<1> QED BY <1>1, FS_Subset, FS_CardinalityType

-----------------------------------------------------------------------------
(* The requests fall into a few shapes.                                    *)

\* Requests that expire silent workers and then delete rows that do not run.
LEMMA CleanupKeepsInv ==
  ASSUME Inv, NEW S \in SUBSET JobId,
         \A i \in S : ExpiredJobs[i].status # "running",
         jobs' = [i \in JobId |-> IF i \in S THEN AbsentJob ELSE ExpiredJobs[i]],
         workers' = ReleasedWorkers,
         sequence' = sequence \/ (sequence' = 0 /\ \A i \in JobId : jobs'[i].status = "absent"),
         silence' = silence
  PROVE  Inv'
<1> USE DEF Inv
<1>0. \A i \in JobId : jobs[i] \in JobRow
  BY DEF TypeOK
<1>1. \A i \in JobId : ExpiredJobs[i] \in JobRow
  <2> SUFFICES ASSUME NEW i \in JobId
               PROVE  ExpiredJobs[i] \in JobRow
    OBVIOUS
  <2>1. CASE Abandoned(i)
    <3>1. ExpiredJobs[i] = [jobs[i] EXCEPT !.status = "failed", !.error = "disconnected",
                                           !.cancel_requested = 0]
      BY <2>1 DEF ExpiredJobs
    <3> QED BY <3>1, <1>0 DEF JobRow
  <2>2. CASE ~Abandoned(i)
    BY <2>2, <1>0 DEF ExpiredJobs
  <2> QED BY <2>1, <2>2
<1>2. \A w \in Worker : ReleasedWorkers[w] \in WorkerRow
  BY DEF TypeOK, ReleasedWorkers, WorkerRow, NoJob
<1>3. \A i \in JobId : /\ ExpiredJobs[i].worker_id = jobs[i].worker_id
                       /\ ExpiredJobs[i].status = "running" <=> Running(i) /\ ~Abandoned(i)
                       /\ ~Abandoned(i) => ExpiredJobs[i] = jobs[i]
                       /\ Abandoned(i) => /\ ExpiredJobs[i].status = "failed"
                                          /\ ExpiredJobs[i].error = "disconnected"
                                          /\ ExpiredJobs[i].cancel_requested = 0
  <2> SUFFICES ASSUME NEW i \in JobId
               PROVE  /\ ExpiredJobs[i].worker_id = jobs[i].worker_id
                      /\ ExpiredJobs[i].status = "running" <=> Running(i) /\ ~Abandoned(i)
                      /\ ~Abandoned(i) => ExpiredJobs[i] = jobs[i]
                      /\ Abandoned(i) => /\ ExpiredJobs[i].status = "failed"
                                         /\ ExpiredJobs[i].error = "disconnected"
                                         /\ ExpiredJobs[i].cancel_requested = 0
    OBVIOUS
  <2>1. CASE Abandoned(i)
    <3>1. ExpiredJobs[i] = [jobs[i] EXCEPT !.status = "failed", !.error = "disconnected",
                                           !.cancel_requested = 0]
      BY <2>1 DEF ExpiredJobs
    <3> QED BY <2>1, <3>1, <1>0 DEF JobRow, Running
  <2>2. CASE ~Abandoned(i)
    <3>1. ExpiredJobs[i] = jobs[i]
      BY <2>2 DEF ExpiredJobs
    <3> QED BY <2>2, <3>1 DEF Running
  <2> QED BY <2>1, <2>2
<1>4. \A i \in JobId : jobs'[i] = IF i \in S THEN AbsentJob ELSE ExpiredJobs[i]
  OBVIOUS
<1>5. TypeOK'
  <2>1. jobs' \in [JobId -> JobRow]
    BY <1>1, AbsentJobType
  <2>2. workers' \in [Worker -> WorkerRow]
    BY <1>2 DEF ReleasedWorkers
  <2>3. sequence' \in 0..MaxSequence
    BY DEF TypeOK
  <2> QED BY <2>1, <2>2, <2>3 DEF TypeOK
<1>6. \A i \in JobId : Running(i)' <=> Running(i) /\ ~Abandoned(i)
  BY <1>3, <1>4, AbsentJobType DEF Running
<1>7. \A i \in JobId : Running(i)' => jobs'[i].worker_id = jobs[i].worker_id
  BY <1>3, <1>4, AbsentJobType DEF Running
<1>8. \A w \in Worker : /\ Stale(w) => /\ workers'[w].current_job_id = NoJob
                                       /\ workers'[w].status = "idle"
                        /\ ~Stale(w) => workers'[w] = workers[w]
  <2> SUFFICES ASSUME NEW w \in Worker
               PROVE  /\ Stale(w) => /\ workers'[w].current_job_id = NoJob
                                     /\ workers'[w].status = "idle"
                      /\ ~Stale(w) => workers'[w] = workers[w]
    OBVIOUS
  <2>1. workers'[w] = IF Stale(w)
                      THEN [workers[w] EXCEPT !.status = "idle", !.current_job_id = NoJob]
                      ELSE workers[w]
    BY DEF ReleasedWorkers
  <2>2. workers[w] \in WorkerRow
    BY DEF TypeOK
  <2> HIDE DEF Inv
  <2> QED BY <2>1, <2>2 DEF WorkerRow
<1>9. AssignmentsAgree'
  <2>1. \A i \in JobId : Running(i)' => (jobs[i].worker_id)' \in Worker
    BY <1>6, <1>7 DEF AssignmentsAgree
  <2>2. \A w \in Worker, i \in JobId :
           (workers[w].current_job_id)' = i <=> Running(i)' /\ (jobs[i].worker_id)' = w
    <3> SUFFICES ASSUME NEW w \in Worker, NEW i \in JobId
                 PROVE  workers'[w].current_job_id = i
                          <=> Running(i)' /\ jobs'[i].worker_id = w
      OBVIOUS
    <3>1. CASE Stale(w)
      <4>1. workers'[w].current_job_id # i
        BY <3>1, <1>8 DEF NoJob, JobId
      <4>2. ~(Running(i)' /\ jobs'[i].worker_id = w)
        BY <3>1, <1>6, <1>7 DEF Abandoned
      <4> QED BY <4>1, <4>2
    <3>2. CASE ~Stale(w)
      <4>1. workers'[w].current_job_id = i <=> Running(i) /\ jobs[i].worker_id = w
        BY <3>2, <1>8 DEF AssignmentsAgree
      <4>2. Running(i) /\ jobs[i].worker_id = w => ~Abandoned(i)
        BY <3>2 DEF Abandoned
      <4> QED BY <4>1, <4>2, <1>6, <1>7
    <3> QED BY <3>1, <3>2
  <2>3. \A w \in Worker :
           (workers[w].status)' = "busy" <=> (workers[w].current_job_id)' # NoJob
    BY <1>8 DEF AssignmentsAgree
  <2> QED BY <2>1, <2>2, <2>3 DEF AssignmentsAgree
<1>10. RunDetailsMatch'
  <2> SUFFICES ASSUME NEW i \in JobId
               PROVE  DetailsMatch(i)'
    BY DEF RunDetailsMatch
  <2>1. CASE i \in S
    BY <2>1, <1>4, AbsentJobType DEF DetailsMatch, Exists, Queued, Failed
  <2>2. CASE i \notin S /\ Abandoned(i)
    BY <2>2, <1>3, <1>4 DEF DetailsMatch, Exists, Queued, Failed, Abandoned, AssignmentsAgree
  <2>3. CASE i \notin S /\ ~Abandoned(i)
    BY <2>3, <1>3, <1>4 DEF DetailsMatch, Exists, Queued, Failed, RunDetailsMatch
  <2> QED BY <2>1, <2>2, <2>3
<1>11. IdsBelowSequence'
  <2>1. \A i \in JobId : Exists(i)' => Exists(i)
    BY <1>3, <1>4, AbsentJobType DEF Exists, Abandoned, Running
  <2>2. CASE sequence' = sequence
    BY <2>1, <2>2 DEF IdsBelowSequence
  <2>3. CASE \A i \in JobId : jobs'[i].status = "absent"
    BY <2>3 DEF IdsBelowSequence, Exists
  <2> QED BY <2>2, <2>3
<1> QED BY <1>5, <1>9, <1>10, <1>11

\* Requests that only put rows that wait or have failed (back) into the queue.
LEMMA QueueingKeepsInv ==
  ASSUME Inv,
         jobs' \in [JobId -> JobRow],
         \A i \in JobId : \/ jobs'[i] = jobs[i]
                          \/ /\ Queued(i) \/ Failed(i)
                             /\ \E p \in Int : jobs'[i] = Row("queued", p),
         UNCHANGED <<workers, sequence, silence>>
  PROVE  Inv'
<1> USE DEF Inv
<1>1. TypeOK'
  BY DEF TypeOK
<1>2. \A i \in JobId : (\E p \in Int : jobs'[i] = Row("queued", p)) =>
         /\ jobs'[i].status = "queued"
         /\ jobs'[i].error = "null"
         /\ jobs'[i] = Row("queued", jobs'[i].queue_position)
  BY RowType
<1>3. \A i \in JobId : /\ Running(i)' <=> Running(i)
                       /\ Running(i) => jobs'[i] = jobs[i]
  BY <1>2 DEF Running, Queued, Failed
<1>4. AssignmentsAgree'
  BY <1>3 DEF AssignmentsAgree
<1>5. RunDetailsMatch'
  <2> SUFFICES ASSUME NEW i \in JobId
               PROVE  DetailsMatch(i)'
    BY DEF RunDetailsMatch
  <2>1. CASE jobs'[i] = jobs[i]
    BY <2>1 DEF RunDetailsMatch, DetailsMatch, Exists, Queued, Failed
  <2>2. CASE \E p \in Int : jobs'[i] = Row("queued", p)
    BY <2>2, <1>2, RowType DEF DetailsMatch, Exists, Queued, Failed
  <2> QED BY <2>1, <2>2
<1>6. IdsBelowSequence'
  BY <1>2 DEF IdsBelowSequence, Exists, Queued, Failed
<1> QED BY <1>1, <1>4, <1>5, <1>6

\* Steps that leave the two tables and the counter alone.
LEMMA TimeKeepsInv ==
  ASSUME Inv, UNCHANGED <<jobs, workers, sequence>>,
         silence' \in [Worker -> 0..WorkerTimeout]
  PROVE  Inv'
BY DEF Inv, TypeOK, AssignmentsAgree, RunDetailsMatch, DetailsMatch, IdsBelowSequence,
       Running, Queued, Failed, Exists

-----------------------------------------------------------------------------
(* One lemma for each request that changes an assignment or writes a row.  *)

\* A submission writes a row that did not exist.
LEMMA SubmitKeepsInv == ASSUME Inv, Submit PROVE Inv'
<1> USE DEF Inv
<1> PICK n \in JobId : n = sequence + 1
  BY DEF Submit, TypeOK, JobId
<1>1. ~Exists(n) /\ n \in Int /\ n = sequence'
  BY DEF Submit, TypeOK, JobId, IdsBelowSequence
<1>2. jobs' = [jobs EXCEPT ![n] = Row("queued", n)]
  BY DEF Submit
<1>3. jobs'[n] = Row("queued", n) /\ \A i \in JobId \ {n} : jobs'[i] = jobs[i]
  BY <1>2 DEF TypeOK
<1>4. TypeOK'
  <2>1. jobs' \in [JobId -> JobRow]
    BY <1>1, <1>2, RowType DEF TypeOK
  <2>2. sequence' \in 0..MaxSequence
    BY DEF TypeOK, Submit
  <2> QED BY <2>1, <2>2 DEF TypeOK, Submit
<1>5. \A i \in JobId : Running(i)' <=> Running(i)
  <2>1. jobs'[n].status = "queued"
    BY <1>1, <1>3, RowType
  <2> QED BY <2>1, <1>1, <1>3 DEF Running, Exists
<1>6. AssignmentsAgree'
  BY <1>1, <1>3, <1>5 DEF AssignmentsAgree, Submit, Running, Exists
<1>7. RunDetailsMatch'
  <2>1. DetailsMatch(n)'
    BY <1>1, <1>3, RowType DEF DetailsMatch, Queued, Failed
  <2>2. \A i \in JobId \ {n} : DetailsMatch(i)'
    BY <1>3 DEF RunDetailsMatch, DetailsMatch, Exists, Queued, Failed
  <2> QED BY <2>1, <2>2 DEF RunDetailsMatch
<1>8. IdsBelowSequence'
  BY <1>1, <1>3 DEF IdsBelowSequence, Exists, TypeOK, JobId
<1> QED BY <1>4, <1>6, <1>7, <1>8

\* A cancellation flags a running row.
LEMMA CancelKeepsInv ==
  ASSUME Inv, NEW i \in JobId, Cancel(i) PROVE Inv'
<1> USE DEF Inv
<1>1. /\ jobs[i] \in JobRow
      /\ jobs'[i] = [jobs[i] EXCEPT !.cancel_requested = 1]
      /\ \A k \in JobId \ {i} : jobs'[k] = jobs[k]
  BY DEF TypeOK, Cancel
<1>2. /\ jobs'[i] \in JobRow
      /\ jobs'[i].status = "running" /\ jobs[i].status = "running"
      /\ jobs'[i].worker_id = jobs[i].worker_id
      /\ jobs'[i].error = jobs[i].error
  BY <1>1 DEF JobRow, Cancel, Running
<1>3. TypeOK'
  BY <1>1, <1>2 DEF TypeOK, Cancel
<1>4. AssignmentsAgree'
  BY <1>1, <1>2 DEF AssignmentsAgree, Cancel, Running
<1>5. RunDetailsMatch'
  <2>1. DetailsMatch(i)'
    BY <1>1, <1>2 DEF AssignmentsAgree, RunDetailsMatch, DetailsMatch, Running, Exists, Queued, Failed
  <2>2. \A k \in JobId \ {i} : DetailsMatch(k)'
    BY <1>1 DEF RunDetailsMatch, DetailsMatch, Exists, Queued, Failed
  <2> QED BY <2>1, <2>2 DEF RunDetailsMatch
<1>6. IdsBelowSequence'
  BY <1>1, <1>2 DEF IdsBelowSequence, Exists, Cancel
<1> QED BY <1>3, <1>4, <1>5, <1>6

\* An output path is written to a running row.
LEMMA OutputKeepsInv ==
  ASSUME Inv, NEW i \in JobId, NEW w \in Worker, Output(i, w) PROVE Inv'
<1> USE DEF Inv
<1>1. /\ jobs[i] \in JobRow
      /\ jobs'[i] = [jobs[i] EXCEPT !.output_path = "path"]
      /\ \A k \in JobId \ {i} : jobs'[k] = jobs[k]
  BY DEF TypeOK, Output
<1>2. /\ jobs'[i] \in JobRow
      /\ jobs'[i].status = "running" /\ jobs[i].status = "running"
      /\ jobs'[i].worker_id = jobs[i].worker_id
      /\ jobs'[i].error = jobs[i].error
  BY <1>1 DEF JobRow, Output, Running
<1>3. TypeOK'
  BY <1>1, <1>2 DEF TypeOK, Output
<1>4. AssignmentsAgree'
  BY <1>1, <1>2 DEF AssignmentsAgree, Output, Running
<1>5. RunDetailsMatch'
  <2>1. DetailsMatch(i)'
    BY <1>1, <1>2 DEF AssignmentsAgree, RunDetailsMatch, DetailsMatch, Running, Exists, Queued, Failed
  <2>2. \A k \in JobId \ {i} : DetailsMatch(k)'
    BY <1>1 DEF RunDetailsMatch, DetailsMatch, Exists, Queued, Failed
  <2> QED BY <2>1, <2>2 DEF RunDetailsMatch
<1>6. IdsBelowSequence'
  BY <1>1, <1>2 DEF IdsBelowSequence, Exists, Output
<1> QED BY <1>3, <1>4, <1>5, <1>6

\* The pause flag is no part of an assignment.
LEMMA PauseKeepsInv ==
  ASSUME Inv, NEW w \in Worker, NEW p \in {0, 1}, SetWorkerPaused(w, p) PROVE Inv'
<1> USE DEF Inv
<1>1. /\ workers[w] \in WorkerRow
      /\ workers'[w] = [workers[w] EXCEPT !.paused = p]
      /\ \A v \in Worker \ {w} : workers'[v] = workers[v]
  BY DEF TypeOK, SetWorkerPaused
<1>2. /\ workers'[w] \in WorkerRow
      /\ workers'[w].status = workers[w].status
      /\ workers'[w].current_job_id = workers[w].current_job_id
  BY <1>1 DEF WorkerRow
<1>3. TypeOK'
  BY <1>1, <1>2 DEF TypeOK, SetWorkerPaused
<1>4. AssignmentsAgree'
  BY <1>1, <1>2 DEF AssignmentsAgree, SetWorkerPaused, Running
<1> QED BY <1>3, <1>4 DEF SetWorkerPaused, RunDetailsMatch, DetailsMatch, IdsBelowSequence,
                          Queued, Failed, Exists

\* A registration adds an idle worker or changes nothing.
LEMMA RegisterKeepsInv ==
  ASSUME Inv, NEW w \in Worker, Register(w) PROVE Inv'
<1> USE DEF Inv
<1>1. silence' \in [Worker -> 0..WorkerTimeout]
  BY DEF Register, Heard, TypeOK
<1>2. CASE Registered(w)
  BY <1>1, <1>2, TimeKeepsInv DEF Register
<1>3. CASE ~Registered(w)
  <2>1. /\ workers'[w].status = "idle"
        /\ workers'[w].current_job_id = NoJob
        /\ workers'[w] \in WorkerRow
        /\ \A v \in Worker \ {w} : workers'[v] = workers[v]
    BY <1>3 DEF Register, TypeOK, AbsentWorker, WorkerRow
  <2>2. workers[w].current_job_id = NoJob
    BY <1>3 DEF AssignmentsAgree, Registered
  <2>3. TypeOK'
    BY <1>1, <1>3, <2>1 DEF TypeOK, Register
  <2>4. AssignmentsAgree'
    BY <2>1, <2>2 DEF AssignmentsAgree, Register, Running
  <2> QED BY <2>3, <2>4 DEF Register, RunDetailsMatch, DetailsMatch, IdsBelowSequence,
                            Queued, Failed, Exists
<1> QED BY <1>2, <1>3

\* A claim makes both tables name the same assignment.
LEMMA ClaimNextKeepsInv ==
  ASSUME Inv, NEW w \in Worker, NEW i \in JobId, ClaimNext(w, i) PROVE Inv'
<1> USE DEF Inv
<1>1. /\ jobs[i] \in JobRow
      /\ jobs'[i] = [jobs[i] EXCEPT !.status = "running", !.worker_id = w]
      /\ \A k \in JobId \ {i} : jobs'[k] = jobs[k]
  BY DEF TypeOK, ClaimNext
<1>2. /\ jobs'[i] \in JobRow
      /\ jobs'[i].status = "running"
      /\ jobs'[i].worker_id = w
      /\ jobs'[i].error = "null"
      /\ jobs[i].status = "queued"
  <2>1. jobs[i].status = "queued"
    BY DEF ClaimNext, Queued
  <2>2. jobs[i].error = "null"
    BY <2>1 DEF RunDetailsMatch, DetailsMatch, Failed
  <2> QED BY <1>1, <2>1, <2>2 DEF JobRow
<1>3. /\ workers[w] \in WorkerRow
      /\ workers'[w] = [workers[w] EXCEPT !.status = "busy", !.current_job_id = i]
      /\ \A v \in Worker \ {w} : workers'[v] = workers[v]
  BY DEF TypeOK, ClaimNext
<1>4. /\ workers'[w] \in WorkerRow
      /\ workers'[w].status = "busy"
      /\ workers'[w].current_job_id = i
      /\ workers[w].current_job_id = NoJob
  <2>1. workers[w].current_job_id = NoJob
    BY DEF ClaimNext
  <2> QED BY <1>3, <2>1 DEF WorkerRow
<1>5. TypeOK'
  <2>1. jobs' \in [JobId -> JobRow]
    BY <1>1, <1>2 DEF TypeOK, ClaimNext
  <2>2. workers' \in [Worker -> WorkerRow]
    BY <1>3, <1>4 DEF TypeOK, ClaimNext
  <2>3. silence' \in [Worker -> 0..WorkerTimeout]
    BY DEF TypeOK, ClaimNext, Heard
  <2> QED BY <2>1, <2>2, <2>3 DEF TypeOK, ClaimNext
<1>6. AssignmentsAgree'
  <2>1. \A k \in JobId : Running(k)' <=> Running(k) \/ k = i
    BY <1>1, <1>2 DEF Running
  <2>2. \A k \in JobId : Running(k)' => jobs'[k].worker_id \in Worker
    BY <2>1, <1>1, <1>2 DEF AssignmentsAgree
  <2>3. \A v \in Worker, k \in JobId :
          workers'[v].current_job_id = k <=> Running(k)' /\ jobs'[k].worker_id = v
    <3> SUFFICES ASSUME NEW v \in Worker, NEW k \in JobId
                 PROVE  workers'[v].current_job_id = k
                          <=> Running(k)' /\ jobs'[k].worker_id = v
      OBVIOUS
    <3>1. CASE k = i
      <4>1. CASE v = w
        BY <3>1, <4>1, <1>2, <1>4, <2>1
      <4>2. CASE v # w
        BY <3>1, <4>2, <1>2, <1>3 DEF AssignmentsAgree, Running
      <4> QED BY <4>1, <4>2
    <3>2. CASE k # i /\ v = w
      BY <3>2, <1>1, <1>4, <2>1 DEF AssignmentsAgree, NoJob, JobId
    <3>3. CASE k # i /\ v # w
      BY <3>3, <1>1, <1>3, <2>1 DEF AssignmentsAgree
    <3> QED BY <3>1, <3>2, <3>3
  <2>4. ASSUME NEW v \in Worker
        PROVE  workers'[v].status = "busy" <=> workers'[v].current_job_id # NoJob
    <3>1. CASE v = w
      BY <3>1, <1>4 DEF NoJob, JobId
    <3>2. CASE v # w
      BY <3>2, <1>3 DEF AssignmentsAgree
    <3> QED BY <3>1, <3>2
  <2> QED BY <2>2, <2>3, <2>4 DEF AssignmentsAgree
<1>7. RunDetailsMatch'
  <2>1. DetailsMatch(i)'
    BY <1>2 DEF DetailsMatch, Exists, Queued, Failed
  <2>2. \A k \in JobId \ {i} : DetailsMatch(k)'
    BY <1>1 DEF RunDetailsMatch, DetailsMatch, Exists, Queued, Failed
  <2> QED BY <2>1, <2>2 DEF RunDetailsMatch
<1>8. IdsBelowSequence'
  BY <1>1, <1>2 DEF IdsBelowSequence, Exists, ClaimNext
<1> QED BY <1>5, <1>6, <1>7, <1>8

\* A report ends the assignment in both tables.
LEMMA FinishRunningKeepsInv ==
  ASSUME Inv, NEW w \in Worker, NEW i \in JobId, NEW s \in {"succeeded", "failed"},
         FinishRunning(i, w, s)
  PROVE  Inv'
<1> USE DEF Inv
<1> DEFINE e == IF s = "succeeded" THEN "null" ELSE "reported"
<1>1. /\ jobs[i] \in JobRow
      /\ jobs'[i] = [jobs[i] EXCEPT !.status = s, !.error = e]
      /\ \A k \in JobId \ {i} : jobs'[k] = jobs[k]
  BY DEF TypeOK, FinishRunning
<1>2. /\ jobs'[i] \in JobRow
      /\ jobs'[i].status = s /\ jobs'[i].error = e
      /\ jobs'[i].worker_id = w
      /\ jobs[i].status = "running" /\ jobs[i].worker_id = w
  <2>1. jobs[i].status = "running" /\ jobs[i].worker_id = w
    BY DEF FinishRunning, Owned, Running
  <2> QED BY <1>1, <2>1 DEF JobRow
<1>3. /\ workers[w] \in WorkerRow
      /\ workers'[w] = [workers[w] EXCEPT !.status = "idle", !.current_job_id = NoJob]
      /\ \A v \in Worker \ {w} : workers'[v] = workers[v]
  BY DEF TypeOK, FinishRunning
<1>4. /\ workers'[w] \in WorkerRow
      /\ workers'[w].status = "idle"
      /\ workers'[w].current_job_id = NoJob
      /\ workers[w].current_job_id = i
  <2>1. workers[w].current_job_id = i
    BY <1>2 DEF AssignmentsAgree, Running
  <2> QED BY <1>3, <2>1 DEF WorkerRow
<1>5. TypeOK'
  <2>1. jobs' \in [JobId -> JobRow]
    BY <1>1, <1>2 DEF TypeOK, FinishRunning
  <2>2. workers' \in [Worker -> WorkerRow]
    BY <1>3, <1>4 DEF TypeOK, FinishRunning
  <2> QED BY <2>1, <2>2 DEF TypeOK, FinishRunning
<1>6. AssignmentsAgree'
  <2>1. \A k \in JobId : Running(k)' <=> Running(k) /\ k # i
    BY <1>1, <1>2 DEF Running
  <2>2. \A k \in JobId : Running(k)' => jobs'[k].worker_id \in Worker
    BY <2>1, <1>1 DEF AssignmentsAgree
  <2>3. \A v \in Worker, k \in JobId :
          workers'[v].current_job_id = k <=> Running(k)' /\ jobs'[k].worker_id = v
    <3> SUFFICES ASSUME NEW v \in Worker, NEW k \in JobId
                 PROVE  workers'[v].current_job_id = k
                          <=> Running(k)' /\ jobs'[k].worker_id = v
      OBVIOUS
    <3>1. CASE k = i
      <4>1. CASE v = w
        BY <3>1, <4>1, <1>4, <2>1 DEF NoJob, JobId
      <4>2. CASE v # w
        BY <3>1, <4>2, <1>2, <1>3, <2>1 DEF AssignmentsAgree
      <4> QED BY <4>1, <4>2
    <3>2. CASE k # i /\ v = w
      BY <3>2, <1>1, <1>4, <2>1 DEF AssignmentsAgree, NoJob, JobId
    <3>3. CASE k # i /\ v # w
      BY <3>3, <1>1, <1>3, <2>1 DEF AssignmentsAgree
    <3> QED BY <3>1, <3>2, <3>3
  <2>4. ASSUME NEW v \in Worker
        PROVE  workers'[v].status = "busy" <=> workers'[v].current_job_id # NoJob
    <3>1. CASE v = w
      BY <3>1, <1>4 DEF NoJob, JobId
    <3>2. CASE v # w
      BY <3>2, <1>3 DEF AssignmentsAgree
    <3> QED BY <3>1, <3>2
  <2> QED BY <2>2, <2>3, <2>4 DEF AssignmentsAgree
<1>7. RunDetailsMatch'
  <2>1. DetailsMatch(i)'
    BY <1>2 DEF DetailsMatch, Exists, Queued, Failed
  <2>2. \A k \in JobId \ {i} : DetailsMatch(k)'
    BY <1>1 DEF RunDetailsMatch, DetailsMatch, Exists, Queued, Failed
  <2> QED BY <2>1, <2>2 DEF RunDetailsMatch
<1>8. IdsBelowSequence'
  BY <1>1, <1>2 DEF IdsBelowSequence, Exists, FinishRunning
<1> QED BY <1>5, <1>6, <1>7, <1>8

-----------------------------------------------------------------------------
(* Requests that put jobs into the queue or move them in it.               *)

\* The rows that retry-all leaves behind.
LEMMA RetryAllRows ==
  ASSUME Inv, RetryAll
  PROVE  /\ jobs' \in [JobId -> JobRow]
         /\ \A x \in JobId : \/ jobs'[x] = jobs[x]
                          \/ /\ Queued(x) \/ Failed(x)
                             /\ \E r \in Int : jobs'[x] = Row("queued", r)
<1> DEFINE Rank(i) == Cardinality({k \in JobId : Failed(k) /\ (Before(k, i) \/ k = i)})
<1>1. PICK m \in Position :
        jobs' = [i \in JobId |-> IF Failed(i) THEN Row("queued", m + Rank(i)) ELSE jobs[i]]
  BY DEF RetryAll, Requeue
<1>2. \A i \in JobId : m + Rank(i) \in Int
  BY CountJobs DEF Position
<1> HIDE DEF Rank
<1>3. \A i \in JobId : jobs'[i] = IF Failed(i) THEN Row("queued", m + Rank(i)) ELSE jobs[i]
  BY <1>1
<1>4. jobs' \in [JobId -> JobRow]
  BY <1>1, <1>2, RowType DEF Inv, TypeOK
<1> QED BY <1>2, <1>3, <1>4

\* Retry-all queues failed rows and touches no other.
LEMMA RetryAllKeepsInv ==
  ASSUME Inv, RetryAll PROVE Inv'
BY RetryAllRows, QueueingKeepsInv DEF RetryAll

\* The rows that a batch of retries leaves behind.
LEMMA RetryRows ==
  ASSUME Inv, NEW ids \in Batches, Retry(ids)
  PROVE  /\ jobs' \in [JobId -> JobRow]
         /\ \A x \in JobId : \/ jobs'[x] = jobs[x]
                          \/ /\ Queued(x) \/ Failed(x)
                             /\ \E r \in Int : jobs'[x] = Row("queued", r)
<1> DEFINE Target(i) == \E n \in DOMAIN ids : ids[n] = i
           Rank(i) == RankIn(ids, Failed, i)
<1>1. PICK m \in Position :
        jobs' = [i \in JobId |-> IF Failed(i) /\ Target(i)
                                 THEN Row("queued", m + Rank(i)) ELSE jobs[i]]
  BY DEF Retry, Requeue
<1>2. \A i \in JobId : m + Rank(i) \in Int
  BY CountInBatch DEF Position, RankIn
<1> HIDE DEF Rank, Target
<1>3. \A i \in JobId : jobs'[i] = IF Failed(i) /\ Target(i)
                                  THEN Row("queued", m + Rank(i)) ELSE jobs[i]
  BY <1>1
<1>4. jobs' \in [JobId -> JobRow]
  BY <1>1, <1>2, RowType DEF Inv, TypeOK
<1> QED BY <1>2, <1>3, <1>4

\* A batch of retries queues failed rows and touches no other.
LEMMA RetryKeepsInv ==
  ASSUME Inv, NEW ids \in Batches, Retry(ids) PROVE Inv'
BY RetryRows, QueueingKeepsInv DEF Retry

\* A queued row that moves is still a row at its defaults.
LEMMA MovedRow ==
  ASSUME Inv, NEW i \in JobId, Queued(i), NEW p \in Int
  PROVE  [jobs[i] EXCEPT !.queue_position = p] = Row("queued", p)
<1>1. jobs[i] = Row("queued", jobs[i].queue_position)
  BY DEF Inv, RunDetailsMatch, DetailsMatch
<1> QED BY <1>1 DEF Row

\* The rows that a batch of urgent requests leaves behind.
LEMMA UrgentRows ==
  ASSUME Inv, NEW ids \in Batches, Urgent(ids)
  PROVE  /\ jobs' \in [JobId -> JobRow]
         /\ \A x \in JobId : \/ jobs'[x] = jobs[x]
                          \/ /\ Queued(x) \/ Failed(x)
                             /\ \E r \in Int : jobs'[x] = Row("queued", r)
<1> DEFINE Target(i) == \E n \in DOMAIN ids : ids[n] = i
           From(i) == Cardinality({n \in DOMAIN ids :
                        Queued(ids[n]) /\ \E k \in DOMAIN ids : ids[k] = i /\ k <= n})
<1>1. PICK m \in Position :
        jobs' = [i \in JobId |-> IF Queued(i) /\ Target(i)
                                 THEN [jobs[i] EXCEPT !.queue_position = m - From(i)]
                                 ELSE jobs[i]]
  BY DEF Urgent
<1>2. \A i \in JobId : m - From(i) \in Int
  BY CountInBatch DEF Position
<1> HIDE DEF Target, From
<1>3. \A i \in JobId : jobs'[i] = IF Queued(i) /\ Target(i)
                                  THEN Row("queued", m - From(i)) ELSE jobs[i]
  BY <1>1, <1>2, MovedRow
<1>4. jobs' \in [JobId -> JobRow]
  <2>1. \A i \in JobId : jobs'[i] \in JobRow
    BY <1>2, <1>3, RowType DEF Inv, TypeOK
  <2> QED BY <1>1, <2>1
<1> QED BY <1>2, <1>3, <1>4

\* Urgent requests change positions only.
LEMMA UrgentKeepsInv ==
  ASSUME Inv, NEW ids \in Batches, Urgent(ids) PROVE Inv'
BY UrgentRows, QueueingKeepsInv DEF Urgent

\* The rows that a swap leaves behind.
LEMMA SwapRows ==
  ASSUME Inv, NEW i \in JobId, NEW k \in JobId, Swap(i, k)
  PROVE  /\ jobs' \in [JobId -> JobRow]
         /\ \A x \in JobId : \/ jobs'[x] = jobs[x]
                          \/ /\ Queued(x) \/ Failed(x)
                             /\ \E r \in Int : jobs'[x] = Row("queued", r)
<1> DEFINE p == jobs[k].queue_position
           q == jobs[i].queue_position
<1>1. p \in Int /\ q \in Int
  BY DEF Inv, TypeOK, JobRow
<1>2. Queued(i) /\ Queued(k)
  BY DEF Swap
<1>3. jobs \in [JobId -> JobRow]
  BY DEF Inv, TypeOK
<1>4. /\ jobs'[k] = IF i = k THEN [[jobs[i] EXCEPT !.queue_position = p]
                                     EXCEPT !.queue_position = q]
                    ELSE [jobs[k] EXCEPT !.queue_position = q]
      /\ i # k => jobs'[i] = [jobs[i] EXCEPT !.queue_position = p]
      /\ \A x \in JobId \ {i, k} : jobs'[x] = jobs[x]
      /\ jobs' = [x \in JobId |-> jobs'[x]]
  BY <1>3 DEF Swap
<1>5. jobs'[k] = Row("queued", q) /\ jobs'[i] = Row("queued", p)
  <2>1. CASE i # k
    BY <2>1, <1>1, <1>2, <1>4, MovedRow
  <2>2. CASE i = k
    <3>1. p = q
      BY <2>2
    <3>2. [jobs[i] EXCEPT !.queue_position = p] = Row("queued", p)
      BY <1>1, <1>2, MovedRow
    <3>3. jobs'[k] = [Row("queued", p) EXCEPT !.queue_position = p]
      BY <1>4, <2>2, <3>1, <3>2
    <3> QED BY <2>2, <3>1, <3>3 DEF Row
  <2> QED BY <2>1, <2>2
<1> HIDE DEF p, q
<1>6. jobs' \in [JobId -> JobRow]
  <2>1. \A x \in JobId : jobs'[x] \in JobRow
    BY <1>1, <1>3, <1>4, <1>5, RowType
  <2> QED BY <1>4, <2>1
<1>7. \A x \in JobId : \/ jobs'[x] = jobs[x]
                       \/ /\ Queued(x) \/ Failed(x)
                          /\ \E r \in Int : jobs'[x] = Row("queued", r)
  BY <1>1, <1>2, <1>4, <1>5
<1> QED BY <1>6, <1>7

\* A swap changes positions only.
LEMMA SwapKeepsInv ==
  ASSUME Inv, NEW i \in JobId, NEW k \in JobId, Swap(i, k) PROVE Inv'
BY SwapRows, QueueingKeepsInv DEF Swap

-----------------------------------------------------------------------------
(* The inductive step, one case for each request.                          *)

\* The requests that expire silent workers are all of that shape.
LEMMA CleanupRequestsKeepInv ==
  ASSUME Inv, \/ List \/ Clear \/ RemoveAll
              \/ \E targets \in (SUBSET JobId) \ {{}} : Remove(targets)
  PROVE  Inv'
<1>1. CASE List
  <2>1. jobs' = [i \in JobId |-> IF i \in {} THEN AbsentJob ELSE ExpiredJobs[i]]
    BY <1>1 DEF List, ExpiredJobs
  <2> QED BY <1>1, <2>1, CleanupKeepsInv DEF List
<1>2. CASE Clear
  <2> DEFINE S == {i \in JobId : ExpiredJobs[i].status \in {"succeeded", "failed"}}
  <2>1. jobs' = [i \in JobId |-> IF i \in S THEN AbsentJob ELSE ExpiredJobs[i]]
    BY <1>2 DEF Clear
  <2>2. S \in SUBSET JobId /\ \A i \in S : ExpiredJobs[i].status # "running"
    OBVIOUS
  <2>3. sequence' = sequence \/ (sequence' = 0 /\ \A i \in JobId : jobs'[i].status = "absent")
    BY <1>2 DEF Clear
  <2> HIDE DEF S
  <2> QED BY <1>2, <2>1, <2>2, <2>3, CleanupKeepsInv DEF Clear
<1>3. CASE RemoveAll
  <2> DEFINE S == {i \in JobId : ExpiredJobs[i].status # "running"}
  <2>1. jobs' = [i \in JobId |-> IF i \in S THEN AbsentJob ELSE ExpiredJobs[i]]
    BY <1>3 DEF RemoveAll
  <2>2. S \in SUBSET JobId /\ \A i \in S : ExpiredJobs[i].status # "running"
    OBVIOUS
  <2> HIDE DEF S
  <2> QED BY <1>3, <2>1, <2>2, CleanupKeepsInv DEF RemoveAll
<1>4. CASE \E targets \in (SUBSET JobId) \ {{}} : Remove(targets)
  <2> PICK targets \in SUBSET JobId : Remove(targets)
    BY <1>4
  <2> DEFINE S == {i \in targets : ExpiredJobs[i].status # "running"}
  <2>1. jobs' = [i \in JobId |-> IF i \in S THEN AbsentJob ELSE ExpiredJobs[i]]
    BY DEF Remove
  <2>2. S \in SUBSET JobId /\ \A i \in S : ExpiredJobs[i].status # "running"
    OBVIOUS
  <2> HIDE DEF S
  <2> QED BY <2>1, <2>2, CleanupKeepsInv DEF Remove
<1> QED BY <1>1, <1>2, <1>3, <1>4

\* An empty queue satisfies the invariant.
LEMMA InitInv == ASSUME Init PROVE Inv
<1>1. TypeOK
  BY AbsentJobType DEF Init, TypeOK, AbsentWorker, WorkerRow
<1>2. AssignmentsAgree
  BY AbsentJobType DEF Init, AssignmentsAgree, Running, AbsentWorker, NoJob, JobId
<1>3. RunDetailsMatch
  BY AbsentJobType DEF Init, RunDetailsMatch, DetailsMatch, Exists, Queued, Failed
<1>4. IdsBelowSequence
  BY AbsentJobType DEF Init, IdsBelowSequence, Exists
<1> QED BY <1>1, <1>2, <1>3, <1>4 DEF Inv

\* Hearing of a worker resets its silence.
LEMMA HeardType ==
  ASSUME TypeOK, NEW w \in Worker, Heard(w)
  PROVE  silence' \in [Worker -> 0..WorkerTimeout]
BY DEF TypeOK, Heard

\* Every request and the passing of time keep the invariant.
LEMMA NextInv == ASSUME Inv, [Next]_vars PROVE Inv'
<1>1. CASE UNCHANGED vars
  BY <1>1, TimeKeepsInv DEF vars, Inv, TypeOK
<1>2. CASE AdminStep
  <2>1. CASE Submit
    BY <2>1, SubmitKeepsInv
  <2>2. CASE \/ List \/ Clear \/ RemoveAll
             \/ \E targets \in (SUBSET JobId) \ {{}} : Remove(targets)
    BY <2>2, CleanupRequestsKeepInv
  <2>3. CASE RetryAll
    BY <2>3, RetryAllKeepsInv
  <2>4. CASE \E ids \in Batches : Retry(ids) \/ Urgent(ids)
    BY <2>4, RetryKeepsInv, UrgentKeepsInv
  <2>5. CASE \E i, k \in JobId : Swap(i, k)
    BY <2>5, SwapKeepsInv
  <2>6. CASE \E i \in JobId : Cancel(i)
    BY <2>6, CancelKeepsInv
  <2>7. CASE \E w \in Worker, paused \in {0, 1} : SetWorkerPaused(w, paused)
    BY <2>7, PauseKeepsInv
  <2> QED BY <1>2, <2>1, <2>2, <2>3, <2>4, <2>5, <2>6, <2>7 DEF AdminStep
<1>3. CASE WorkerStep
  <2> PICK w \in Worker :
        \/ Register(w) \/ Heartbeat(w) \/ Claim(w)
        \/ \E i \in JobId : Output(i, w)
        \/ \E i \in JobId, status \in {"succeeded", "failed"} : Finish(i, w, status)
    BY <1>3 DEF WorkerStep
  <2>1. CASE Register(w)
    BY <2>1, RegisterKeepsInv
  <2>2. CASE Heartbeat(w) \/ ClaimHeld(w) \/ ClaimNothing(w)
    <3>1. Heard(w) /\ UNCHANGED <<jobs, workers, sequence>>
      BY <2>2 DEF Heartbeat, ClaimHeld, ClaimNothing
    <3> QED BY <3>1, HeardType, TimeKeepsInv DEF Inv
  <2>3. CASE \E i \in JobId : ClaimNext(w, i)
    BY <2>3, ClaimNextKeepsInv
  <2>4. CASE \E i \in JobId : Output(i, w)
    BY <2>4, OutputKeepsInv
  <2>5. CASE \E i \in JobId, status \in {"succeeded", "failed"} : FinishAgain(i, w, status)
    BY <2>5, <1>1 DEF FinishAgain
  <2>6. CASE \E i \in JobId, status \in {"succeeded", "failed"} : FinishRunning(i, w, status)
    BY <2>6, FinishRunningKeepsInv
  <2> QED BY <2>1, <2>2, <2>3, <2>4, <2>5, <2>6 DEF Claim, Finish
<1>4. CASE Tick
  <2>1. silence' \in [Worker -> 0..WorkerTimeout]
    BY <1>4 DEF Tick, Inv, TypeOK
  <2> QED BY <1>4, <2>1, TimeKeepsInv DEF Tick
<1> QED BY <1>1, <1>2, <1>3, <1>4 DEF Next

-----------------------------------------------------------------------------
(* The theorems.                                                           *)

\* The inductive invariant holds in every state of every queue.
THEOREM Invariance == Spec => []Inv
<1>1. Init => Inv
  BY InitInv
<1>2. Inv /\ [Next]_vars => Inv'
  BY NextInv
<1> QED BY <1>1, <1>2, PTL DEF Spec

\* Every column keeps to the values its CHECK clause and its writers allow.
THEOREM TypeCorrect == Spec => []TypeOK
<1>1. Inv => TypeOK
  BY DEF Inv
<1> QED BY <1>1, Invariance, PTL

\* The jobs table and the workers table agree about every assignment.
THEOREM AssignmentsAlwaysAgree == Spec => []AssignmentsAgree
<1>1. Inv => AssignmentsAgree
  BY DEF Inv
<1> QED BY <1>1, Invariance, PTL

\* A row shows the details of its own run and of no earlier one.
THEOREM RunDetailsAlwaysMatch == Spec => []RunDetailsMatch
<1>1. Inv => RunDetailsMatch
  BY DEF Inv
<1> QED BY <1>1, Invariance, PTL

\* A pending cancellation always reaches the worker that runs the job.
THEOREM CancelAlwaysReachesHolder == Spec => []CancelReachesHolder
<1>1. Inv => CancelReachesHolder
  <2> SUFFICES ASSUME Inv PROVE CancelReachesHolder
    OBVIOUS
  <2>1. \A i \in JobId : Running(i) => /\ jobs[i].worker_id \in Worker
                                       /\ workers[jobs[i].worker_id].current_job_id = i
    BY DEF Inv, AssignmentsAgree
  <2>2. \A w \in Worker : workers[w].current_job_id \in JobId \cup {NoJob}
    BY DEF Inv, TypeOK, WorkerRow
  <2>3. \A i \in JobId : i # NoJob
    BY DEF JobId, NoJob
  <2>4. \A i \in JobId : Running(i) /\ jobs[i].cancel_requested = 1
                           => CancelJobId(jobs[i].worker_id) = i
    BY <2>1, <2>3 DEF CancelJobId
  <2>5. \A w \in Worker : CancelJobId(w) # NoJob
                           => Running(CancelJobId(w)) /\ jobs[CancelJobId(w)].worker_id = w
    BY <2>2 DEF CancelJobId, Inv, AssignmentsAgree
  <2> QED BY <2>4, <2>5 DEF CancelReachesHolder
<1> QED BY <1>1, Invariance, PTL

-----------------------------------------------------------------------------
(* What a step may do to the row of a worker.                              *)

Releases(w)  == /\ Registered(w)
                /\ workers'[w] = [workers[w] EXCEPT !.status = "idle", !.current_job_id = NoJob]
Registers(w) == ~Registered(w) /\ workers'[w] = [AbsentWorker EXCEPT !.status = "idle"]
Pauses(w)    == \E p \in {0, 1} : /\ SetWorkerPaused(w, p)
                                  /\ workers'[w] = [workers[w] EXCEPT !.paused = p]
Receives(w)  == \E i \in JobId :
                  /\ ClaimNext(w, i)
                  /\ workers'[w] = [workers[w] EXCEPT !.status = "busy", !.current_job_id = i]

\* A row is kept, loses its assignment, is new, is paused or resumed, or gets
\* an assignment from its own claim.
LEMMA WorkerRowMoves ==
  ASSUME Inv, [Next]_vars, NEW w \in Worker
  PROVE  workers'[w] = workers[w] \/ Releases(w) \/ Registers(w) \/ Pauses(w) \/ Receives(w)
<1>1. CASE UNCHANGED workers
  BY <1>1
<1>2. CASE workers' = ReleasedWorkers
  BY <1>2 DEF ReleasedWorkers, Releases, Stale
<1>3. CASE \E v \in Worker, p \in {0, 1} : SetWorkerPaused(v, p)
  <2> PICK v \in Worker, p \in {0, 1} : SetWorkerPaused(v, p)
    BY <1>3
  <2>1. workers' = [workers EXCEPT ![v] = [workers[v] EXCEPT !.paused = p]]
    BY DEF SetWorkerPaused
  <2> QED BY <2>1 DEF Inv, TypeOK, Pauses
<1>4. CASE \E v \in Worker : Register(v)
  BY <1>4 DEF Register, Registers, Inv, TypeOK
<1>5. CASE \E v \in Worker, i \in JobId : ClaimNext(v, i)
  <2> PICK v \in Worker, i \in JobId : ClaimNext(v, i)
    BY <1>5
  <2>1. workers' = [workers EXCEPT ![v] =
                      [workers[v] EXCEPT !.status = "busy", !.current_job_id = i]]
    BY DEF ClaimNext
  <2> QED BY <2>1 DEF Inv, TypeOK, Receives
<1>6. CASE \E v \in Worker, i \in JobId, s \in {"succeeded", "failed"} : FinishRunning(i, v, s)
  <2> PICK v \in Worker, i \in JobId, s \in {"succeeded", "failed"} : FinishRunning(i, v, s)
    BY <1>6
  <2>1. /\ Registered(v)
        /\ workers' = [workers EXCEPT ![v] =
                         [workers[v] EXCEPT !.status = "idle", !.current_job_id = NoJob]]
    BY DEF FinishRunning
  <2> QED BY <2>1 DEF Inv, TypeOK, Releases
<1>7. CASE AdminStep
  <2>1. \/ UNCHANGED workers \/ workers' = ReleasedWorkers
        \/ \E v \in Worker, p \in {0, 1} : SetWorkerPaused(v, p)
    BY <1>7 DEF AdminStep, Submit, List, Clear, RemoveAll, RetryAll, Remove, Retry, Urgent,
                Swap, Cancel
  <2> QED BY <2>1, <1>1, <1>2, <1>3
<1>8. CASE WorkerStep
  <2>1. \/ UNCHANGED workers
        \/ \E v \in Worker : Register(v)
        \/ \E v \in Worker, i \in JobId : ClaimNext(v, i)
        \/ \E v \in Worker, i \in JobId, s \in {"succeeded", "failed"} : FinishRunning(i, v, s)
    BY <1>8 DEF WorkerStep, Heartbeat, Claim, ClaimHeld, ClaimNothing, Output, Finish,
                FinishAgain, vars
  <2> QED BY <2>1, <1>1, <1>4, <1>5, <1>6
<1> QED BY <1>1, <1>7, <1>8 DEF Next, Tick, vars

\* Nobody pauses a worker that has not registered.
UnregisteredUnpaused == \A w \in Worker : ~Registered(w) => workers[w].paused = 0

LEMMA UnregisteredStaysUnpaused ==
  ASSUME Inv, UnregisteredUnpaused, [Next]_vars PROVE UnregisteredUnpaused'
<1> SUFFICES ASSUME NEW w \in Worker, ~Registered(w)'
             PROVE  workers'[w].paused = 0
  BY DEF UnregisteredUnpaused
<1>1. workers[w] \in WorkerRow
  BY DEF Inv, TypeOK
<1>2. ~Releases(w) /\ ~Registers(w) /\ ~Receives(w)
  BY <1>1 DEF Releases, Registers, Receives, Registered, WorkerRow, AbsentWorker
<1>3. ~Pauses(w)
  BY <1>1 DEF Pauses, SetWorkerPaused, Registered, WorkerRow
<1> QED BY <1>2, <1>3, WorkerRowMoves DEF UnregisteredUnpaused, Registered

\* A paused worker keeps its flag, unless it is resumed, and gets no job.
LEMMA PauseKept ==
  ASSUME Inv, UnregisteredUnpaused, [Next]_vars, NEW w \in Worker, workers[w].paused = 1
  PROVE  /\ workers'[w].paused = 1 \/ SetWorkerPaused(w, 0)
         /\ workers'[w].current_job_id \in {workers[w].current_job_id, NoJob}
<1>1. workers[w] \in WorkerRow
  BY DEF Inv, TypeOK
<1>2. ~Registers(w) /\ ~Receives(w)
  BY DEF UnregisteredUnpaused, Registers, Receives, ClaimNext
<1>3. CASE Releases(w)
  BY <1>1, <1>3 DEF Releases, WorkerRow
<1>4. CASE Pauses(w)
  BY <1>1, <1>4 DEF Pauses, WorkerRow
<1> QED BY <1>2, <1>3, <1>4, WorkerRowMoves

\* The pause flag survives everything but an explicit resume, and while it is
\* set the worker never gets an assignment.
THEOREM PauseAlwaysRespected == Spec => PauseRespected
<1>1. Init => UnregisteredUnpaused
  BY DEF Init, UnregisteredUnpaused, AbsentWorker
<1>2. Inv /\ UnregisteredUnpaused /\ [Next]_vars => UnregisteredUnpaused'
  BY UnregisteredStaysUnpaused
<1>3. Inv /\ UnregisteredUnpaused /\ [Next]_vars
        => [\A w \in Worker :
              workers[w].paused = 1 =>
                /\ workers'[w].paused = 1 \/ SetWorkerPaused(w, 0)
                /\ workers'[w].current_job_id \in {workers[w].current_job_id, NoJob}]_vars
  BY PauseKept
<1> QED BY <1>1, <1>2, <1>3, Invariance, PTL DEF Spec, PauseRespected

-----------------------------------------------------------------------------
(* What a step may do to the order of the waiting jobs.                    *)

\* A count of jobs that includes one is not zero.
LEMMA CountsItself ==
  ASSUME NEW S \in SUBSET JobId, NEW i \in S
  PROVE  Cardinality(S) \in Nat /\ Cardinality(S) >= 1
<1>1. IsFiniteSet(JobId)
  BY FS_Interval DEF JobId
<1>2. IsFiniteSet(S)
  BY <1>1, FS_Subset
<1> QED BY <1>2, FS_CardinalityType, FS_EmptySet

LEMMA CountsItsPlace ==
  ASSUME NEW ids \in Batches, NEW S \in SUBSET DOMAIN ids, NEW n \in S
  PROVE  Cardinality(S) \in Nat /\ Cardinality(S) >= 1
<1>1. PICK m \in 1..MaxBatch : ids \in [1..m -> JobId]
  BY DEF Batches
<1>2. DOMAIN ids = 1..m /\ 1 \in Int /\ m \in Int
  BY <1>1
<1>3. IsFiniteSet(S)
  BY <1>2, FS_Interval, FS_Subset
<1> QED BY <1>3, FS_CardinalityType, FS_EmptySet

Reorders == \/ \E ids \in Batches : Urgent(ids)
            \/ \E a, b \in JobId : Swap(a, b)

\* Only retries make a failed job wait; they put it behind all jobs there are.
LEMMA RetryGoesLast ==
  ASSUME Inv, RetryAll \/ \E ids \in Batches : Retry(ids),
         NEW i \in JobId, Failed(i), Queued(i)'
  PROVE  \A k \in JobId : Exists(k) => jobs[k].queue_position < jobs'[i].queue_position
<1>1. ~Queued(i) /\ \A k \in JobId : jobs[k].queue_position \in Int
  BY DEF Failed, Queued, Inv, TypeOK, JobRow
<1>2. CASE RetryAll
  <2> DEFINE S(x) == {k \in JobId : Failed(k) /\ (Before(k, x) \/ k = x)}
  <2>1. PICK m \in Position :
          /\ IsMaxPosition(m)
          /\ jobs' = [x \in JobId |-> IF Failed(x) THEN Row("queued", m + Cardinality(S(x)))
                                      ELSE jobs[x]]
    BY <1>2 DEF RetryAll, Requeue
  <2>2. jobs'[i] = Row("queued", m + Cardinality(S(i)))
    BY <2>1
  <2>3. Cardinality(S(i)) \in Nat /\ Cardinality(S(i)) >= 1
    BY CountsItself
  <2> HIDE DEF S
  <2>4. jobs'[i].queue_position = m + Cardinality(S(i)) /\ m \in Int
    BY <2>2, <2>3 DEF Row, Position
  <2> QED BY <1>1, <2>1, <2>3, <2>4 DEF IsMaxPosition
<1>3. CASE \E ids \in Batches : Retry(ids)
  <2> PICK ids \in Batches : Retry(ids)
    BY <1>3
  <2> DEFINE Target(x) == \E n \in DOMAIN ids : ids[n] = x
             S(x) == {n \in DOMAIN ids :
                        Failed(ids[n]) /\ \E m \in DOMAIN ids : ids[m] = x /\ n <= m}
  <2>1. PICK m \in Position :
          /\ IsMaxPosition(m)
          /\ jobs' = [x \in JobId |-> IF Failed(x) /\ Target(x)
                                      THEN Row("queued", m + Cardinality(S(x))) ELSE jobs[x]]
    BY DEF Retry, Requeue, RankIn
  <2>2. PICK n \in DOMAIN ids : ids[n] = i
    BY <1>1, <2>1 DEF Queued
  <2>3. jobs'[i] = Row("queued", m + Cardinality(S(i)))
    BY <2>1, <2>2
  <2>4. n \in Int
    BY DEF Batches
  <2>5. n \in S(i)
    BY <2>2, <2>4
  <2>6. Cardinality(S(i)) \in Nat /\ Cardinality(S(i)) >= 1
    BY <2>5, CountsItsPlace
  <2> HIDE DEF S
  <2>7. jobs'[i].queue_position = m + Cardinality(S(i)) /\ m \in Int
    BY <2>3, <2>6 DEF Row, Position
  <2> QED BY <1>1, <2>1, <2>6, <2>7 DEF IsMaxPosition
<1> QED BY <1>2, <1>3

\* Of the other requests, none changes the position of a row that waits before
\* and after it, and none makes a failed job wait.
LEMMA WaitingRowKept ==
  ASSUME Inv, [Next]_vars, ~Reorders, NEW i \in JobId, Queued(i)'
  PROVE  /\ Queued(i) => jobs'[i].queue_position = jobs[i].queue_position
         /\ Failed(i) => RetryAll \/ \E ids \in Batches : Retry(ids)
<1>1. jobs[i] \in JobRow
  BY DEF Inv, TypeOK
<1>2. CASE jobs'[i] = jobs[i]
  BY <1>2 DEF Queued, Failed
<1>3. CASE Submit
  <2>1. i = sequence + 1 => ~Exists(i)
    BY <1>3 DEF Submit, Inv, TypeOK, JobId, IdsBelowSequence
  <2>2. i # sequence + 1 => jobs'[i] = jobs[i]
    BY <1>3 DEF Submit, Inv, TypeOK
  <2> QED BY <2>1, <2>2, <1>2 DEF Exists, Queued, Failed
<1>4. CASE jobs'[i] = ExpiredJobs[i] \/ jobs'[i] = AbsentJob
  <2>1. CASE Abandoned(i) \/ jobs'[i] = AbsentJob
    <3>1. Abandoned(i) => ExpiredJobs[i].status = "failed"
      BY <1>1 DEF ExpiredJobs, JobRow
    <3> QED BY <3>1, <1>4, <2>1, AbsentJobType DEF Queued
  <2>2. CASE ~Abandoned(i) /\ jobs'[i] # AbsentJob
    BY <1>2, <1>4, <2>2 DEF ExpiredJobs
  <2> QED BY <2>1, <2>2
<1>5. CASE RetryAll
  <2>1. Queued(i) => jobs'[i] = jobs[i]
    BY <1>5 DEF RetryAll, Requeue, Queued, Failed
  <2> QED BY <1>5, <2>1
<1>6. CASE \E ids \in Batches : Retry(ids)
  <2>1. Queued(i) => jobs'[i] = jobs[i]
    BY <1>6 DEF Retry, Requeue, Queued, Failed
  <2> QED BY <1>6, <2>1
<1>7. CASE \E k \in JobId : \/ Cancel(k)
                            \/ \E w \in Worker : \/ Output(k, w) \/ ClaimNext(w, k)
                                                 \/ \E s \in {"succeeded", "failed"} : FinishRunning(k, w, s)
  <2> PICK k \in JobId : \/ Cancel(k)
                         \/ \E w \in Worker : \/ Output(k, w) \/ ClaimNext(w, k)
                                              \/ \E s \in {"succeeded", "failed"} : FinishRunning(k, w, s)
    BY <1>7
  <2>1. i # k => jobs'[i] = jobs[i]
    BY DEF Cancel, Output, ClaimNext, FinishRunning, Inv, TypeOK
  <2>2. CASE i = k
    <3>1. CASE Cancel(i)
      BY <1>1, <3>1 DEF Cancel, Running, Queued, Inv, TypeOK, JobRow
    <3>2. CASE \E w \in Worker : Output(i, w)
      BY <1>1, <3>2 DEF Output, Running, Queued, Inv, TypeOK, JobRow
    <3>3. CASE \E w \in Worker : ClaimNext(w, i)
      <4> PICK w \in Worker : jobs' = [jobs EXCEPT ![i] = [jobs[i] EXCEPT !.status = "running", !.worker_id = w]]
        BY <3>3 DEF ClaimNext
      <4> QED BY <1>1 DEF Queued, Inv, TypeOK, JobRow
    <3>4. CASE \E w \in Worker, s \in {"succeeded", "failed"} : FinishRunning(i, w, s)
      <4> PICK s \in {"succeeded", "failed"}, e \in {"null", "reported"} :
             jobs' = [jobs EXCEPT ![i] = [jobs[i] EXCEPT !.status = s, !.error = e]]
        BY <3>4 DEF FinishRunning
      <4> QED BY <1>1 DEF Queued, Inv, TypeOK, JobRow
    <3> QED BY <2>2, <3>1, <3>2, <3>3, <3>4
  <2> QED BY <2>1, <2>2, <1>2
<1>8. CASE AdminStep
  <2>1. CASE \/ List \/ Clear \/ RemoveAll
             \/ \E targets \in (SUBSET JobId) \ {{}} : Remove(targets)
    BY <2>1, <1>4 DEF List, Clear, RemoveAll, Remove
  <2>2. CASE \E w \in Worker, p \in {0, 1} : SetWorkerPaused(w, p)
    BY <2>2, <1>2 DEF SetWorkerPaused
  <2> QED BY <1>8, <2>1, <2>2, <1>3, <1>5, <1>6, <1>7 DEF AdminStep, Reorders
<1>9. CASE WorkerStep
  <2>1. \/ UNCHANGED jobs
        \/ \E k \in JobId, w \in Worker :
             Output(k, w) \/ ClaimNext(w, k) \/ \E s \in {"succeeded", "failed"} : FinishRunning(k, w, s)
    BY <1>9 DEF WorkerStep, Register, Heartbeat, Claim, ClaimHeld, ClaimNothing, Finish,
                FinishAgain, vars
  <2> QED BY <2>1, <1>2, <1>7
<1> QED BY <1>2, <1>8, <1>9 DEF Next, Tick, vars

\* Urgent and swap make no failed job wait.
LEMMA ReorderQueuesNothing ==
  ASSUME Inv, Reorders, NEW i \in JobId, Failed(i)
  PROVE  ~Queued(i)'
<1>1. CASE \E ids \in Batches : Urgent(ids)
  BY <1>1 DEF Urgent, Queued, Failed
<1>2. CASE \E a, b \in JobId : Swap(a, b)
  <2> PICK a \in JobId, b \in JobId : Swap(a, b)
    BY <1>2
  <2>1. i # a /\ i # b
    BY DEF Swap, Queued, Failed
  <2> QED BY <2>1 DEF Swap, Queued, Failed, Inv, TypeOK
<1> QED BY <1>1, <1>2 DEF Reorders

\* Only urgent and swap change which of two waiting jobs comes first, and a
\* retried job waits behind every job that was waiting already.
THEOREM WaitingOrderAlwaysKept == Spec => WaitingOrderKept
<1>1. ASSUME Inv, [Next]_vars PROVE OnlyReorderOvertakes
  <2>1. \A i \in JobId : Queued(i) /\ Queued(i)' /\ ~Reorders
                           => jobs'[i].queue_position = jobs[i].queue_position
    BY <1>1, WaitingRowKept
  <2> QED BY <2>1 DEF OnlyReorderOvertakes, Before, Reorders
<1>2. ASSUME Inv, [Next]_vars PROVE RetriedJobsWaitLast
  <2> SUFFICES ASSUME NEW i \in JobId, NEW k \in JobId,
                      Failed(i), Queued(i)', Queued(k), Queued(k)'
               PROVE  Before(k, i)'
    BY DEF RetriedJobsWaitLast
  <2>1. ~Reorders
    BY <1>2, ReorderQueuesNothing
  <2>2. jobs[k].queue_position < jobs'[i].queue_position
    BY <1>2, <2>1, WaitingRowKept, RetryGoesLast DEF Queued, Exists
  <2>3. jobs'[k].queue_position = jobs[k].queue_position
    BY <1>2, <2>1, WaitingRowKept
  <2> QED BY <2>2, <2>3 DEF Before
<1>3. Inv /\ [Next]_vars => [OnlyReorderOvertakes /\ RetriedJobsWaitLast]_vars
  BY <1>1, <1>2
<1> QED BY <1>3, Invariance, PTL DEF Spec, WaitingOrderKept
=============================================================================
