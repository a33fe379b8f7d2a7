----------------------------- MODULE Scheduler -----------------------------
(***************************************************************************)
(* The queue of one controller: class Scheduler of                         *)
(* controller/src/jobs/scheduler.ts, with the batch routes of              *)
(* controller/src/api/router.ts and batch.ts.                              *)
(*                                                                         *)
(* A queue is one Durable Object with one SQLite database.  Every method   *)
(* of Scheduler is synchronous, and a batch route calls them in a loop     *)
(* without awaiting, so a whole request is one atomic step here.           *)
(*                                                                         *)
(* The requests come from anybody at any time: a worker may report on any  *)
(* job, late, twice or never.  A request that the code refuses (404, 409)  *)
(* changes nothing, so it has no step of its own, except where the handler *)
(* changes the tables before it refuses.                                   *)
(***************************************************************************)
EXTENDS Integers, Sequences, FiniteSets

CONSTANTS Worker,        \* the worker identities that may register
          None,          \* NULL in the column jobs.worker_id
          WorkerTimeout, \* workerTimeoutMs, in ticks of the clock
          MaxSequence,   \* bound: how many jobs may be submitted in a row
          MaxUrgent,     \* bound: how far below zero a queue_position may go
          MaxPosition,   \* bound: the highest queue_position
          MaxBatch       \* bound: the targets of one batch request

ASSUME SchedulerConstants ==
  /\ None \notin Worker
  /\ WorkerTimeout \in Nat \ {0}
  /\ MaxSequence \in Nat
  /\ MaxUrgent \in Nat
  /\ MaxPosition \in Nat
  /\ MaxBatch \in Nat \ {0}

VARIABLES jobs,      \* table jobs: the row of each job id
          workers,   \* table workers: the row of each worker id
          sequence,  \* the AUTOINCREMENT counter kept in sqlite_sequence
          silence    \* ticks since last_heartbeat, counted up to WorkerTimeout

vars == <<jobs, workers, sequence, silence>>

-----------------------------------------------------------------------------
(***************************************************************************)
(* The tables.  A row that does not exist has status "absent".  An id is   *)
(* the decimal form of its sequence number, so one number stands for both. *)
(* Commands, host names, timestamps and token expiry never decide anything *)
(* in the scheduler and are left out.                                      *)
(***************************************************************************)
JobId    == 1..MaxSequence
NoJob    == 0                       \* NULL in workers.current_job_id
Position == (-MaxUrgent)..MaxPosition

JobRow == [status           : {"absent", "queued", "running", "succeeded", "failed"},
           worker_id        : Worker \cup {None},
           cancel_requested : {0, 1},
           error            : {"null", "reported", "disconnected"},
           output_path      : {"null", "path"},
           queue_position   : Int]

WorkerRow == [status         : {"absent", "idle", "busy"},
              current_job_id : JobId \cup {NoJob},
              paused         : {0, 1}]

\* Every column of a job at the default the schema gives it.
Row(status, position) ==
  [status |-> status, worker_id |-> None, cancel_requested |-> 0,
   error |-> "null", output_path |-> "null", queue_position |-> position]

AbsentJob    == Row("absent", 0)
AbsentWorker == [status |-> "absent", current_job_id |-> NoJob, paused |-> 0]

Queued(i)     == jobs[i].status = "queued"
Running(i)    == jobs[i].status = "running"
Exists(i)     == jobs[i].status # "absent"
Registered(w) == workers[w].status # "absent"

\* ORDER BY queue_position, sequence
Before(i, k) == \/ jobs[i].queue_position < jobs[k].queue_position
                \/ /\ jobs[i].queue_position = jobs[k].queue_position
                   /\ i < k

\* Mutant: the maximum leaves out the waiting jobs.
IsMaxFinishedPosition(m) ==
  /\ \E i \in JobId : Exists(i) /\ ~Queued(i) /\ jobs[i].queue_position = m
  /\ \A i \in JobId : Exists(i) /\ ~Queued(i) => jobs[i].queue_position <= m

\* SELECT MAX(queue_position) FROM jobs
IsMaxPosition(m) ==
  /\ \E i \in JobId : Exists(i) /\ jobs[i].queue_position = m
  /\ \A i \in JobId : Exists(i) => jobs[i].queue_position <= m

\* SELECT MIN(queue_position) FROM jobs WHERE status = 'queued'
IsMinQueuedPosition(m) ==
  /\ \E i \in JobId : Queued(i) /\ jobs[i].queue_position = m
  /\ \A i \in JobId : Queued(i) => m <= jobs[i].queue_position

-----------------------------------------------------------------------------
(* Stale cleanup: what expireWorkers makes of the two tables.              *)

Stale(w) == Registered(w) /\ silence[w] = WorkerTimeout

\* Mutant: the age of the heartbeat is not compared.
AnyRunning(i) == Running(i)

Abandoned(i) == Running(i) /\ \E w \in Worker : jobs[i].worker_id = w /\ Stale(w)

\* Mutant: expiry keeps a pending cancellation.
ExpiredWithCancel ==
  [i \in JobId |-> IF Abandoned(i)
                   THEN [jobs[i] EXCEPT !.status = "failed", !.error = "disconnected"]
                   ELSE jobs[i]]

ExpiredJobs ==
  [i \in JobId |->
     IF Abandoned(i)
     THEN [jobs[i] EXCEPT !.status = "failed", !.error = "disconnected",
                          !.cancel_requested = 0]
     ELSE jobs[i]]

\* Mutant: expiry leaves the assignment in the row of the worker.
IdledWorkers ==
  [w \in Worker |-> IF Stale(w) THEN [workers[w] EXCEPT !.status = "idle"]
                    ELSE workers[w]]

ReleasedWorkers ==
  [w \in Worker |->
     IF Stale(w)
     THEN [workers[w] EXCEPT !.status = "idle", !.current_job_id = NoJob]
     ELSE workers[w]]

-----------------------------------------------------------------------------
(* Requests of the command line.                                           *)

\* A new job takes the next sequence number, also as its queue_position.
Submit ==
  /\ sequence < MaxSequence
  /\ sequence' = sequence + 1
  /\ jobs' = [jobs EXCEPT ![sequence + 1] = Row("queued", sequence + 1)]
  /\ UNCHANGED <<workers, silence>>

\* Listing jobs expires the workers first; the page it returns is not state.
List ==
  /\ jobs' = ExpiredJobs
  /\ workers' = ReleasedWorkers
  /\ UNCHANGED <<sequence, silence>>

\* Mutant: the numbering always starts again.
ClearAlwaysResets ==
  /\ workers' = ReleasedWorkers
  /\ jobs' = [i \in JobId |->
                IF ExpiredJobs[i].status \in {"succeeded", "failed"}
                THEN AbsentJob ELSE ExpiredJobs[i]]
  /\ sequence' = 0
  /\ UNCHANGED silence

\* The numbering starts again only when no row at all is left.
Clear ==
  /\ workers' = ReleasedWorkers
  /\ jobs' = [i \in JobId |->
                IF ExpiredJobs[i].status \in {"succeeded", "failed"}
                THEN AbsentJob ELSE ExpiredJobs[i]]
  /\ sequence' = IF \A i \in JobId : jobs'[i].status = "absent"
                 THEN 0 ELSE sequence
  /\ UNCHANGED silence

RemoveAll ==
  /\ workers' = ReleasedWorkers
  /\ jobs' = [i \in JobId |-> IF ExpiredJobs[i].status = "running"
                              THEN ExpiredJobs[i] ELSE AbsentJob]
  /\ UNCHANGED <<sequence, silence>>

\* DELETE /jobs/:id and POST /jobs/remove.  A running or unknown target is
\* refused, but the expiry that comes first stays.
Remove(targets) ==
  /\ workers' = ReleasedWorkers
  /\ jobs' = [i \in JobId |->
                IF i \in targets /\ ExpiredJobs[i].status # "running"
                THEN AbsentJob ELSE ExpiredJobs[i]]
  /\ UNCHANGED <<sequence, silence>>

\* One iteration of the loop in retry gives a job the highest position of
\* the table plus one, so the n-th job retried gets the old maximum plus n.
Requeue(Chosen(_), Rank(_)) ==
  \E m \in Position :
    /\ IsMaxPosition(m)
    /\ m + Cardinality({i \in JobId : Chosen(i)}) \in Position
    /\ jobs' = [i \in JobId |->
                  IF Chosen(i) THEN Row("queued", m + Rank(i)) ELSE jobs[i]]

Failed(i) == jobs[i].status = "failed"

\* POST /jobs/retry-all: every failed job, in queue order.
RetryAll ==
  /\ Requeue(Failed, LAMBDA i : Cardinality({k \in JobId :
                                    Failed(k) /\ (Before(k, i) \/ k = i)}))
  /\ UNCHANGED <<workers, sequence, silence>>

\* The targets of a batch request, each once, in the order of the arguments.
Batches == {ids \in UNION {[1..n -> JobId] : n \in 1..MaxBatch} :
              \A m, n \in DOMAIN ids : ids[m] = ids[n] => m = n}

\* How many targets up to and including i satisfy P.
RankIn(ids, P(_), i) ==
  Cardinality({n \in DOMAIN ids :
                 P(ids[n]) /\ \E m \in DOMAIN ids : ids[m] = i /\ n <= m})

\* POST /jobs/:id/retry and POST /jobs/retry, in the order of the arguments.
Retry(ids) ==
  /\ Requeue(LAMBDA i : Failed(i) /\ \E n \in DOMAIN ids : ids[n] = i,
             LAMBDA i : RankIn(ids, Failed, i))
  /\ UNCHANGED <<workers, sequence, silence>>

\* POST /jobs/:id/urgent and POST /jobs/urgent.  The batch runs backwards and
\* each queued target takes the lowest queued position minus one, so a target
\* ends as far below the old minimum as there are queued targets from it on.
Urgent(ids) ==
  /\ \E m \in Position :
       LET From(i) == Cardinality({n \in DOMAIN ids :
                        Queued(ids[n]) /\ \E k \in DOMAIN ids : ids[k] = i /\ k <= n})
       IN  /\ IsMinQueuedPosition(m)
           /\ m - Len(ids) \in Position
           /\ jobs' = [i \in JobId |->
                         IF Queued(i) /\ \E n \in DOMAIN ids : ids[n] = i
                         THEN [jobs[i] EXCEPT !.queue_position = m - From(i)]
                         ELSE jobs[i]]
  /\ UNCHANGED <<workers, sequence, silence>>

\* POST /jobs/swap
Swap(i, k) ==
  /\ Queued(i) /\ Queued(k)
  /\ jobs' = [jobs EXCEPT ![i].queue_position = jobs[k].queue_position,
                          ![k].queue_position = jobs[i].queue_position]
  /\ UNCHANGED <<workers, sequence, silence>>

Cancel(i) ==
  /\ Running(i)
  /\ jobs' = [jobs EXCEPT ![i].cancel_requested = 1]
  /\ UNCHANGED <<workers, sequence, silence>>

\* Mutant: pauses are counted.
CountPauses(w, paused) ==
  /\ Registered(w)
  /\ workers' = [workers EXCEPT ![w].paused = @ + 2 * paused - 1]
  /\ UNCHANGED <<jobs, sequence, silence>>

\* The flag is set on a row found by its id or by a unique prefix of it.
SetWorkerPaused(w, paused) ==
  /\ Registered(w)
  /\ workers' = [workers EXCEPT ![w].paused = paused]
  /\ UNCHANGED <<jobs, sequence, silence>>

-----------------------------------------------------------------------------
(* Requests of the workers.                                                *)

Heard(w) == silence' = [silence EXCEPT ![w] = 0]

\* Registering again keeps the assignment and the pause flag.
Register(w) ==
  /\ workers' = IF Registered(w) THEN workers
                ELSE [workers EXCEPT ![w] = [AbsentWorker EXCEPT !.status = "idle"]]
  /\ Heard(w)
  /\ UNCHANGED <<jobs, sequence>>

\* Mutant: any job the worker has run may be named.
CancelAnyOwned(w) ==
  LET asked == {i \in JobId : jobs[i].worker_id = w /\ jobs[i].cancel_requested = 1}
  IN  IF asked = {} THEN NoJob ELSE CHOOSE i \in asked : \A k \in asked : i <= k

\* The job a heartbeat asks its worker to cancel, if any.
CancelJobId(w) ==
  LET i == workers[w].current_job_id
  IN  IF i # NoJob /\ jobs[i].cancel_requested = 1 THEN i ELSE NoJob

Heartbeat(w) ==
  /\ Registered(w)
  /\ Heard(w)
  /\ UNCHANGED <<jobs, workers, sequence>>

\* A claim hands out an assignment the worker holds already, ...
ClaimHeld(w) ==
  /\ Registered(w)
  /\ workers[w].current_job_id # NoJob
  /\ Heard(w)
  /\ UNCHANGED <<jobs, workers, sequence>>

\* ... or finds nothing to hand out, ...
ClaimNothing(w) ==
  /\ Registered(w)
  /\ workers[w].current_job_id = NoJob
  /\ workers[w].paused = 1 \/ \A i \in JobId : ~Queued(i)
  /\ Heard(w)
  /\ UNCHANGED <<jobs, workers, sequence>>

\* Mutant: the pause flag is not looked at.
ClaimPaused(w, i) ==
  /\ Registered(w)
  /\ workers[w].current_job_id = NoJob
  /\ Queued(i) /\ \A k \in JobId : Queued(k) => k = i \/ Before(i, k)
  /\ jobs' = [jobs EXCEPT ![i] = [@ EXCEPT !.status = "running", !.worker_id = w]]
  /\ workers' = [workers EXCEPT ![w] = [@ EXCEPT !.status = "busy", !.current_job_id = i]]
  /\ Heard(w)
  /\ UNCHANGED sequence

\* ... or assigns the first queued job.
ClaimNext(w, i) ==
  /\ Registered(w)
  /\ workers[w].current_job_id = NoJob
  /\ workers[w].paused = 0
  /\ Queued(i) /\ \A k \in JobId : Queued(k) => k = i \/ Before(i, k)
  /\ jobs' = [jobs EXCEPT ![i] = [@ EXCEPT !.status = "running", !.worker_id = w]]
  /\ workers' = [workers EXCEPT ![w] = [@ EXCEPT !.status = "busy", !.current_job_id = i]]
  /\ Heard(w)
  /\ UNCHANGED sequence

Claim(w) == ClaimHeld(w) \/ ClaimNothing(w) \/ \E i \in JobId : ClaimNext(w, i)

\* Mutant: reports are taken from any worker.
OwnedByAnyone(i, w) == Exists(i) /\ jobs[i].worker_id # None

\* ownedJob
Owned(i, w) == Exists(i) /\ jobs[i].worker_id = w

Output(i, w) ==
  /\ Owned(i, w) /\ Running(i)
  /\ jobs' = [jobs EXCEPT ![i].output_path = "path"]
  /\ UNCHANGED <<workers, sequence, silence>>

\* A report that finds its own outcome recorded already is accepted again.
FinishAgain(i, w, status) ==
  /\ Owned(i, w)
  /\ ~(Failed(i) /\ jobs[i].error = "disconnected")
  /\ jobs[i].status = status
  /\ UNCHANGED vars

FinishRunning(i, w, status) ==
  /\ Owned(i, w) /\ Running(i) /\ Registered(w)
  /\ jobs' = [jobs EXCEPT ![i] =
                [@ EXCEPT !.status = status,
                          !.error = IF status = "succeeded" THEN "null" ELSE "reported"]]
  /\ workers' = [workers EXCEPT ![w] = [@ EXCEPT !.status = "idle", !.current_job_id = NoJob]]
  /\ UNCHANGED <<sequence, silence>>

\* POST /jobs/:id/complete and POST /jobs/:id/fail
Finish(i, w, status) == FinishAgain(i, w, status) \/ FinishRunning(i, w, status)

-----------------------------------------------------------------------------
\* Time passes.  A worker is stale when its last heartbeat is WorkerTimeout old.
Tick ==
  /\ silence' = [w \in Worker |->
                   IF Registered(w) /\ silence[w] < WorkerTimeout
                   THEN silence[w] + 1 ELSE silence[w]]
  /\ UNCHANGED <<jobs, workers, sequence>>

Init ==
  /\ jobs = [i \in JobId |-> AbsentJob]
  /\ workers = [w \in Worker |-> AbsentWorker]
  /\ sequence = 0
  /\ silence = [w \in Worker |-> 0]

AdminStep ==
  \/ Submit \/ List \/ Clear \/ RemoveAll \/ RetryAll
  \/ \E targets \in (SUBSET JobId) \ {{}} : Remove(targets)
  \/ \E ids \in Batches : Retry(ids) \/ Urgent(ids)
  \/ \E i, k \in JobId : Swap(i, k)
  \/ \E i \in JobId : Cancel(i)
  \/ \E w \in Worker, paused \in {0, 1} : SetWorkerPaused(w, paused)

WorkerStep ==
  \E w \in Worker :
    \/ Register(w) \/ Heartbeat(w) \/ Claim(w)
    \/ \E i \in JobId : Output(i, w)
    \/ \E i \in JobId, status \in {"succeeded", "failed"} : Finish(i, w, status)

Next == AdminStep \/ WorkerStep \/ Tick

Spec == Init /\ [][Next]_vars

-----------------------------------------------------------------------------
(* What must hold of the tables.                                           *)

\* Every column keeps to the values its CHECK clause and its writers allow.
TypeOK ==
  /\ jobs \in [JobId -> JobRow]
  /\ workers \in [Worker -> WorkerRow]
  /\ sequence \in 0..MaxSequence
  /\ silence \in [Worker -> 0..WorkerTimeout]

\* The two tables tell the same story: a worker's current_job_id names a job
\* exactly when that job runs on that worker, and the worker is then busy.
\* This is why job(current_job_id) never fails in heartbeat and claim, why the
\* unique index jobs_running_worker never rejects a claim, and why finish,
\* which clears current_job_id without looking, releases no other assignment.
AssignmentsAgree ==
  /\ \A i \in JobId : Running(i) => jobs[i].worker_id \in Worker
  /\ \A w \in Worker, i \in JobId :
       workers[w].current_job_id = i <=> Running(i) /\ jobs[i].worker_id = w
  /\ \A w \in Worker : workers[w].status = "busy" <=> workers[w].current_job_id # NoJob

\* A row shows the details of its own run and of no earlier one: a queued job
\* carries nothing of a previous attempt, an error is there exactly when the
\* job has failed, and a disconnected job shows no pending cancellation.
DetailsMatch(i) ==
  /\ Exists(i) /\ ~Queued(i) <=> jobs[i].worker_id \in Worker
  /\ Queued(i) => jobs[i] = Row("queued", jobs[i].queue_position)
  /\ jobs[i].error # "null" <=> Failed(i)
  /\ jobs[i].error = "disconnected" => jobs[i].cancel_requested = 0

RunDetailsMatch == \A i \in JobId : DetailsMatch(i)

\* A pending cancellation is handed out by the next heartbeat of the worker
\* that runs the job, and no heartbeat names a job of another worker.
CancelReachesHolder ==
  /\ \A i \in JobId : Running(i) /\ jobs[i].cancel_requested = 1
                        => CancelJobId(jobs[i].worker_id) = i
  /\ \A w \in Worker : CancelJobId(w) # NoJob
                        => Running(CancelJobId(w)) /\ jobs[CancelJobId(w)].worker_id = w

\* Rows keep the ids the counter has given out, so an insertion never meets
\* an existing row, also after clear has started the numbering again.
IdsBelowSequence == \A i \in JobId : Exists(i) => i <= sequence

\* Only urgent and swap change which of two waiting jobs comes first.
OnlyReorderOvertakes ==
  \A i, k \in JobId :
    /\ Queued(i) /\ Queued(k) /\ Before(i, k)
    /\ Queued(i)' /\ Queued(k)' /\ ~Before(i, k)'
    => \/ \E ids \in Batches : Urgent(ids)
       \/ \E a, b \in JobId : Swap(a, b)

\* A retried job waits behind every job that was waiting already
\* (controller/README.md: retries "append jobs behind queued work").
RetriedJobsWaitLast ==
  \A i, k \in JobId :
    Failed(i) /\ Queued(i)' /\ Queued(k) /\ Queued(k)' => Before(k, i)'

\* The order of waiting jobs is changed by nobody but those who ask for it.
WaitingOrderKept == [][OnlyReorderOvertakes /\ RetriedJobsWaitLast]_vars

\* The pause flag survives everything but an explicit resume, and while it is
\* set the worker keeps or loses its assignment and never gets another.
PauseRespected ==
  [][\A w \in Worker :
       workers[w].paused = 1 =>
         /\ workers'[w].paused = 1 \/ SetWorkerPaused(w, 0)
         /\ workers'[w].current_job_id \in {workers[w].current_job_id, NoJob}]_vars

\* The tables implement the life of a job: a failed row whose error says that
\* the worker disconnected is a lost job.
Phase(i) == IF jobs[i].error = "disconnected" THEN "lost" ELSE jobs[i].status

Lifecycle == INSTANCE JobLifecycle
               WITH Job    <- JobId,
                    status <- [i \in JobId |-> Phase(i)],
                    holder <- [i \in JobId |-> jobs[i].worker_id],
                    silent <- {w \in Worker : Stale(w)}

\* No interleaving of requests gives a worker two jobs, moves a running job to
\* another worker, gives up the run of a worker that is not silent, or replaces
\* a recorded outcome other than by retry or deletion.
ImplementsLifecycle == Lifecycle!Spec

-----------------------------------------------------------------------------
(* What the documentation says of the order of the queue and the code does *)
(* not keep: see the findings in README.md.                                *)

\* A submitted job waits behind every job that was waiting already
\* (controller/README.md: "Claims follow FIFO unless reordered").
SubmittedJobsWaitLast ==
  [][\A i, k \in JobId :
       ~Exists(i) /\ Queued(i)' /\ Queued(k) /\ Queued(k)' => Before(k, i)']_vars
=============================================================================
