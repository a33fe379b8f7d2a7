------------------------- MODULE RemoteWorkerProofs -------------------------
(***************************************************************************)
(* Proofs about the worker daemons and their controller, for every number  *)
(* of daemons, jobs, starts, runs and late requests.                       *)
(*                                                                         *)
(* That no run is launched twice takes an argument over both sides: what a *)
(* daemon still knows of its run, who may know of it, and where the daemon *)
(* can be once the run it holds has been launched.                         *)
(***************************************************************************)
EXTENDS RemoteWorker, SchedulerRefinement

USE SchedulerConstants, RemoteWorkerConstants

-----------------------------------------------------------------------------
(* The inductive invariant.                                                *)

\* The job a daemon has been told of, or handles.
Task(d) == IF d.phase \in {"register", "claim"} THEN d.answer ELSE d.job

\* The fields of a daemon fit its phase.
Shaped(d) ==
  /\ d \in Daemon
  /\ d.phase \in {"down", "register", "claim"} <=> d.job = NoJob
  /\ d.phase \in {"down", "claimed", "launch", "running"} => d.call = "unsent"
  /\ d.answer # NoJob => d.phase \in {"register", "claim"} /\ d.call = "accepted"
  /\ d.phase \in {"register", "claim"} => d.call # "refused"
  /\ d.result = "succeeded" => d.phase = "report"

\* A daemon names a run of its job that there has been.
Knows(d, k) == Task(d) = k => d.attempt <= run[k].count

\* Daemon w executes the latest run of job k, as far as it knows.
Executes(w, k) == Task(daemon[w]) = k /\ daemon[w].attempt = run[k].count

\* The controller agrees while the job runs.
Owns(w, k) == Executes(w, k) /\ Running(k) => jobs[k].worker_id = w

\* Nothing has been launched while the daemon is on its way to do so.
Unlaunched(w, k) ==
  Executes(w, k) /\ daemon[w].phase \in {"claim", "claimed", "output", "launch"}
    => run[k].launched = 0

\* Where a daemon is when run n of job k has been launched and not reported: it
\* runs or reports the job, it has lost its memory and will be told of the job
\* by the registration, or it makes no requests any more.
Past(d, k, n) ==
  \/ d.phase = "down"
  \/ d.phase = "register" /\ (d.call = "accepted" => d.answer = k /\ d.attempt = n)
  \/ /\ d.phase \in {"recover", "running", "report"} /\ d.call \in {"unsent", "sent"}
     /\ d.job = k /\ d.attempt = n
  \/ d.phase = "claim" /\ d.call = "unsent" /\ d.disabled

LaunchedPast(w, k) ==
  Holds(w, k) /\ run[k].launched # 0 => Past(daemon[w], k, run[k].count)

\* One daemon and one job.
Pair(w, k) == Knows(daemon[w], k) /\ Owns(w, k) /\ Unlaunched(w, k) /\ LaunchedPast(w, k)

\* No two daemons execute the same run.
OneExecutor == \A v, w \in Worker, k \in JobId : Executes(v, k) /\ Executes(w, k) => v = w

\* A request names a job where its route needs one.
Sendable(r) == r \in Request /\ (r.phase \in {"output", "recover", "report"} => r.job \in JobId)

DaemonsOK ==
  /\ daemon \in [Worker -> Daemon]
  /\ \A w \in Worker : Shaped(daemon[w])
  /\ heartbeat \in [Worker -> JobId \cup {NoJob}]
  /\ \A r \in late : Sendable(r)
  /\ starts \in [Worker -> 0..MaxStarts]

RunsOK == run \in [JobId -> Run] /\ LaunchedOnce

PairsOK == \A w \in Worker, k \in JobId : Pair(w, k)

SystemInv == Inv /\ DaemonsOK /\ RunsOK /\ PairsOK /\ OneExecutor

-----------------------------------------------------------------------------
(* The steps of the system are steps of the scheduler.                     *)

\* A job begins to run.
Begins(k) == ~Running(k) /\ Running(k)'

\* Users and time are steps of the scheduler, and begin no run.
LEMMA ElsewhereIsNext ==
  ASSUME Inv, Elsewhere PROVE Next /\ \A k \in JobId : ~Begins(k)
<1>1. CASE Submit
  <2>1. \A k \in JobId : ~Begins(k)
    BY <1>1, RowType DEF Begins, Submit, Running, Inv, TypeOK
  <2> QED BY <1>1, <2>1 DEF Next, AdminStep
<1>2. CASE List \/ Clear \/ \E i \in JobId : Remove({i})
  <2>1. \A k \in JobId : jobs'[k] = ExpiredJobs[k] \/ jobs'[k] = AbsentJob
    BY <1>2 DEF List, Clear, Remove
  <2>2. \A k \in JobId : ExpiredJobs[k].status = "running" => Running(k)
    BY DEF ExpiredJobs, Abandoned, Running
  <2>3. \A k \in JobId : ~Begins(k)
    BY <2>1, <2>2, AbsentJobType DEF Begins, Running
  <2>4. \A i \in JobId : {i} \in (SUBSET JobId) \ {{}}
    OBVIOUS
  <2> QED BY <1>2, <2>3, <2>4 DEF Next, AdminStep
<1>3. CASE \E i \in JobId : Retry(<<i>>)
  <2>1. \E ids \in Batches : Retry(ids)
    BY <1>3, BatchOfOne
  <2>2. \A k \in JobId : ~Begins(k)
    BY <2>1, RetryRows, RowType DEF Begins, Running
  <2> QED BY <2>1, <2>2 DEF Next, AdminStep
<1>4. CASE \E i \in JobId : Cancel(i)
  <2>1. \A k \in JobId : ~Begins(k)
    BY <1>4 DEF Begins, Cancel, Running, Inv, TypeOK
  <2> QED BY <1>4, <2>1 DEF Next, AdminStep
<1>5. CASE Tick
  BY <1>5 DEF Tick, Begins, Running, Next
<1> QED BY <1>1, <1>2, <1>3, <1>4, <1>5 DEF Elsewhere

\* So are the requests of the daemons.  A run begins with a claim alone, and
\* within the bound.
LEMMA HandleIsNext ==
  ASSUME Inv, NEW r, Sendable(r), Handle(r)
  PROVE  /\ [Next]_vars
         /\ \A k \in JobId : Begins(k) => r.phase = "claim" /\ run[k].count < MaxRuns
<1>1. r.from \in Worker /\ r.status \in {"succeeded", "failed"} /\ r.phase \in RequestPhases
  BY DEF Sendable, Request
<1>2. CASE UNCHANGED vars
  BY <1>2 DEF vars, Begins, Running
<1>3. CASE r.phase = "register" /\ Register(r.from)
  BY <1>1, <1>3 DEF Register, Begins, Running, Next, WorkerStep
<1>4. CASE /\ r.phase = "claim" /\ Claim(r.from)
           /\ workers[r.from].current_job_id # NoJob \/ \A i \in JobId : run[i].count < MaxRuns
  <2>1. Next
    BY <1>1, <1>4 DEF Next, WorkerStep
  <2>2. CASE ClaimHeld(r.from) \/ ClaimNothing(r.from)
    BY <2>1, <2>2 DEF ClaimHeld, ClaimNothing, Begins, Running
  <2>3. CASE \E i \in JobId : ClaimNext(r.from, i)
    BY <1>4, <2>1, <2>3 DEF ClaimNext
  <2> QED BY <1>4, <2>2, <2>3 DEF Claim
<1>5. CASE r.phase = "output" /\ Output(r.job, r.from)
  <2>1. r.job \in JobId
    BY <1>5 DEF Sendable
  <2>2. Next
    BY <1>1, <1>5, <2>1 DEF Next, WorkerStep
  <2>3. \A k \in JobId : ~Begins(k)
    BY <1>5, <2>1 DEF Begins, Output, Running, Inv, TypeOK
  <2> QED BY <2>2, <2>3
<1>6. CASE Reports(r) /\ Finish(r.job, r.from, r.status)
  <2>1. r.job \in JobId
    BY <1>6 DEF Sendable, Reports
  <2>2. Next
    BY <1>1, <1>6, <2>1 DEF Next, WorkerStep
  <2>3. \A k \in JobId : ~Begins(k)
    BY <1>1, <1>6, <2>1 DEF Begins, Finish, FinishAgain, FinishRunning, vars, Running, Inv, TypeOK
  <2> QED BY <2>2, <2>3
<1> QED BY <1>2, <1>3, <1>4, <1>5, <1>6 DEF Handle, CarryOut

\* The request a daemon waits for.
LEMMA RequestSendable ==
  ASSUME DaemonsOK, NEW w \in Worker, daemon[w].call = "sent"
  PROVE  Sendable(RequestOf(w)) /\ RequestOf(w).phase = daemon[w].phase
         /\ RequestOf(w).from = w /\ RequestOf(w).job = daemon[w].job
<1> DEFINE d == daemon[w]
<1>1. Shaped(d) /\ d \in Daemon
  BY DEF DaemonsOK, Shaped
<1>2. d.phase \in RequestPhases
  BY <1>1 DEF Shaped, Daemon, Phases
<1>3. d.phase \in {"output", "recover", "report"} => d.job \in JobId
  BY <1>1 DEF Shaped, Daemon
<1>4. RequestOf(w) = [from |-> w, phase |-> d.phase, job |-> d.job, status |-> Status(d),
                      attempt |-> d.attempt]
  BY DEF RequestOf
<1>5. d.job \in JobId \cup {NoJob} /\ d.attempt \in 0..MaxRuns
      /\ Status(d) \in {"succeeded", "failed"}
  BY <1>1 DEF Daemon, Status
<1> QED BY <1>2, <1>3, <1>4, <1>5 DEF Sendable, Request

-----------------------------------------------------------------------------
(* What a step makes of the runs.                                          *)

\* A new run, ...
NewRun(k) ==
  /\ Begins(k)
  /\ run'[k] \in Run /\ run'[k].count = run[k].count + 1
  /\ run'[k].launched = 0

\* ... or the same one, with the same worker while it lasts.
SameRun(k) ==
  /\ Running(k)' => Running(k) /\ jobs'[k].worker_id = jobs[k].worker_id
  /\ run'[k] \in Run /\ run'[k].count = run[k].count
  /\ run'[k].launched = run[k].launched

\* No step of the scheduler moves a running job to another worker.
LEMMA RunningStays ==
  ASSUME Inv, [Next]_vars, NEW k \in JobId, Running(k), Running(k)'
  PROVE  jobs'[k].worker_id = jobs[k].worker_id
<1>1. Inv'
  BY NextInv
<1>2. Move(k)
  BY <1>1, EveryJobMoves
<1>3. Phase(k) = "running" /\ Phase(k)' = "running"
  <2>1. Phase(k) = "running"
    BY PhaseOfStatus
  <2>2. jobs'[k].error # "disconnected"
    BY <1>1 DEF Inv, RunDetailsMatch, DetailsMatch, Running, Failed
  <2> QED BY <2>1, <2>2 DEF Phase, Running
<1> QED BY <1>2, <1>3, MovesOfRows DEF Move, Holder

\* What is remembered of the runs follows the tables.
LEMMA RunsFollow ==
  ASSUME Inv, RunsOK, [Next]_vars, Remember,
         \A k \in JobId : Begins(k) => run[k].count < MaxRuns
  PROVE  /\ \A k \in JobId : NewRun(k) \/ SameRun(k)
         /\ RunsOK'
<1>1. /\ run \in [JobId -> Run]
      /\ \A k \in JobId : run[k] \in Run /\ run[k].launched <= 1
  BY DEF RunsOK, LaunchedOnce
<1>2. ASSUME NEW k \in JobId PROVE NewRun(k) \/ SameRun(k)
  <2>1. CASE Begins(k)
    <3>1. run'[k] = [count |-> run[k].count + 1, launched |-> 0, ended |-> "no", asked |-> FALSE]
      BY <2>1 DEF Remember, Begins, Running
    <3>2. run[k].count + 1 \in 0..MaxRuns
      BY <1>1, <2>1 DEF Run
    <3>3. NewRun(k)
      BY <2>1, <3>1, <3>2 DEF NewRun, Run
    <3> QED BY <3>3
  <2>2. CASE ~Begins(k)
    <3> DEFINE now == jobs'[k].status = "running" /\ jobs'[k].cancel_requested = 1
    <3>1. run'[k] = [run[k] EXCEPT !.asked = run[k].asked \/ now]
      BY <2>2 DEF Remember, Begins, Running
    <3>2. now \in BOOLEAN
      OBVIOUS
    <3> HIDE DEF now
    <3>3. /\ run'[k] \in Run /\ run'[k].count = run[k].count
          /\ run'[k].launched = run[k].launched
      BY <1>1, <3>1, <3>2 DEF Run
    <3>4. Running(k)' => Running(k) /\ jobs'[k].worker_id = jobs[k].worker_id
      BY <2>2, RunningStays DEF Begins
    <3>5. SameRun(k)
      BY <3>3, <3>4 DEF SameRun
    <3> QED BY <3>5
  <2> QED BY <2>1, <2>2
<1>3. \A k \in JobId : run'[k] \in Run /\ run'[k].launched <= 1
  BY <1>1, <1>2 DEF NewRun, SameRun
<1>4. run' \in [JobId -> Run]
  <2>1. DOMAIN run' = JobId /\ run' = [k \in JobId |-> run'[k]]
    BY DEF Remember
  <2> QED BY <1>3, <2>1
<1> QED BY <1>2, <1>3, <1>4 DEF RunsOK, LaunchedOnce

-----------------------------------------------------------------------------
(* The daemons that a step leaves alone.                                   *)

\* What a daemon executes, if anything.
LEMMA TaskType ==
  ASSUME NEW d, Shaped(d)
  PROVE  Task(d) \in JobId \cup {NoJob} /\ d.attempt \in 0..MaxRuns
BY DEF Shaped, Daemon, Task

\* A daemon that does not move still knows what it knew, whatever the tables do.
LEMMA PairStays ==
  ASSUME NEW w \in Worker, NEW k \in JobId, Pair(w, k), Shaped(daemon[w]), run[k] \in Run,
         daemon'[w] = daemon[w], NewRun(k) \/ SameRun(k)
  PROVE  Pair(w, k)' /\ (Executes(w, k)' => Executes(w, k))
<1>1. run[k].count \in Nat /\ daemon[w].attempt \in Nat
  BY TaskType DEF Run
<1>2. CASE NewRun(k)
  <2>1. ~Executes(w, k)' /\ Knows(daemon[w], k)'
    BY <1>1, <1>2 DEF NewRun, Executes, Knows, Pair
  <2>2. run'[k].launched = 0
    BY <1>2 DEF NewRun
  <2> QED BY <2>1, <2>2 DEF Pair, Owns, Unlaunched, LaunchedPast
<1>3. CASE SameRun(k)
  <2>1. Executes(w, k)' <=> Executes(w, k)
    BY <1>3 DEF SameRun, Executes
  <2>2. Knows(daemon[w], k)'
    BY <1>3 DEF SameRun, Knows, Pair
  <2>3. Owns(w, k)'
    BY <1>3, <2>1 DEF SameRun, Owns, Pair
  <2>4. Unlaunched(w, k)'
    BY <1>3, <2>1 DEF SameRun, Unlaunched, Pair
  <2>5. LaunchedPast(w, k)'
    BY <1>3 DEF SameRun, LaunchedPast, Holds, Pair
  <2> QED BY <2>1, <2>2, <2>3, <2>4, <2>5 DEF Pair
<1> QED BY <1>2, <1>3

-----------------------------------------------------------------------------
(* The steps of a job loop that neither ask the controller nor launch.     *)

BeforeLaunch == {"claim", "claimed", "output", "launch"}

\* A daemon goes from d to e: it learns of no run, it does not go back to the
\* time before a launch, it stays where a daemon may be after one, and only a
\* process that ran has succeeded.
Follows(d, e) ==
  /\ Shaped(e)
  /\ Task(e) # NoJob => /\ Task(e) = Task(d) /\ e.attempt = d.attempt
                        /\ e.phase \in BeforeLaunch => d.phase \in BeforeLaunch
  /\ \A k \in JobId, n \in Nat : Past(d, k, n) => Past(e, k, n)
  /\ e.phase = "running" => d.phase = "running"
  /\ e.result = "succeeded" => d.result = "succeeded" \/ d.phase = "running"

\* The fields that Goto sets.
LEMMA GotoFields ==
  ASSUME NEW d \in Daemon, NEW p \in Phases
  PROVE  LET e == Goto(d, p)
         IN  /\ e \in Daemon /\ e.phase = p /\ e.call = "unsent" /\ e.answer = NoJob
             /\ e.disabled = d.disabled /\ e.stopping = d.stopping
             /\ p = "claim" => e.job = NoJob /\ e.attempt = 0 /\ e.result = "none"
             /\ p # "claim" => e.job = d.job /\ e.attempt = d.attempt /\ e.result = d.result
<1>1. 0 \in 0..MaxRuns /\ NoJob \in JobId \cup {NoJob}
  OBVIOUS
<1>2. CASE p = "claim"
  <2>1. Goto(d, p) = [phase |-> p, call |-> "unsent", answer |-> NoJob, flagged |-> 0, job |-> NoJob,
                      attempt |-> 0, cause |-> "none", requested |-> d.requested,
                      result |-> "none", disabled |-> d.disabled, stopping |-> d.stopping]
    BY <1>2 DEF Goto, Daemon
  <2>2. /\ d.requested \in JobId \cup {NoJob}
        /\ d.disabled \in BOOLEAN /\ d.stopping \in BOOLEAN
    BY DEF Daemon
  <2>3. Goto(d, p) \in Daemon
    BY <1>1, <2>1, <2>2 DEF Daemon
  <2> QED BY <1>2, <2>1, <2>3
<1>3. CASE p # "claim"
  BY <1>1, <1>3 DEF Goto, Daemon
<1> QED BY <1>2, <1>3

\* A daemon that goes back to claim, or ends, has forgotten its run.
LEMMA ForgetsRun ==
  ASSUME NEW d, Shaped(d), NEW e \in Daemon,
         e.job = NoJob, e.answer = NoJob, e.call = "unsent", e.result = "none",
         e.phase = "down" \/ e.phase = "register" \/ (e.phase = "claim" /\ (e.disabled
             \/ \A k \in JobId, n \in Nat : ~Past(d, k, n)))
  PROVE  Follows(d, e)
<1>1. Task(e) = NoJob
  BY DEF Task
<1>2. Shaped(e)
  BY DEF Shaped
<1> QED BY <1>1, <1>2 DEF Follows, Past

\* A daemon that is down, or just started.
LEMMA DownFields ==
  ASSUME NEW p \in {"down", "register"}
  PROVE  LET e == [Down EXCEPT !.phase = p]
         IN  /\ e \in Daemon /\ e.phase = p /\ e.job = NoJob /\ e.answer = NoJob
             /\ e.call = "unsent" /\ e.result = "none" /\ (p = "down" => e = Down)
<1>1. Down \in Daemon
  BY DEF Down, Daemon, Phases
<1>2. /\ Down.phase = "down" /\ Down.job = NoJob /\ Down.answer = NoJob
      /\ Down.call = "unsent" /\ Down.result = "none"
  BY DEF Down
<1>3. p \in Phases
  BY DEF Phases, RequestPhases
<1> QED BY <1>1, <1>2, <1>3 DEF Daemon

\* The end of a daemon, and its start.
LEMMA DownFollows ==
  ASSUME NEW d, Shaped(d), NEW p \in {"down", "register"}
  PROVE  Follows(d, [Down EXCEPT !.phase = p]) /\ (p = "down" => [Down EXCEPT !.phase = p] = Down)
BY DownFields, ForgetsRun

\* A request is sent, or is to be sent again.
LEMMA SendFollows ==
  ASSUME NEW d, Shaped(d), NEW c \in {"unsent", "sent"}, d.phase \in RequestPhases,
         d.call \in {"unsent", "sent"},
         c = "sent" => ~d.disabled
  PROVE  Follows(d, [d EXCEPT !.call = c])
<1> DEFINE e == [d EXCEPT !.call = c]
<1>1. d \in Daemon
  BY DEF Shaped
<1>2. /\ e \in Daemon /\ e.call = c /\ e.phase = d.phase /\ e.answer = d.answer
      /\ e.job = d.job /\ e.attempt = d.attempt /\ e.disabled = d.disabled
      /\ e.result = d.result
  BY <1>1 DEF Daemon
<1> HIDE DEF e
<1>3. Shaped(e)
  BY <1>2 DEF Shaped, RequestPhases
<1>4. Task(e) = Task(d)
  BY <1>2 DEF Task
<1>5. \A k \in JobId, n \in Nat : Past(d, k, n) => Past(e, k, n)
  BY <1>2 DEF Past
<1>6. Follows(d, e)
  BY <1>2, <1>3, <1>4, <1>5 DEF Follows
<1> QED BY <1>6 DEF e

\* The answer is lost; what a registration or a claim has said is forgotten.
LEMMA LoseAnswerFollows ==
  ASSUME NEW d, Shaped(d), d.call \in {"accepted", "refused"}
  PROVE  Follows(d, [d EXCEPT !.call = "unsent", !.answer = NoJob, !.flagged = 0,
                              !.attempt = IF d.phase \in {"register", "claim"} THEN 0 ELSE @])
<1> DEFINE e == [d EXCEPT !.call = "unsent", !.answer = NoJob, !.flagged = 0,
                          !.attempt = IF d.phase \in {"register", "claim"} THEN 0 ELSE @]
<1>1. d \in Daemon /\ d.attempt \in 0..MaxRuns /\ 0 \in 0..MaxRuns
  BY DEF Shaped, Daemon
<1>2. /\ e \in Daemon /\ e.call = "unsent" /\ e.phase = d.phase /\ e.answer = NoJob
      /\ e.job = d.job /\ e.disabled = d.disabled /\ e.result = d.result
      /\ d.phase \notin {"register", "claim"} => e.attempt = d.attempt
  BY <1>1 DEF Daemon
<1> HIDE DEF e
<1>3. Shaped(e)
  BY <1>2 DEF Shaped
<1>4. Task(e) # NoJob => Task(e) = Task(d) /\ e.attempt = d.attempt
  BY <1>2 DEF Task
<1>5. \A k \in JobId, n \in Nat : Past(d, k, n) => Past(e, k, n)
  BY <1>2 DEF Past
<1>6. Follows(d, e)
  BY <1>2, <1>3, <1>4, <1>5 DEF Follows
<1> QED BY <1>6 DEF e

\* Flags that no run depends on: giving up, stopping, a request to cancel.
LEMMA FlagsFollow ==
  ASSUME NEW d, Shaped(d), NEW e \in Daemon,
         e.phase = d.phase, e.call = d.call, e.answer = d.answer, e.job = d.job,
         e.attempt = d.attempt, e.result = d.result, d.disabled => e.disabled
  PROVE  Follows(d, e)
<1>1. Shaped(e)
  BY DEF Shaped
<1>2. Task(e) = Task(d)
  BY DEF Task
<1>3. \A k \in JobId, n \in Nat : Past(d, k, n) => Past(e, k, n)
  BY DEF Past
<1> QED BY <1>1, <1>2, <1>3 DEF Follows

\* The loop goes on with the job it handles.
LEMMA GoesOn ==
  ASSUME NEW d, Shaped(d), NEW e \in Daemon,
         \/ /\ d.phase \in {"claimed", "output"} /\ e.phase \in {"output", "launch"}
            /\ e.result # "succeeded"
         \/ /\ d.phase \in {"output", "launch", "running"} /\ e.phase = "report"
            /\ e.result = "succeeded" => d.phase = "running",
         e.call = "unsent", e.answer = NoJob, e.job = d.job, e.attempt = d.attempt
  PROVE  Follows(d, e)
<1>1. Shaped(e)
  BY DEF Shaped
<1>2. Task(e) = Task(d)
  BY DEF Task
<1>3. \A k \in JobId, n \in Nat : Past(d, k, n) => Past(e, k, n)
  BY DEF Past
<1> QED BY <1>1, <1>2, <1>3 DEF Follows, BeforeLaunch

\* Daemon w goes on.
Goes(w) == \E e : daemon' = [daemon EXCEPT ![w] = e] /\ Follows(daemon[w], e)

\* A daemon ends, in order or not.
LEMMA EndGoes ==
  ASSUME NEW w \in Worker, Shaped(daemon[w]), daemon' = [daemon EXCEPT ![w] = Down]
  PROVE  Goes(w)
<1>1. Follows(daemon[w], Down)
  BY DownFollows
<1> QED BY <1>1 DEF Goes

\* The requests of a daemon, as far as its loop is concerned.
LEMMA PostGoes ==
  ASSUME NEW w \in Worker, Shaped(daemon[w]), Send(w) \/ TimeOut(w) \/ LoseAnswer(w)
  PROVE  Goes(w)
<1> DEFINE d == daemon[w]
<1>1. CASE Send(w)
  <2>1. Follows(d, [d EXCEPT !.call = "sent"])
    BY <1>1, SendFollows DEF Send
  <2> QED BY <1>1, <2>1 DEF Send, Becomes, Goes
<1>2. CASE TimeOut(w)
  <2>1. d.call = "sent" /\ d.phase \in RequestPhases
    BY <1>2 DEF TimeOut, Shaped, Daemon, Phases
  <2>2. Follows(d, [d EXCEPT !.call = "unsent"])
    BY <2>1, SendFollows
  <2> QED BY <1>2, <2>2 DEF TimeOut, Becomes, Goes
<1>3. CASE LoseAnswer(w)
  BY <1>3, LoseAnswerFollows DEF LoseAnswer, Becomes, Goes
<1> QED BY <1>1, <1>2, <1>3

\* The flags of a daemon.
LEMMA FlagsGo ==
  ASSUME NEW w \in Worker, Shaped(daemon[w]), heartbeat[w] \in JobId \cup {NoJob},
         GiveUp(w) \/ Stop(w) \/ RequestCancellation(w)
  PROVE  Goes(w)
<1> DEFINE d == daemon[w]
<1>1. d \in Daemon /\ d.cause \in {"none", "user", "shutdown"}
  BY DEF Shaped, Daemon
<1>2. CASE GiveUp(w)
  <2> DEFINE e == [d EXCEPT !.disabled = TRUE]
  <2>1. /\ e \in Daemon
        /\ e.phase = d.phase /\ e.call = d.call /\ e.answer = d.answer /\ e.job = d.job
        /\ e.attempt = d.attempt /\ e.result = d.result /\ e.disabled
    BY <1>1 DEF Daemon
  <2>2. daemon' = [daemon EXCEPT ![w] = e]
    BY <1>2 DEF GiveUp, Becomes
  <2> HIDE DEF e
  <2> QED BY <2>1, <2>2, FlagsFollow DEF Goes
<1>3. CASE Stop(w)
  <2> DEFINE c == IF d.cause = "none" /\ d.phase \in {"output", "launch", "running", "report"}
                  THEN "shutdown" ELSE d.cause
             e == [d EXCEPT !.stopping = TRUE, !.cause = c]
  <2>1. c \in {"none", "user", "shutdown"}
    BY <1>1
  <2>2. daemon' = [daemon EXCEPT ![w] = e]
    BY <1>3 DEF Stop, LoopStep, Becomes
  <2> HIDE DEF c
  <2>3. /\ e \in Daemon
        /\ e.phase = d.phase /\ e.call = d.call /\ e.answer = d.answer /\ e.job = d.job
        /\ e.attempt = d.attempt /\ e.result = d.result /\ e.disabled = d.disabled
    BY <1>1, <2>1 DEF Daemon
  <2> HIDE DEF e
  <2> QED BY <2>2, <2>3, FlagsFollow DEF Goes
<1>4. CASE RequestCancellation(w)
  <2> DEFINE i == heartbeat[w]
             c == IF d.cause = "none" /\ d.job = i
                       /\ d.phase \in {"output", "launch", "running", "report"}
                  THEN "user" ELSE d.cause
             e == [d EXCEPT !.requested = i, !.cause = c]
  <2>1. c \in {"none", "user", "shutdown"}
    BY <1>1
  <2>2. daemon' = [daemon EXCEPT ![w] = e]
    BY <1>4 DEF RequestCancellation, Becomes
  <2> HIDE DEF c
  <2>3. /\ e \in Daemon
        /\ e.phase = d.phase /\ e.call = d.call /\ e.answer = d.answer /\ e.job = d.job
        /\ e.attempt = d.attempt /\ e.result = d.result /\ e.disabled = d.disabled
    BY <1>1, <2>1 DEF Daemon
  <2> HIDE DEF e
  <2> QED BY <2>2, <2>3, FlagsFollow DEF Goes
<1> QED BY <1>2, <1>3, <1>4

\* The answers to a registration and to a claim.
LEMMA AnswersGo ==
  ASSUME NEW w \in Worker, Shaped(daemon[w]), AfterRegister(w) \/ AfterClaim(w)
  PROVE  Goes(w)
<1> DEFINE d == daemon[w]
<1>1. d \in Daemon /\ d.call = "accepted" /\ d.phase \in {"register", "claim"} /\ d.job = NoJob
      /\ d.answer \in JobId \cup {NoJob} /\ d.result # "succeeded"
  BY DEF Shaped, Daemon, AfterRegister, AfterClaim
<1>2. CASE d.answer = NoJob
  <2>1. \A k \in JobId, n \in Nat : ~Past(d, k, n)
    BY <1>1, <1>2 DEF Past, NoJob, JobId
  <2>2. Follows(d, Goto(d, "claim"))
    BY <1>1, <2>1, GotoFields, ForgetsRun DEF Phases, RequestPhases
  <2>3. daemon' = [daemon EXCEPT ![w] = Goto(d, "claim")]
    BY <1>2 DEF AfterRegister, AfterClaim, LoopStep, Becomes
  <2> QED BY <2>2, <2>3 DEF Goes
<1>3. CASE AfterRegister(w) /\ d.answer # NoJob
  <2> DEFINE g == Goto(d, "recover")
             e == [g EXCEPT !.job = d.answer, !.result = "failed"]
  <2>1. g \in Daemon /\ g.phase = "recover" /\ g.call = "unsent" /\ g.answer = NoJob
        /\ g.attempt = d.attempt
    BY <1>1, GotoFields DEF Phases, RequestPhases
  <2>2. daemon' = [daemon EXCEPT ![w] = e]
    BY <1>3 DEF AfterRegister, LoopStep, Becomes
  <2> HIDE DEF g
  <2>3. /\ e \in Daemon /\ e.phase = "recover" /\ e.call = "unsent" /\ e.answer = NoJob
        /\ e.attempt = d.attempt /\ e.job = d.answer /\ e.result = "failed"
    BY <1>1, <2>1 DEF Daemon
  <2> HIDE DEF e
  <2>4. Shaped(e) /\ Task(e) = Task(d)
    BY <1>1, <1>3, <2>3 DEF Shaped, Task
  <2>5. \A k \in JobId, n \in Nat : Past(d, k, n) => Past(e, k, n)
    BY <1>1, <1>3, <2>3 DEF Past, AfterRegister
  <2> QED BY <2>2, <2>3, <2>4, <2>5 DEF Goes, Follows, BeforeLaunch
<1>4. CASE AfterClaim(w) /\ d.answer # NoJob
  <2> DEFINE e == [d EXCEPT !.phase = "claimed", !.call = "unsent",
                            !.answer = NoJob, !.job = d.answer]
  <2>1. daemon' = [daemon EXCEPT ![w] = e]
    BY <1>4 DEF AfterClaim, LoopStep, Becomes
  <2>2. /\ e \in Daemon /\ e.phase = "claimed" /\ e.call = "unsent" /\ e.answer = NoJob
        /\ e.attempt = d.attempt /\ e.job = d.answer /\ e.result = d.result
    BY <1>1 DEF Daemon, Phases
  <2> HIDE DEF e
  <2>3. Shaped(e) /\ Task(e) = Task(d)
    BY <1>1, <1>4, <2>2 DEF Shaped, Task
  <2>4. \A k \in JobId, n \in Nat : ~Past(d, k, n)
    BY <1>1, <1>4 DEF Past, AfterClaim
  <2> QED BY <1>4, <2>1, <2>2, <2>3, <2>4 DEF Goes, Follows, BeforeLaunch, AfterClaim
<1> QED BY <1>2, <1>3, <1>4

\* A job on its way to its launch.
LEMMA PrepareGoes ==
  ASSUME NEW w \in Worker, Shaped(daemon[w]), Activate(w) \/ AfterOutput(w)
  PROVE  Goes(w)
<1> DEFINE d == daemon[w]
<1>1. d \in Daemon /\ d.phase \in {"claimed", "output"} /\ d.result # "succeeded"
  BY DEF Shaped, Activate, AfterOutput
<1>2. CASE Activate(w)
  <2> DEFINE c == IF d.stopping THEN "shutdown"
                  ELSE IF d.flagged = 1 \/ d.requested = d.job THEN "user" ELSE "none"
             g == Goto(d, "output")
             e == [g EXCEPT !.cause = c]
  <2>1. /\ g \in Daemon /\ g.phase = "output" /\ g.call = "unsent" /\ g.answer = NoJob
        /\ g.job = d.job /\ g.attempt = d.attempt /\ g.result = d.result
    BY <1>1, GotoFields DEF Phases, RequestPhases
  <2>2. c \in {"none", "user", "shutdown"} /\ daemon' = [daemon EXCEPT ![w] = e]
    BY <1>2 DEF Activate, LoopStep, Becomes
  <2> HIDE DEF c, g
  <2>3. /\ e \in Daemon /\ e.phase = "output" /\ e.call = "unsent" /\ e.answer = NoJob
        /\ e.job = d.job /\ e.attempt = d.attempt /\ e.result = d.result
    BY <2>1, <2>2 DEF Daemon
  <2> HIDE DEF e
  <2> QED BY <1>1, <2>2, <2>3, GoesOn DEF Goes
<1>3. CASE AfterOutput(w)
  <2> DEFINE e == Goto(d, "launch")
  <2>1. /\ e \in Daemon /\ e.phase = "launch" /\ e.call = "unsent" /\ e.answer = NoJob
        /\ e.job = d.job /\ e.attempt = d.attempt /\ e.result = d.result
    BY <1>1, GotoFields DEF Phases
  <2>2. daemon' = [daemon EXCEPT ![w] = e]
    BY <1>3 DEF AfterOutput, LoopStep, Becomes
  <2> HIDE DEF e
  <2> QED BY <1>1, <2>1, <2>2, GoesOn DEF Goes
<1> QED BY <1>2, <1>3

\* A job that is over for its daemon is reported.
LEMMA ReportFollows ==
  ASSUME NEW d, Shaped(d), d.phase \in {"output", "launch", "running"},
         NEW result \in {"succeeded", "failed", "cancelled"},
         result = "succeeded" => d.phase = "running"
  PROVE  LET e == [Goto(d, "report") EXCEPT !.result = result]
         IN  Follows(d, e) /\ e.phase = "report" /\ e.job = d.job /\ e.attempt = d.attempt
             /\ e.result = result
<1> DEFINE g == Goto(d, "report")
           e == [g EXCEPT !.result = result]
<1>1. /\ g \in Daemon /\ g.phase = "report" /\ g.call = "unsent" /\ g.answer = NoJob
      /\ g.job = d.job /\ g.attempt = d.attempt
  BY GotoFields DEF Phases, RequestPhases, Shaped
<1> HIDE DEF g
<1>2. /\ e \in Daemon /\ e.phase = "report" /\ e.call = "unsent" /\ e.answer = NoJob
      /\ e.job = d.job /\ e.attempt = d.attempt /\ e.result = result
  BY <1>1 DEF Daemon
<1> HIDE DEF e
<1>3. Follows(d, e)
  BY <1>2, GoesOn
<1> QED BY <1>2, <1>3 DEF e, g

\* Interrupted, failed to start, exited or killed.
LEMMA OverGoes ==
  ASSUME NEW w \in Worker, Shaped(daemon[w]),
         Interrupt(w) \/ LaunchFails(w) \/ Exit(w) \/ Kill(w)
  PROVE  Goes(w)
<1> DEFINE d == daemon[w]
<1>1. d.phase \in {"output", "launch", "running"}
  BY DEF Interrupt, LaunchFails, Exit, Kill, Ends
<1>2. \E result \in {"succeeded", "failed", "cancelled"} :
        /\ result = "succeeded" => d.phase = "running"
        /\ daemon' = [daemon EXCEPT ![w] = [Goto(d, "report") EXCEPT !.result = result]]
  <2>1. CASE Interrupt(w) \/ Kill(w)
    BY <2>1 DEF Interrupt, Kill, Ends, LoopStep, Becomes, Interrupted
  <2>2. CASE LaunchFails(w)
    BY <2>2 DEF LaunchFails, LoopStep, Becomes
  <2>3. CASE Exit(w)
    BY <2>3 DEF Exit, Ends, Becomes
  <2> QED BY <2>1, <2>2, <2>3
<1> QED BY <1>1, <1>2, ReportFollows DEF Goes

\* The end of a job, and what a daemon without remote work does instead.
LEMMA DoneGoes ==
  ASSUME NEW w \in Worker, Shaped(daemon[w]),
         AfterReport(w) \/ ReportRefused(w) \/ SkipDisabled(w) \/ Halt(w) \/ Crash(w) \/ Start(w)
  PROVE  Goes(w)
<1> DEFINE d == daemon[w]
           g == Goto(d, "claim")
<1>1. /\ g \in Daemon /\ g.phase = "claim" /\ g.job = NoJob /\ g.answer = NoJob
      /\ g.call = "unsent" /\ g.result = "none" /\ g.disabled = d.disabled
  BY GotoFields DEF Phases, RequestPhases, Shaped
<1>2. CASE AfterReport(w) /\ ~d.stopping
  <2> DEFINE b == g.disabled \/ (d.phase = "report" /\ d.result = "failed")
             e == [g EXCEPT !.disabled = b]
  <2>1. b \in BOOLEAN /\ daemon' = [daemon EXCEPT ![w] = e]
    BY <1>2 DEF AfterReport, LoopStep, Becomes
  <2>2. \A k \in JobId, n \in Nat : ~Past(d, k, n)
    BY <1>2 DEF AfterReport, Past
  <2> HIDE DEF g, b
  <2>3. /\ e \in Daemon /\ e.phase = "claim" /\ e.job = NoJob /\ e.answer = NoJob
        /\ e.call = "unsent" /\ e.result = "none"
    BY <1>1, <2>1 DEF Daemon
  <2> HIDE DEF e
  <2> QED BY <2>1, <2>2, <2>3, ForgetsRun DEF Goes
<1>3. CASE SkipDisabled(w)
  <2>1. d.disabled /\ daemon' = [daemon EXCEPT ![w] = g]
    BY <1>3 DEF SkipDisabled, LoopStep, Becomes
  <2> HIDE DEF g
  <2> QED BY <1>1, <2>1, ForgetsRun DEF Goes
<1>4. CASE Start(w)
  <2>1. Follows(d, [Down EXCEPT !.phase = "register"])
    BY DownFollows
  <2> QED BY <1>4, <2>1 DEF Start, Becomes, Goes
<1>5. CASE daemon' = [daemon EXCEPT ![w] = Down]
  BY <1>5, EndGoes
<1> QED BY <1>2, <1>3, <1>4, <1>5 DEF AfterReport, ReportRefused, Halt, Crash, Exits, Becomes

-----------------------------------------------------------------------------
(* The inductive step for such a step of a job loop.                       *)

\* What the loop of daemon w does by itself, but for the launch.
LoopGoes(w) ==
  \/ Start(w) \/ Send(w) \/ TimeOut(w) \/ LoseAnswer(w) \/ GiveUp(w)
  \/ AfterRegister(w) \/ AfterClaim(w) \/ Activate(w) \/ AfterOutput(w)
  \/ Interrupt(w) \/ LaunchFails(w) \/ Exit(w) \/ Kill(w)
  \/ AfterReport(w) \/ ReportRefused(w) \/ SkipDisabled(w)
  \/ Stop(w) \/ Halt(w) \/ Crash(w) \/ RequestCancellation(w)

\* The tables stay, and of the runs at most the outcome changes.
LEMMA LoopKeepsRuns ==
  ASSUME RunsOK, NEW w \in Worker, LoopGoes(w)
  PROVE  /\ UNCHANGED vars
         /\ RunsOK'
         /\ \A k \in JobId : SameRun(k)
<1>1. UNCHANGED vars
  BY DEF LoopGoes, Start, Send, TimeOut, LoseAnswer, GiveUp, AfterRegister, AfterClaim, Activate,
         AfterOutput, Interrupt, LaunchFails, Exit, Kill, Ends, AfterReport, ReportRefused,
         SkipDisabled, Stop, Halt, Crash, RequestCancellation, LoopStep, Exits, Becomes
<1>2. run \in [JobId -> Run] /\ \A k \in JobId : run[k] \in Run /\ run[k].launched <= 1
  BY DEF RunsOK, LaunchedOnce
<1>3. CASE run' = run
  <2>1. \A k \in JobId : SameRun(k)
    BY <1>1, <1>2, <1>3 DEF SameRun, vars, Running
  <2> QED BY <1>1, <1>3, <2>1 DEF RunsOK, LaunchedOnce
<1>4. CASE \E outcome \in {"succeeded", "failed"} : run' = [run EXCEPT ![daemon[w].job].ended = outcome]
  <2> PICK outcome \in {"succeeded", "failed"} :
        run' = [run EXCEPT ![daemon[w].job] = [run[daemon[w].job] EXCEPT !.ended = outcome]]
    BY <1>4
  <2>1. \A k \in JobId : run'[k] = run[k] \/ run'[k] = [run[k] EXCEPT !.ended = outcome]
    BY <1>2
  <2>2. \A k \in JobId : /\ run'[k] \in Run /\ run'[k].count = run[k].count
                         /\ run'[k].launched = run[k].launched
    BY <1>2, <2>1 DEF Run
  <2>3. run' \in [JobId -> Run]
    <3>1. DOMAIN run' = JobId /\ run' = [k \in JobId |-> run'[k]]
      BY <1>2
    <3> QED BY <2>2, <3>1
  <2>4. \A k \in JobId : SameRun(k)
    BY <1>1, <2>2 DEF SameRun, vars, Running
  <2> QED BY <1>1, <1>2, <2>2, <2>3, <2>4 DEF RunsOK, LaunchedOnce
<1>5. \/ run' = run
      \/ \E outcome \in {"succeeded", "failed"} : run' = [run EXCEPT ![daemon[w].job].ended = outcome]
  <2>1. CASE Exit(w) \/ Kill(w)
    BY <2>1 DEF Exit, Kill, Ends
  <2> QED BY <2>1
    DEF LoopGoes, Start, Send, TimeOut, LoseAnswer, GiveUp, AfterRegister, AfterClaim, Activate,
        AfterOutput, Interrupt, LaunchFails, AfterReport, ReportRefused,
        SkipDisabled, Stop, Halt, Crash, RequestCancellation, LoopStep, Exits
<1> QED BY <1>3, <1>4, <1>5

\* A loop that goes on keeps the daemons in shape.
LEMMA LoopKeepsShape ==
  ASSUME DaemonsOK, NEW w \in Worker, LoopGoes(w)
  PROVE  DaemonsOK' /\ Goes(w)
<1>1. /\ daemon \in [Worker -> Daemon] /\ Shaped(daemon[w]) /\ heartbeat[w] \in JobId \cup {NoJob}
      /\ heartbeat \in [Worker -> JobId \cup {NoJob}] /\ starts \in [Worker -> 0..MaxStarts]
      /\ \A r \in late : Sendable(r)
  BY DEF DaemonsOK
<1>2. Goes(w)
  BY <1>1, PostGoes, FlagsGo, AnswersGo, PrepareGoes, OverGoes, DoneGoes DEF LoopGoes
<1>3. PICK e : daemon' = [daemon EXCEPT ![w] = e] /\ Shaped(e)
  BY <1>2 DEF Goes, Follows
<1>4. daemon' \in [Worker -> Daemon] /\ \A v \in Worker : Shaped(daemon'[v])
  BY <1>1, <1>3 DEF Shaped, DaemonsOK
<1>5. heartbeat' \in [Worker -> JobId \cup {NoJob}]
  <2>1. heartbeat' = heartbeat \/ heartbeat' = [heartbeat EXCEPT ![w] = NoJob]
    BY DEF LoopGoes, Start, Send, TimeOut, LoseAnswer, GiveUp, AfterRegister, AfterClaim, Activate,
         AfterOutput, Interrupt, LaunchFails, Exit, Kill, Ends, AfterReport, ReportRefused,
         SkipDisabled, Stop, Halt, Crash, RequestCancellation, LoopStep, Exits
  <2> QED BY <1>1, <2>1
<1>6. \A r \in late' : Sendable(r)
  <2>1. late' = late \/ (daemon[w].call = "sent" /\ late' = late \cup {RequestOf(w)})
    BY DEF LoopGoes, Start, Send, TimeOut, LoseAnswer, GiveUp, AfterRegister, AfterClaim, Activate,
         AfterOutput, Interrupt, LaunchFails, Exit, Kill, Ends, AfterReport, ReportRefused,
         SkipDisabled, Stop, Halt, Crash, RequestCancellation, LoopStep, Exits
  <2> QED BY <1>1, <2>1, RequestSendable
<1>7. starts' \in [Worker -> 0..MaxStarts]
  <2>1. CASE Start(w)
    <3>1. starts[w] + 1 \in 0..MaxStarts
      BY <1>1, <2>1 DEF Start
    <3> QED BY <1>1, <2>1, <3>1 DEF Start
  <2>2. CASE starts' = starts
    BY <1>1, <2>2
  <2> QED BY <2>1, <2>2
    DEF LoopGoes, Send, TimeOut, LoseAnswer, GiveUp, AfterRegister, AfterClaim, Activate,
        AfterOutput, Interrupt, LaunchFails, Exit, Kill, Ends, AfterReport, ReportRefused,
        SkipDisabled, Stop, Halt, Crash, RequestCancellation, LoopStep, Exits
<1> QED BY <1>2, <1>4, <1>5, <1>6, <1>7 DEF DaemonsOK

\* A daemon that goes on still knows what it knew.
LEMMA PairFollows ==
  ASSUME NEW w \in Worker, NEW k \in JobId, Pair(w, k), run[k] \in Run,
         Follows(daemon[w], daemon'[w]), SameRun(k)
  PROVE  Pair(w, k)' /\ (Executes(w, k)' => Executes(w, k))
<1>1. k # NoJob
  BY DEF JobId, NoJob
<1>2. Task(daemon'[w]) = k => Task(daemon[w]) = k /\ daemon'[w].attempt = daemon[w].attempt
  BY <1>1 DEF Follows
<1>3. Executes(w, k)' => Executes(w, k)
  BY <1>2 DEF Executes, SameRun
<1>4. Knows(daemon[w], k)'
  BY <1>2 DEF Knows, SameRun, Pair
<1>5. Owns(w, k)'
  BY <1>3 DEF Owns, SameRun, Pair
<1>6. Unlaunched(w, k)'
  BY <1>1, <1>2, <1>3 DEF Unlaunched, SameRun, Pair, Follows, BeforeLaunch, Executes
<1>7. LaunchedPast(w, k)'
  <2>1. run[k].count \in Nat
    BY DEF Run
  <2> QED BY <2>1 DEF LaunchedPast, SameRun, Holds, Pair, Follows
<1> QED BY <1>3, <1>4, <1>5, <1>6, <1>7 DEF Pair

\* One executor is left when nobody learns of a run.
LEMMA NobodyLearns ==
  ASSUME OneExecutor, \A w \in Worker, k \in JobId : Executes(w, k)' => Executes(w, k)
  PROVE  OneExecutor'
BY DEF OneExecutor

\* The job loop keeps the invariant.
LEMMA LoopStepInv ==
  ASSUME SystemInv, NEW w \in Worker, LoopGoes(w) PROVE SystemInv'
<1>1. UNCHANGED vars /\ RunsOK' /\ \A k \in JobId : SameRun(k)
  BY LoopKeepsRuns DEF SystemInv
<1>2. DaemonsOK' /\ Goes(w)
  BY LoopKeepsShape DEF SystemInv
<1>3. Inv'
  BY <1>1, NextInv DEF SystemInv
<1>4. daemon \in [Worker -> Daemon] /\ run \in [JobId -> Run]
  BY DEF SystemInv, DaemonsOK, RunsOK
<1>5. ASSUME NEW v \in Worker, NEW k \in JobId
      PROVE  Pair(v, k)' /\ (Executes(v, k)' => Executes(v, k))
  <2>1. Pair(v, k) /\ Shaped(daemon[v]) /\ run[k] \in Run
    BY <1>4 DEF SystemInv, PairsOK, DaemonsOK
  <2>2. CASE v = w
    BY <1>1, <1>2, <1>4, <2>1, <2>2, PairFollows DEF Goes
  <2>3. CASE v # w
    <3>1. daemon'[v] = daemon[v]
      BY <1>2, <1>4, <2>3 DEF Goes
    <3> QED BY <1>1, <2>1, <3>1, PairStays
  <2> QED BY <2>2, <2>3
<1>6. PairsOK' /\ OneExecutor'
  BY <1>5, NobodyLearns DEF PairsOK, SystemInv
<1> QED BY <1>1, <1>2, <1>3, <1>6 DEF SystemInv

-----------------------------------------------------------------------------
(* The launch.                                                             *)

\* A launch is the first of its run, and only its daemon knows of it.
LEMMA LaunchInv ==
  ASSUME SystemInv, NEW w \in Worker, Launch(w) PROVE SystemInv'
<1> DEFINE d == daemon[w]
           e == [d EXCEPT !.phase = "running"]
           i == d.job
<1>1. /\ daemon \in [Worker -> Daemon] /\ run \in [JobId -> Run]
      /\ \A k \in JobId : run[k] \in Run /\ run[k].launched <= 1
      /\ \A v \in Worker : Shaped(daemon[v])
      /\ \A v \in Worker, k \in JobId : Pair(v, k)
  BY DEF SystemInv, DaemonsOK, RunsOK, LaunchedOnce, PairsOK
<1>2. d \in Daemon /\ d.phase = "launch" /\ i \in JobId /\ d.call = "unsent" /\ d.answer = NoJob
      /\ d.result # "succeeded" /\ d.attempt \in 0..MaxRuns
  BY <1>1 DEF Launch, Shaped, Daemon
<1>3. /\ e \in Daemon /\ e.phase = "running" /\ e.job = i /\ e.call = "unsent" /\ e.answer = NoJob
      /\ e.attempt = d.attempt /\ e.result = d.result
  BY <1>2 DEF Daemon, Phases
<1>4. daemon' = [daemon EXCEPT ![w] = e] /\ UNCHANGED vars /\ UNCHANGED <<heartbeat, late, starts>>
  BY DEF Launch, Becomes
<1> HIDE DEF e
<1>5. Inv'
  BY <1>4, NextInv DEF SystemInv
<1>6. DaemonsOK'
  <2>1. Shaped(e)
    BY <1>2, <1>3 DEF Shaped, NoJob, JobId
  <2>2. daemon' \in [Worker -> Daemon] /\ \A v \in Worker : Shaped(daemon'[v])
    BY <1>1, <1>3, <1>4, <2>1
  <2> QED BY <1>4, <2>2 DEF SystemInv, DaemonsOK
<1>7. \A k \in JobId, n \in Nat : ~Past(d, k, n)
  BY <1>2 DEF Past
<1>8. d.attempt = run[i].count => run[i].launched = 0
  BY <1>1, <1>2 DEF Pair, Unlaunched, Executes, Task
<1>9. ASSUME NEW k \in JobId
      PROVE  /\ run'[k] \in Run /\ run'[k].count = run[k].count /\ run'[k].launched <= 1
             /\ run'[k].launched # run[k].launched => k = i /\ d.attempt = run[k].count
  <2>1. CASE k = i /\ d.attempt = run[i].count
    <3>1. run' = [run EXCEPT ![i] = [run[i] EXCEPT !.launched = run[i].launched + 1]]
      BY <2>1 DEF Launch, Current
    <3>2. run'[k] = [run[k] EXCEPT !.launched = 1]
      BY <1>1, <1>8, <2>1, <3>1
    <3> QED BY <1>1, <2>1, <3>2 DEF Run
  <2>2. CASE ~(k = i /\ d.attempt = run[i].count)
    <3>1. run'[k] = run[k]
      BY <1>1, <2>2 DEF Launch, Current
    <3> QED BY <1>1, <3>1
  <2> QED BY <2>1, <2>2
<1>10. RunsOK'
  <2>1. DOMAIN run' = JobId /\ run' = [k \in JobId |-> run'[k]]
    BY <1>1 DEF Launch
  <2>2. run' \in [JobId -> Run]
    BY <1>9, <2>1
  <2> QED BY <1>9, <2>2 DEF RunsOK, LaunchedOnce
<1>11. \A v \in Worker : v # w => daemon'[v] = daemon[v]
  BY <1>1, <1>4
<1>12. daemon'[w] = e
  BY <1>1, <1>4
<1>13. \A v \in Worker, k \in JobId : Executes(v, k)' <=> Executes(v, k)
  <2>1. Task(e) = i /\ Task(d) = i
    BY <1>2, <1>3 DEF Task
  <2> QED BY <1>3, <1>9, <1>11, <1>12, <2>1 DEF Executes
<1>14. OneExecutor'
  BY <1>13, NobodyLearns DEF SystemInv
<1>15. \A k \in JobId : jobs'[k] = jobs[k]
  BY <1>4 DEF vars
<1>16. ASSUME NEW v \in Worker, NEW k \in JobId PROVE Pair(v, k)'
  <2>1. Pair(v, k)
    BY <1>1
  <2>2. Owns(v, k)'
    BY <1>13, <1>15, <2>1 DEF Pair, Owns, Running
  <2>3. Knows(daemon[v], k)'
    <3>1. Task(daemon'[v]) = Task(daemon[v]) /\ daemon'[v].attempt = daemon[v].attempt
      BY <1>2, <1>3, <1>11, <1>12 DEF Task
    <3> QED BY <1>9, <2>1, <3>1 DEF Pair, Knows
  <2>4. CASE v = w
    <3>1. Unlaunched(v, k)'
      BY <1>3, <1>12, <2>4 DEF Unlaunched
    <3>2. LaunchedPast(v, k)'
      <4>1. SUFFICES ASSUME Holds(v, k)', run'[k].launched # 0
                     PROVE  Past(daemon'[v], k, run'[k].count)
        BY DEF LaunchedPast
      <4>2. run[k].launched = 0
        <5>1. Holds(v, k) /\ run[k].count \in Nat
          BY <1>1, <1>15, <4>1 DEF Holds, Running, Run
        <5> QED BY <1>7, <2>1, <2>4, <5>1 DEF Pair, LaunchedPast
      <4>3. k = i /\ d.attempt = run'[k].count
        BY <1>9, <4>1, <4>2
      <4> QED BY <1>3, <1>12, <2>4, <4>3 DEF Past
    <3> QED BY <2>2, <2>3, <3>1, <3>2 DEF Pair
  <2>5. CASE v # w
    <3>1. CASE run'[k].launched = run[k].launched
      <4>1. Unlaunched(v, k)'
        BY <1>11, <1>13, <2>1, <2>5, <3>1 DEF Pair, Unlaunched
      <4>2. LaunchedPast(v, k)'
        BY <1>9, <1>11, <1>15, <2>1, <2>5, <3>1 DEF Pair, LaunchedPast, Holds, Running
      <4> QED BY <2>2, <2>3, <4>1, <4>2 DEF Pair
    <3>2. CASE run'[k].launched # run[k].launched
      <4>1. Executes(w, k)
        BY <1>2, <1>9, <3>2 DEF Executes, Task
      <4>2. ~Executes(v, k)
        BY <2>5, <4>1 DEF SystemInv, OneExecutor
      <4>3. ~Holds(v, k)
        BY <1>1, <2>5, <4>1 DEF Pair, Owns, Holds
      <4>4. Unlaunched(v, k)' /\ LaunchedPast(v, k)'
        BY <1>13, <1>15, <4>2, <4>3 DEF Unlaunched, LaunchedPast, Holds, Running
      <4> QED BY <2>2, <2>3, <4>4 DEF Pair
    <3> QED BY <3>1, <3>2
  <2> QED BY <2>4, <2>5
<1>17. PairsOK'
  BY <1>16 DEF PairsOK
<1> QED BY <1>5, <1>6, <1>10, <1>14, <1>17 DEF SystemInv

-----------------------------------------------------------------------------
(* Steps of the controller that no daemon notices.                         *)

\* Late requests, users and time change the tables under the daemons.
LEMMA TablesStepInv ==
  ASSUME SystemInv, [Next]_vars, Remember, UNCHANGED <<daemon, heartbeat, starts>>,
         \A k \in JobId : Begins(k) => run[k].count < MaxRuns,
         late' \subseteq late
  PROVE  SystemInv'
<1>1. Inv' /\ RunsOK' /\ \A k \in JobId : NewRun(k) \/ SameRun(k)
  BY NextInv, RunsFollow DEF SystemInv
<1>2. DaemonsOK'
  BY DEF SystemInv, DaemonsOK
<1>3. \A w \in Worker, k \in JobId : Pair(w, k)' /\ (Executes(w, k)' => Executes(w, k))
  BY <1>1, PairStays DEF SystemInv, PairsOK, DaemonsOK, RunsOK
<1>4. PairsOK' /\ OneExecutor'
  BY <1>3, NobodyLearns DEF PairsOK, SystemInv
<1> QED BY <1>1, <1>2, <1>4 DEF SystemInv

\* A heartbeat is answered.
LEMMA BeatInv ==
  ASSUME SystemInv, NEW w \in Worker, Beat(w)
  PROVE  SystemInv' /\ Next
<1>1. Heartbeat(w) /\ UNCHANGED <<daemon, late, starts, run>>
      /\ \E reply \in {CancelJobId(w), NoJob} : heartbeat' = [heartbeat EXCEPT ![w] = reply]
  BY DEF Beat, BeatAnswered
<1>2. Next
  BY <1>1 DEF Next, WorkerStep
<1>3. Inv'
  BY <1>2, NextInv DEF SystemInv
<1>4. heartbeat' \in [Worker -> JobId \cup {NoJob}]
  <2>1. CancelJobId(w) \in JobId \cup {NoJob}
    BY DEF CancelJobId, SystemInv, Inv, TypeOK, WorkerRow
  <2> QED BY <1>1, <2>1 DEF SystemInv, DaemonsOK
<1>5. DaemonsOK' /\ RunsOK'
  BY <1>1, <1>4 DEF SystemInv, DaemonsOK, RunsOK, LaunchedOnce
<1>6. PairsOK' /\ OneExecutor'
  BY <1>1 DEF SystemInv, PairsOK, OneExecutor, Pair, Knows, Owns, Unlaunched, LaunchedPast,
              Executes, Holds, Running, Heartbeat
<1> QED BY <1>2, <1>3, <1>5, <1>6 DEF SystemInv

-----------------------------------------------------------------------------
(* The controller answers a daemon.                                        *)

\* What a daemon makes of the answer.
Answered(d, i) ==
  IF i = NoJob THEN [d EXCEPT !.call = "accepted"]
  ELSE [d EXCEPT !.call = "accepted", !.answer = i, !.attempt = run'[i].count,
                 !.flagged = jobs'[i].cancel_requested]

\* A daemon learns of the job that it holds.
LEMMA LearnsOf ==
  ASSUME NEW d \in Daemon, Shaped(d), d.call = "sent", d.phase \in {"register", "claim"},
         NEW i \in JobId \cup {NoJob}, RunsOK', TypeOK'
  PROVE  LET e == Answered(d, i)
         IN  /\ Shaped(e) /\ e.phase = d.phase /\ e.call = "accepted" /\ Task(e) = i
             /\ i # NoJob => e.answer = i /\ e.attempt = run'[i].count
<1>1. d.answer = NoJob
  BY DEF Shaped
<1>2. CASE i = NoJob
  <2> DEFINE e == [d EXCEPT !.call = "accepted"]
  <2>1. /\ e \in Daemon /\ e.phase = d.phase /\ e.call = "accepted" /\ e.answer = d.answer
        /\ e.job = d.job /\ e.result = d.result
    BY DEF Daemon
  <2> HIDE DEF e
  <2>2. Shaped(e) /\ Task(e) = i
    BY <1>1, <1>2, <2>1 DEF Shaped, Task
  <2> QED BY <1>2, <2>1, <2>2 DEF e, Answered
<1>3. CASE i # NoJob
  <2>1. run'[i].count \in 0..MaxRuns /\ jobs'[i].cancel_requested \in {0, 1}
    BY <1>3 DEF RunsOK, Run, TypeOK, JobRow
  <2> DEFINE n == run'[i].count
             f == jobs'[i].cancel_requested
             e == [d EXCEPT !.call = "accepted", !.answer = i, !.attempt = n, !.flagged = f]
  <2> HIDE DEF n, f
  <2>2. /\ e \in Daemon /\ e.phase = d.phase /\ e.call = "accepted" /\ e.answer = i
        /\ e.job = d.job /\ e.result = d.result /\ e.attempt = n
    BY <2>1 DEF Daemon, n, f
  <2> HIDE DEF e
  <2>3. Shaped(e) /\ Task(e) = i
    BY <1>3, <2>2 DEF Shaped, Task
  <2> QED BY <1>3, <2>2, <2>3 DEF e, n, f, Answered
<1> QED BY <1>2, <1>3

\* The answer to a registration or a claim names the job that the worker holds.
LEMMA AnswerNamesHeld ==
  ASSUME Inv, Inv', NEW w \in Worker
  PROVE  /\ workers'[w].current_job_id \in JobId \cup {NoJob}
         /\ \A k \in JobId : Holds(w, k)' <=> workers'[w].current_job_id = k
         /\ \A v \in Worker, k \in JobId : Holds(v, k)' /\ Holds(w, k)' => v = w
BY DEF Inv, AssignmentsAgree, Holds, TypeOK, WorkerRow

\* What is known of every step that answers a daemon.
LEMMA AnswerFacts ==
  ASSUME SystemInv, NEW w \in Worker, Answer(w)
  PROVE  /\ daemon[w] \in Daemon /\ Shaped(daemon[w]) /\ daemon[w].call = "sent"
         /\ daemon[w].phase \in RequestPhases
         /\ Sendable(RequestOf(w)) /\ RequestOf(w).phase = daemon[w].phase
         /\ Handle(RequestOf(w)) /\ Remember /\ UNCHANGED <<heartbeat, late, starts>>
         /\ [Next]_vars /\ Inv' /\ RunsOK'
         /\ \A k \in JobId : Begins(k) => daemon[w].phase = "claim"
         /\ \A k \in JobId : NewRun(k) \/ SameRun(k)
<1>1. /\ daemon[w] \in Daemon /\ Shaped(daemon[w]) /\ DaemonsOK /\ Inv /\ RunsOK
  BY DEF SystemInv, DaemonsOK
<1>2. daemon[w].call = "sent" /\ Handle(RequestOf(w)) /\ Remember /\ UNCHANGED <<heartbeat, late, starts>>
  BY DEF Answer, Handle
<1>3. daemon[w].phase \in RequestPhases
  BY <1>1, <1>2 DEF Shaped, Daemon, Phases
<1>4. Sendable(RequestOf(w)) /\ RequestOf(w).phase = daemon[w].phase
  BY <1>1, <1>2, RequestSendable
<1>5. [Next]_vars /\ \A k \in JobId : Begins(k) => daemon[w].phase = "claim" /\ run[k].count < MaxRuns
  BY <1>1, <1>2, <1>4, HandleIsNext
<1>6. Inv' /\ RunsOK' /\ \A k \in JobId : NewRun(k) \/ SameRun(k)
  BY <1>1, <1>2, <1>5, NextInv, RunsFollow
<1> QED BY <1>1, <1>2, <1>3, <1>4, <1>5, <1>6

\* What a daemon that registers or claims is told.
LEMMA TellFacts ==
  ASSUME SystemInv, NEW w \in Worker, Answer(w), daemon[w].phase \in {"register", "claim"}
  PROVE  LET i == workers'[w].current_job_id
             e == daemon'[w]
         IN  /\ i \in JobId \cup {NoJob} /\ \A k \in JobId : Holds(w, k)' <=> i = k
             /\ daemon' = [daemon EXCEPT ![w] = e]
             /\ \A v \in Worker : v # w => daemon'[v] = daemon[v]
             /\ Shaped(e) /\ e.phase = daemon[w].phase /\ e.call = "accepted" /\ Task(e) = i
             /\ i # NoJob => e.answer = i /\ e.attempt = run'[i].count
<1> DEFINE d == daemon[w]
           i == workers'[w].current_job_id
<1>1. daemon \in [Worker -> Daemon]
  BY DEF SystemInv, DaemonsOK
<1>2. i \in JobId \cup {NoJob} /\ \A k \in JobId : Holds(w, k)' <=> i = k
  BY AnswerFacts, AnswerNamesHeld DEF SystemInv
<1>3. daemon' = [daemon EXCEPT ![w] = Answered(d, i)]
  <2>1. RequestOf(w).phase = d.phase /\ Acceptable(RequestOf(w))
    BY AnswerFacts DEF Acceptable, Reports
  <2> QED BY <2>1 DEF Answer, Answered
<1>4. daemon'[w] = Answered(d, i) /\ \A v \in Worker : v # w => daemon'[v] = daemon[v]
  BY <1>1, <1>3
<1>5. d \in Daemon /\ Shaped(d) /\ d.call = "sent" /\ RunsOK' /\ TypeOK'
  BY AnswerFacts DEF Inv
<1>6. /\ Shaped(Answered(d, i)) /\ Answered(d, i).phase = d.phase
      /\ Answered(d, i).call = "accepted" /\ Task(Answered(d, i)) = i
      /\ i # NoJob => Answered(d, i).answer = i /\ Answered(d, i).attempt = run'[i].count
  BY <1>2, <1>5, LearnsOf
<1> QED BY <1>2, <1>3, <1>4, <1>6

\* A daemon that registers or claims is told of a run that it may execute: one
\* that has just begun or one that was not launched.
LEMMA TellInv ==
  ASSUME SystemInv, NEW w \in Worker, Answer(w), daemon[w].phase \in {"register", "claim"}
  PROVE  SystemInv'
<1> DEFINE d == daemon[w]
           i == workers'[w].current_job_id
           e == daemon'[w]
<1>1. /\ daemon \in [Worker -> Daemon] /\ run \in [JobId -> Run]
      /\ Inv /\ RunsOK /\ DaemonsOK
      /\ \A v \in Worker : Shaped(daemon[v])
      /\ \A v \in Worker, k \in JobId : Pair(v, k)
  BY DEF SystemInv, DaemonsOK, RunsOK, PairsOK
<1>2. d.call = "sent" /\ UNCHANGED <<heartbeat, late, starts>>
  BY AnswerFacts
<1>3. Inv' /\ RunsOK' /\ \A k \in JobId : NewRun(k) \/ SameRun(k)
  BY AnswerFacts
<1>4. i \in JobId \cup {NoJob} /\ \A k \in JobId : Holds(w, k)' <=> i = k
  BY TellFacts
<1>5. daemon' = [daemon EXCEPT ![w] = e]
  BY TellFacts
<1>6. /\ Shaped(e) /\ e.phase = d.phase /\ e.call = "accepted" /\ Task(e) = i
      /\ i # NoJob => e.answer = i /\ e.attempt = run'[i].count
  BY TellFacts
<1>7. daemon'[w] = e /\ \A v \in Worker : v # w => daemon'[v] = daemon[v]
  BY TellFacts
<1>8. DaemonsOK'
  <2>1. daemon' \in [Worker -> Daemon] /\ \A v \in Worker : Shaped(daemon'[v])
    BY <1>1, <1>5, <1>6, <1>7 DEF Shaped
  <2> QED BY <1>1, <1>2, <2>1 DEF DaemonsOK
<1>9. \A v \in Worker, k \in JobId : v # w => Pair(v, k)' /\ (Executes(v, k)' => Executes(v, k))
  BY <1>1, <1>3, <1>7, PairStays
<1>10. \A k \in JobId : Executes(w, k)' => k = i /\ Holds(w, k)'
  BY <1>4, <1>6, <1>7 DEF Executes
<1>11. d.phase = "claim" => \A k \in JobId : Holds(w, k)' => run'[k].launched = 0
  <2> SUFFICES ASSUME d.phase = "claim", NEW k \in JobId, Holds(w, k)', SameRun(k)
               PROVE  run'[k].launched = 0
    BY <1>3 DEF NewRun
  <2>1. Holds(w, k) /\ run[k].count \in Nat
    BY <1>1 DEF SameRun, Holds, Run
  <2>2. ~Past(d, k, run[k].count)
    BY <1>2 DEF Past
  <2> QED BY <1>1, <2>1, <2>2 DEF SameRun, Pair, LaunchedPast
<1>12. ASSUME NEW k \in JobId PROVE Pair(w, k)'
  <2>1. run'[k].count \in Nat /\ k # NoJob
    BY <1>3 DEF RunsOK, Run, JobId, NoJob
  <2>2. Knows(daemon[w], k)'
    BY <1>6, <1>7, <2>1 DEF Knows
  <2>3. Owns(w, k)'
    BY <1>10 DEF Owns, Holds
  <2>4. Unlaunched(w, k)'
    BY <1>6, <1>7, <1>10, <1>11 DEF Unlaunched
  <2>5. LaunchedPast(w, k)'
    BY <1>4, <1>6, <1>7, <1>11, <2>1 DEF LaunchedPast, Past
  <2> QED BY <2>2, <2>3, <2>4, <2>5 DEF Pair
<1>13. PairsOK'
  BY <1>9, <1>12 DEF PairsOK
<1>14. OneExecutor'
  <2>1. \A v \in Worker, k \in JobId : Executes(v, k)' /\ Executes(w, k)' => v = w
    BY <1>10, <1>13 DEF PairsOK, Pair, Owns, Holds
  <2> QED BY <1>9, <2>1 DEF OneExecutor, SystemInv
<1> QED BY <1>3, <1>8, <1>13, <1>14 DEF SystemInv

\* A report for a run that its daemon holds is accepted, and ends the run.
LEMMA ReportEnds ==
  ASSUME Inv, DaemonsOK, NEW w \in Worker, daemon[w].call = "sent", Reports(RequestOf(w)),
         Handle(RequestOf(w)), Holds(w, daemon[w].job)
  PROVE  jobs'[daemon[w].job].status # "running"
<1> DEFINE r == RequestOf(w)
           k == daemon[w].job
<1>1. Sendable(r) /\ r.from = w /\ r.job = k
  BY RequestSendable
<1>2. k \in JobId /\ r.status \in {"succeeded", "failed"} /\ r.phase \notin {"register", "claim", "output"}
  BY <1>1 DEF Sendable, Reports, Request
<1>3. Running(k) /\ Owned(k, w) /\ jobs[k].error # "disconnected"
  BY <1>2 DEF Holds, Owned, Exists, Running, Inv, RunDetailsMatch, DetailsMatch, Failed
<1>4. Acceptable(r)
  BY <1>1, <1>2, <1>3 DEF Acceptable
<1> HIDE DEF r, k
<1>5. Finish(k, w, r.status)
  BY <1>1, <1>2, <1>4 DEF Handle, CarryOut, r, k
<1>6. ~FinishAgain(k, w, r.status)
  BY <1>2, <1>3 DEF FinishAgain, Running
<1>7. FinishRunning(k, w, r.status)
  BY <1>5, <1>6 DEF Finish
<1>8. jobs'[k].status = r.status
  BY <1>2, <1>7 DEF FinishRunning, Inv, TypeOK, JobRow
<1> QED BY <1>2, <1>8 DEF k

\* The answer to an output path or to a report tells a daemon nothing new.
LEMMA SettleFacts ==
  ASSUME SystemInv, NEW w \in Worker, Answer(w), daemon[w].phase \notin {"register", "claim"}
  PROVE  LET d == daemon[w]
             e == daemon'[w]
         IN  /\ d.phase \in {"output", "recover", "report"}
             /\ daemon' = [daemon EXCEPT ![w] = e]
             /\ \A v \in Worker : v # w => daemon'[v] = daemon[v]
             /\ Shaped(e) /\ Task(e) = Task(d) /\ e.attempt = d.attempt /\ e.phase = d.phase
             /\ e.result = d.result
             /\ \A k \in JobId : SameRun(k)
<1> DEFINE d == daemon[w]
<1>1. daemon \in [Worker -> Daemon]
  BY DEF SystemInv, DaemonsOK
<1>2. d \in Daemon /\ Shaped(d) /\ d.phase \in {"output", "recover", "report"} /\ RequestOf(w).phase = d.phase
  BY AnswerFacts DEF RequestPhases
<1>3. \A k \in JobId : SameRun(k)
  BY AnswerFacts DEF NewRun
<1>4. PICK c \in {"accepted", "refused"} : daemon' = [daemon EXCEPT ![w] = [d EXCEPT !.call = c]]
  BY <1>2 DEF Answer, NoJob
<1> DEFINE e == [d EXCEPT !.call = c]
<1>5. /\ e \in Daemon /\ e.phase = d.phase /\ e.call = c /\ e.answer = d.answer
      /\ e.job = d.job /\ e.attempt = d.attempt /\ e.result = d.result
  BY <1>2 DEF Daemon
<1>6. /\ daemon'[w] = e /\ daemon' = [daemon EXCEPT ![w] = e]
      /\ \A v \in Worker : v # w => daemon'[v] = daemon[v]
  BY <1>1, <1>4
<1> HIDE DEF e
<1>7. Shaped(e) /\ Task(e) = Task(d)
  BY <1>2, <1>5, AnswerFacts DEF Shaped, Task
<1> QED BY <1>2, <1>3, <1>5, <1>6, <1>7

\* The answers to an output path and to a report.
LEMMA SettleInv ==
  ASSUME SystemInv, NEW w \in Worker, Answer(w), daemon[w].phase \notin {"register", "claim"}
  PROVE  SystemInv'
<1> DEFINE d == daemon[w]
           e == daemon'[w]
           r == RequestOf(w)
<1>1. /\ daemon \in [Worker -> Daemon] /\ run \in [JobId -> Run]
      /\ Inv /\ RunsOK /\ DaemonsOK
      /\ \A v \in Worker : Shaped(daemon[v])
      /\ \A v \in Worker, k \in JobId : Pair(v, k)
  BY DEF SystemInv, DaemonsOK, RunsOK, PairsOK
<1>2. d.call = "sent" /\ Handle(r) /\ UNCHANGED <<heartbeat, late, starts>>
  BY AnswerFacts
<1>3. r.phase = d.phase
  BY AnswerFacts
<1>4. Inv' /\ RunsOK' /\ \A k \in JobId : SameRun(k)
  BY AnswerFacts, SettleFacts
<1>5. daemon' = [daemon EXCEPT ![w] = e]
  BY SettleFacts
<1>6. e.phase = d.phase /\ e.attempt = d.attempt
  BY SettleFacts
<1>7. daemon'[w] = e /\ \A v \in Worker : v # w => daemon'[v] = daemon[v]
  BY SettleFacts
<1>8. d.phase \in {"output", "recover", "report"}
  BY SettleFacts
<1>9. Shaped(e) /\ Task(e) = Task(d)
  BY SettleFacts
<1>10. DaemonsOK'
  <2>1. daemon' \in [Worker -> Daemon] /\ \A v \in Worker : Shaped(daemon'[v])
    BY <1>1, <1>5, <1>7, <1>9 DEF Shaped
  <2> QED BY <1>1, <1>2, <2>1 DEF DaemonsOK
<1>11. \A v \in Worker, k \in JobId : v # w => Pair(v, k)' /\ (Executes(v, k)' => Executes(v, k))
  BY <1>1, <1>4, <1>7, PairStays
<1>12. ASSUME NEW k \in JobId PROVE Pair(w, k)' /\ (Executes(w, k)' => Executes(w, k))
  <2>1. SameRun(k) /\ Pair(w, k) /\ run[k].count \in Nat
    BY <1>1, <1>4 DEF Run
  <2>2. Executes(w, k)' <=> Executes(w, k)
    BY <1>6, <1>7, <1>9, <2>1 DEF Executes, SameRun
  <2>3. Knows(daemon[w], k)'
    BY <1>6, <1>7, <1>9, <2>1 DEF Knows, SameRun, Pair
  <2>4. Owns(w, k)'
    BY <2>1, <2>2 DEF Owns, SameRun, Pair
  <2>5. Unlaunched(w, k)'
    BY <1>6, <1>7, <2>1, <2>2 DEF Unlaunched, SameRun, Pair
  <2>6. LaunchedPast(w, k)'
    <3> SUFFICES ASSUME Holds(w, k)', run'[k].launched # 0
                 PROVE  FALSE
      BY DEF LaunchedPast
    <3>1. Holds(w, k) /\ run[k].launched # 0
      BY <2>1 DEF SameRun, Holds
    <3>2. Past(d, k, run[k].count)
      BY <2>1, <3>1 DEF Pair, LaunchedPast
    <3>3. d.phase \in {"recover", "report"} /\ d.job = k
      BY <1>8, <3>2 DEF Past
    <3>4. jobs'[k].status # "running"
      BY <1>1, <1>2, <1>3, <3>1, <3>3, ReportEnds DEF Reports
    <3> QED BY <3>4 DEF Holds, Running
  <2> QED BY <2>2, <2>3, <2>4, <2>5, <2>6 DEF Pair
<1>13. PairsOK' /\ OneExecutor'
  BY <1>11, <1>12, NobodyLearns DEF PairsOK, SystemInv
<1> QED BY <1>4, <1>10, <1>13 DEF SystemInv

-----------------------------------------------------------------------------
(* The theorems.                                                           *)

\* No daemon has been started, and no job submitted.
LEMMA SystemInitInv == ASSUME SystemInit PROVE SystemInv
<1>1. Inv
  BY InitInv DEF SystemInit
<1>2. /\ \A w \in Worker : daemon[w] = Down
      /\ \A k \in JobId : run[k] = [count |-> 0, launched |-> 0, ended |-> "no", asked |-> FALSE]
  BY DEF SystemInit
<1>3. Shaped(Down) /\ Down \in Daemon /\ Task(Down) = NoJob
  <2>1. Down \in Daemon
    BY DEF Down, Daemon, Phases
  <2> QED BY <2>1 DEF Down, Shaped, Task
<1>4. DaemonsOK
  BY <1>3 DEF SystemInit, DaemonsOK
<1>5. RunsOK
  BY DEF SystemInit, RunsOK, Run, LaunchedOnce
<1>6. \A w \in Worker, k \in JobId : Task(daemon[w]) # k /\ run[k].launched = 0
  BY <1>2, <1>3 DEF JobId, NoJob
<1>7. PairsOK /\ OneExecutor
  BY <1>6 DEF PairsOK, OneExecutor, Pair, Knows, Owns, Unlaunched, LaunchedPast, Executes
<1> QED BY <1>1, <1>4, <1>5, <1>7 DEF SystemInv

\* For the tables every step of the system is a step of the scheduler, and
\* every step keeps the invariant.
LEMMA SystemStep ==
  ASSUME SystemInv, [SystemNext]_systemVars
  PROVE  SystemInv' /\ [Next]_vars
<1>1. CASE UNCHANGED systemVars
  <2>1. UNCHANGED vars /\ UNCHANGED <<daemon, heartbeat, late, starts, run>>
    BY <1>1 DEF systemVars, vars
  <2>2. Inv'
    BY <2>1, NextInv DEF SystemInv
  <2>3. DaemonsOK' /\ RunsOK'
    BY <2>1 DEF SystemInv, DaemonsOK, RunsOK, LaunchedOnce
  <2>4. PairsOK' /\ OneExecutor'
    BY <2>1 DEF SystemInv, PairsOK, OneExecutor, Pair, Knows, Owns, Unlaunched, LaunchedPast,
                Executes, Holds, Running, vars
  <2> QED BY <2>1, <2>2, <2>3, <2>4 DEF SystemInv
<1>2. CASE Elsewhere
  <2>1. Next /\ \A k \in JobId : ~Begins(k)
    BY <1>2, ElsewhereIsNext DEF SystemInv
  <2> QED BY <1>2, <2>1, TablesStepInv DEF Elsewhere
<1>3. CASE \E r \in late : LateArrival(r)
  <2> PICK r \in late : LateArrival(r)
    BY <1>3
  <2>1. Sendable(r) /\ Handle(r) /\ Remember
    BY DEF SystemInv, DaemonsOK, LateArrival, Handle
  <2>2. [Next]_vars /\ \A k \in JobId : Begins(k) => run[k].count < MaxRuns
    BY <2>1, HandleIsNext DEF SystemInv
  <2> QED BY <2>1, <2>2, TablesStepInv DEF LateArrival
<1>4. CASE \E w \in Worker : LoopGoes(w)
  BY <1>4, LoopStepInv, LoopKeepsRuns DEF SystemInv
<1>5. CASE \E w \in Worker : Launch(w)
  BY <1>5, LaunchInv DEF Launch, Becomes
<1>6. CASE \E w \in Worker : Beat(w)
  BY <1>6, BeatInv
<1>7. CASE \E w \in Worker : Answer(w)
  <2> PICK w \in Worker : Answer(w)
    BY <1>7
  <2>1. Sendable(RequestOf(w)) /\ Handle(RequestOf(w))
    BY RequestSendable DEF Answer, SystemInv
  <2>2. [Next]_vars
    BY <2>1, HandleIsNext DEF SystemInv
  <2> QED BY <2>2, TellInv, SettleInv
<1> QED BY <1>1, <1>2, <1>3, <1>4, <1>5, <1>6, <1>7 DEF SystemNext, DaemonStep, LoopGoes

\* The inductive invariant holds of every state of every behaviour.
THEOREM SystemInvariance == SystemSpec => []SystemInv
<1>1. SystemInit => SystemInv
  BY SystemInitInv
<1>2. SystemInv /\ [SystemNext]_systemVars => SystemInv'
  BY SystemStep
<1> QED BY <1>1, <1>2, PTL DEF SystemSpec

\* Every variable of the daemons keeps to its values.
THEOREM DaemonTypeCorrect == SystemSpec => []DaemonTypeOK
<1>1. SystemInv => DaemonTypeOK
  BY DEF SystemInv, DaemonsOK, RunsOK, DaemonTypeOK, Sendable
<1> QED BY <1>1, SystemInvariance, PTL

\* No run of a job is launched twice, whatever is lost, delayed, given up or
\* restarted, with any number of daemons, jobs and late requests.
THEOREM NeverLaunchedTwice == SystemSpec => []LaunchedOnce
<1>1. SystemInv => LaunchedOnce
  BY DEF SystemInv, RunsOK
<1> QED BY <1>1, SystemInvariance, PTL

\* Daemons that lose answers, send late requests, crash and start again do to
\* the tables only what requests may do: everything proved of Scheduler holds
\* of the tables behind any number of such daemons.
THEOREM SystemImplementsScheduler == SystemSpec => Spec
<1>1. SystemInit => Init
  BY DEF SystemInit
<1>2. SystemInv /\ [SystemNext]_systemVars => [Next]_vars
  BY SystemStep
<1> QED BY <1>1, <1>2, SystemInvariance, PTL DEF SystemSpec, Spec

-----------------------------------------------------------------------------
(* What is recorded of a run.                                              *)

\* A daemon that handles the job it holds handles the latest run of it.
Fresh(w, k) == Holds(w, k) /\ Task(daemon[w]) = k => daemon[w].attempt = run[k].count

\* A success that a daemon reports is that of its process.
EndKnown(w, k) ==
  Executes(w, k) /\ daemon[w].result = "succeeded" => run[k].ended = "succeeded"

Open(k) == jobs[k].status # "succeeded" /\ jobs[k].error # "reported"

\* Nothing is recorded before the process has ended.
StillOpen(w, k) ==
  Executes(w, k) /\ daemon[w].phase \in BeforeLaunch \cup {"running"} => Open(k)

Told(w, k) == Fresh(w, k) /\ EndKnown(w, k) /\ StillOpen(w, k)

OutcomeInv == SuccessIsReal /\ \A w \in Worker, k \in JobId : Told(w, k)

\* The outcome of a run stays what it is until the process of the run ends.
KeepsEnd(k) == run'[k].count = run[k].count => run'[k].ended = run[k].ended

\* Nothing is recorded in this step.
NoNews(k) == /\ jobs'[k].status = "succeeded" => jobs[k].status = "succeeded"
             /\ jobs'[k].error = "reported" => jobs[k].error = "reported"

\* What is remembered when the tables change.
LEMMA RememberKeepsEnd == ASSUME RunsOK, Remember, NEW k \in JobId PROVE KeepsEnd(k)
<1>1. run[k] \in Run
  BY DEF RunsOK
<1>2. CASE Begins(k)
  <2>1. run'[k] = [count |-> run[k].count + 1, launched |-> 0, ended |-> "no", asked |-> FALSE]
    BY <1>2 DEF Remember, Begins, Running
  <2> QED BY <1>1, <2>1 DEF KeepsEnd, Run
<1>3. CASE ~Begins(k)
  <2>1. \E b : run'[k] = [run[k] EXCEPT !.asked = b]
    BY <1>3 DEF Remember, Begins, Running
  <2> QED BY <1>1, <2>1 DEF KeepsEnd, Run
<1> QED BY <1>2, <1>3

\* A daemon that learns nothing is still right about its run.
LEMMA ToldStays ==
  ASSUME NEW w \in Worker, NEW k \in JobId, Told(w, k), Knows(daemon[w], k),
         run[k] \in Run, daemon[w] \in Daemon,
         Task(daemon'[w]) = k => Task(daemon[w]) = k /\ daemon'[w].attempt = daemon[w].attempt,
         Executes(w, k) /\ daemon'[w].result = "succeeded" => daemon[w].result = "succeeded",
         Task(daemon'[w]) = k /\ daemon'[w].phase \in BeforeLaunch \cup {"running"}
           => daemon[w].phase \in BeforeLaunch \cup {"running"},
         NewRun(k) \/ SameRun(k), KeepsEnd(k) \/ ~Executes(w, k),
         NewRun(k) => ~Holds(w, k)',
         NoNews(k) \/ ~Executes(w, k) \/ daemon'[w].phase \notin BeforeLaunch \cup {"running"}
  PROVE  Told(w, k)'
<1>1. run[k].count \in Nat /\ daemon[w].attempt \in Nat
  BY DEF Run, Daemon
<1>2. CASE NewRun(k)
  <2>1. ~Executes(w, k)'
    BY <1>1, <1>2 DEF NewRun, Executes, Knows
  <2> QED BY <1>2, <2>1 DEF Told, Fresh, EndKnown, StillOpen
<1>3. CASE SameRun(k)
  <2>1. run'[k].count = run[k].count /\ (Executes(w, k) => run'[k].ended = run[k].ended)
    BY <1>3 DEF SameRun, KeepsEnd
  <2>2. Executes(w, k)' => Executes(w, k) /\ Task(daemon'[w]) = k
    BY <2>1 DEF Executes
  <2>3. Fresh(w, k)'
    <3>1. Holds(w, k)' => Holds(w, k)
      BY <1>3 DEF SameRun, Holds
    <3> QED BY <2>1, <3>1 DEF Told, Fresh
  <2>4. EndKnown(w, k)'
    BY <2>1, <2>2 DEF Told, EndKnown
  <2>5. StillOpen(w, k)'
    BY <2>2 DEF Told, StillOpen, Open, NoNews
  <2> QED BY <2>3, <2>4, <2>5 DEF Told
<1> QED BY <1>2, <1>3

\* A success stays real while nothing new is recorded.
LEMMA SuccessStays ==
  ASSUME SuccessIsReal, NEW k \in JobId, NewRun(k) \/ SameRun(k), KeepsEnd(k), NoNews(k)
  PROVE  jobs'[k].status = "succeeded" => run'[k].ended = "succeeded"
BY DEF SuccessIsReal, NewRun, SameRun, KeepsEnd, NoNews, Begins, Running

\* Users and time record no outcome but that a worker is lost.
LEMMA ElsewhereNoNews ==
  ASSUME Inv, Elsewhere, NEW k \in JobId PROVE NoNews(k)
<1>1. jobs[k] \in JobRow
  BY DEF Inv, TypeOK
<1>2. CASE Submit
  <2>1. jobs'[k] = jobs[k] \/ \E p \in Int : jobs'[k] = Row("queued", p)
    BY <1>2 DEF Submit, Inv, TypeOK
  <2> QED BY <2>1, RowType DEF NoNews
<1>3. CASE List \/ Clear \/ \E i \in JobId : Remove({i})
  <2>1. jobs'[k] = ExpiredJobs[k] \/ jobs'[k] = AbsentJob
    BY <1>3 DEF List, Clear, Remove
  <2>2. ExpiredJobs[k] = jobs[k] \/ (ExpiredJobs[k].status = "failed" /\ ExpiredJobs[k].error = "disconnected")
    BY <1>1 DEF ExpiredJobs, JobRow
  <2> QED BY <2>1, <2>2, AbsentJobType DEF NoNews
<1>4. CASE \E i \in JobId : Retry(<<i>>)
  <2>1. jobs'[k] = jobs[k] \/ \E p \in Int : jobs'[k] = Row("queued", p)
    BY <1>4, BatchOfOne, RetryRows
  <2> QED BY <2>1, RowType DEF NoNews
<1>5. CASE \E i \in JobId : Cancel(i)
  <2>1. jobs'[k] = jobs[k] \/ jobs'[k] = [jobs[k] EXCEPT !.cancel_requested = 1]
    BY <1>5 DEF Cancel, Inv, TypeOK
  <2> QED BY <1>1, <2>1 DEF NoNews, JobRow
<1>6. CASE Tick
  BY <1>6 DEF Tick, NoNews
<1> QED BY <1>2, <1>3, <1>4, <1>5, <1>6 DEF Elsewhere

\* Nor do the requests of a daemon, except its reports.
LEMMA RequestNoNews ==
  ASSUME Inv, NEW r, Sendable(r), Handle(r), ~Reports(r), NEW k \in JobId PROVE NoNews(k)
<1>1. jobs[k] \in JobRow
  BY DEF Inv, TypeOK
<1>2. CASE UNCHANGED jobs
  BY <1>2 DEF NoNews
<1>3. CASE \E i \in JobId : ClaimNext(r.from, i)
  <2>1. jobs'[k] = jobs[k] \/ jobs'[k] = [jobs[k] EXCEPT !.status = "running", !.worker_id = r.from]
    BY <1>3 DEF ClaimNext, Inv, TypeOK
  <2> QED BY <1>1, <2>1 DEF NoNews, JobRow
<1>4. CASE r.phase = "output" /\ Output(r.job, r.from)
  <2>1. jobs'[k] = jobs[k] \/ jobs'[k] = [jobs[k] EXCEPT !.output_path = "path"]
    BY <1>4 DEF Output, Sendable, Inv, TypeOK
  <2> QED BY <1>1, <2>1 DEF NoNews, JobRow
<1> QED BY <1>2, <1>3, <1>4 DEF Handle, CarryOut, Register, Claim, ClaimHeld, ClaimNothing, vars

\* Tables that change without news leave the daemons right about their runs.
LEMMA TablesOutcome ==
  ASSUME SystemInv, OutcomeInv, [Next]_vars, Remember, daemon' = daemon,
         \A k \in JobId : ~Begins(k) /\ NoNews(k)
  PROVE  OutcomeInv'
<1>1. /\ Inv /\ RunsOK /\ SuccessIsReal
      /\ \A w \in Worker, k \in JobId : Told(w, k) /\ Knows(daemon[w], k) /\ daemon[w] \in Daemon
      /\ \A k \in JobId : run[k] \in Run
  BY DEF SystemInv, DaemonsOK, RunsOK, PairsOK, Pair, OutcomeInv
<1>2. \A k \in JobId : SameRun(k) /\ ~NewRun(k) /\ KeepsEnd(k)
  BY <1>1, RunsFollow, RememberKeepsEnd DEF NewRun
<1>3. \A w \in Worker, k \in JobId : Told(w, k)'
  BY <1>1, <1>2, ToldStays
<1>4. SuccessIsReal'
  BY <1>1, <1>2, SuccessStays DEF SuccessIsReal
<1> QED BY <1>3, <1>4 DEF OutcomeInv

\* A daemon is told of a run that is open.
LEMMA TellOutcome ==
  ASSUME SystemInv, SystemInv', OutcomeInv, NEW w \in Worker, Answer(w),
         daemon[w].phase \in {"register", "claim"}
  PROVE  OutcomeInv'
<1> DEFINE i == workers'[w].current_job_id
           e == daemon'[w]
<1>1. /\ Inv /\ RunsOK /\ SuccessIsReal
      /\ \A v \in Worker, k \in JobId : Told(v, k) /\ Knows(daemon[v], k) /\ daemon[v] \in Daemon
      /\ \A k \in JobId : run[k] \in Run
  BY DEF SystemInv, DaemonsOK, RunsOK, PairsOK, Pair, OutcomeInv
<1>2. \A k \in JobId : NewRun(k) \/ SameRun(k)
  BY AnswerFacts
<1>3. \A k \in JobId : KeepsEnd(k) /\ NoNews(k)
  <2>1. ~Reports(RequestOf(w))
    BY AnswerFacts DEF Reports
  <2> QED BY <1>1, <2>1, AnswerFacts, RememberKeepsEnd, RequestNoNews
<1>4. SuccessIsReal'
  BY <1>1, <1>2, <1>3, SuccessStays DEF SuccessIsReal
<1>5. \A k \in JobId : NewRun(k) => Holds(w, k)'
  <2> SUFFICES ASSUME NEW k \in JobId, NewRun(k) PROVE Holds(w, k)'
    OBVIOUS
  <2>1. Begins(k) /\ daemon[w].phase = "claim"
    BY AnswerFacts DEF NewRun
  <2>2. RequestOf(w).phase = "claim" /\ RequestOf(w).from = w /\ Handle(RequestOf(w))
    BY <2>1, AnswerFacts, RequestSendable DEF SystemInv
  <2>3. \E j \in JobId : ClaimNext(w, j)
    BY <2>1, <2>2 DEF Handle, CarryOut, Reports, Claim, ClaimHeld, ClaimNothing, vars, Begins, Running
  <2> QED BY <1>1, <2>1, <2>3 DEF ClaimNext, Begins, Holds, Running, Inv, TypeOK
<1>6. ASSUME NEW v \in Worker, v # w, NEW k \in JobId PROVE Told(v, k)'
  <2>1. daemon'[v] = daemon[v]
    BY <1>6, TellFacts
  <2>2. NewRun(k) => ~Holds(v, k)'
    BY <1>5, <1>6, AnswerFacts, AnswerNamesHeld, <1>1
  <2> QED BY <1>1, <1>2, <1>3, <2>1, <2>2, ToldStays
<1>7. ASSUME NEW k \in JobId PROVE Told(w, k)'
  <2>1. /\ Shaped(e) /\ e.phase \in {"register", "claim"} /\ Task(e) = i
        /\ i # NoJob => e.attempt = run'[i].count
        /\ Holds(w, k)' <=> i = k
    BY TellFacts
  <2>2. k # NoJob
    BY DEF JobId, NoJob
  <2>3. Fresh(w, k)'
    BY <2>1, <2>2 DEF Fresh
  <2>4. EndKnown(w, k)'
    BY <2>1 DEF EndKnown, Shaped
  <2>5. StillOpen(w, k)'
    <3>1. Holds(w, k)' => Open(k)'
      BY AnswerFacts DEF Holds, Open, Running, Inv, RunDetailsMatch, DetailsMatch, Failed
    <3> QED BY <2>1, <3>1 DEF StillOpen, Executes
  <2> QED BY <2>3, <2>4, <2>5 DEF Told
<1> QED BY <1>4, <1>6, <1>7 DEF OutcomeInv

\* A report is about the run that its daemon executes, and says what happened.
LEMMA SettleOutcome ==
  ASSUME SystemInv, OutcomeInv, NEW w \in Worker, Answer(w),
         daemon[w].phase \notin {"register", "claim"}
  PROVE  OutcomeInv'
<1> DEFINE d == daemon[w]
           e == daemon'[w]
           r == RequestOf(w)
           i == d.job
<1>1. /\ Inv /\ RunsOK /\ SuccessIsReal /\ DaemonsOK
      /\ \A v \in Worker, k \in JobId : Told(v, k) /\ Knows(daemon[v], k) /\ daemon[v] \in Daemon
      /\ \A k \in JobId : run[k] \in Run
  BY DEF SystemInv, DaemonsOK, RunsOK, PairsOK, Pair, OutcomeInv
<1>2. /\ d.phase \in {"output", "recover", "report"}
      /\ \A v \in Worker : v # w => daemon'[v] = daemon[v]
      /\ Task(e) = Task(d) /\ e.attempt = d.attempt /\ e.phase = d.phase /\ e.result = d.result
      /\ \A k \in JobId : SameRun(k)
  BY SettleFacts
<1>3. \A k \in JobId : KeepsEnd(k) /\ ~NewRun(k)
  BY <1>1, <1>2, AnswerFacts, RememberKeepsEnd DEF NewRun, SameRun, Begins
<1>4. ASSUME NEW v \in Worker, NEW k \in JobId,
             NoNews(k) \/ ~Executes(v, k) \/ daemon'[v].phase \notin BeforeLaunch \cup {"running"}
      PROVE  Told(v, k)'
  <2>1. /\ Task(daemon'[v]) = Task(daemon[v]) /\ daemon'[v].attempt = daemon[v].attempt
        /\ daemon'[v].phase = daemon[v].phase /\ daemon'[v].result = daemon[v].result
    BY <1>2
  <2> QED BY <1>1, <1>2, <1>3, <1>4, <2>1, ToldStays
<1>5. CASE \A k \in JobId : NoNews(k)
  <2>1. SuccessIsReal'
    BY <1>1, <1>2, <1>3, <1>5, SuccessStays DEF SuccessIsReal
  <2> QED BY <1>4, <1>5, <2>1 DEF OutcomeInv
<1>6. CASE ~\A k \in JobId : NoNews(k)
  <2>1. Handle(r) /\ Sendable(r) /\ r.phase = d.phase /\ r.from = w /\ r.job = i
        /\ r.status = Status(d)
    BY <1>1, AnswerFacts, RequestSendable DEF RequestOf
  <2>2. Reports(r) /\ ~UNCHANGED vars
    <3>1. ~UNCHANGED vars
      BY <1>6 DEF vars, NoNews
    <3> QED BY <1>1, <1>6, <2>1, <3>1, RequestNoNews
  <2>3. i \in JobId /\ r.status \in {"succeeded", "failed"} /\ d.phase \in {"recover", "report"}
    BY <2>1, <2>2 DEF Sendable, Request, Reports
  <2> HIDE DEF r, i
  <2>4. FinishRunning(i, w, r.status)
    <3>1. Finish(i, w, r.status)
      BY <2>1, <2>2, <2>3 DEF Handle, CarryOut
    <3> QED BY <2>2, <3>1 DEF Finish, FinishAgain
  <2>5. Holds(w, i)
    BY <2>4 DEF FinishRunning, Owned, Holds
  <2>6. Executes(w, i)
    <3>1. Task(d) = i
      BY <2>3 DEF Task, i
    <3> QED BY <1>1, <2>3, <2>5, <3>1 DEF Told, Fresh, Executes
  <2>7. \A k \in JobId : k # i => NoNews(k)
    BY <1>1, <2>3, <2>4 DEF FinishRunning, NoNews
  <2>8. jobs'[i].status = r.status
    BY <1>1, <2>3, <2>4 DEF FinishRunning, Inv, TypeOK, JobRow
  <2>9. ASSUME NEW v \in Worker, NEW k \in JobId PROVE Told(v, k)'
    <3>1. CASE k # i
      BY <1>4, <2>7, <3>1
    <3>2. CASE k = i /\ v # w
      BY <1>4, <2>3, <2>6, <3>2 DEF SystemInv, OneExecutor
    <3>3. CASE k = i /\ v = w
      BY <1>2, <1>4, <2>3, <3>3 DEF BeforeLaunch
    <3> QED BY <3>1, <3>2, <3>3
  <2>10. ASSUME NEW k \in JobId, jobs'[k].status = "succeeded" PROVE run'[k].ended = "succeeded"
    <3>1. CASE k # i
      BY <1>1, <1>2, <1>3, <2>7, <2>10, <3>1, SuccessStays
    <3>2. CASE k = i
      <4>1. d.result = "succeeded"
        BY <2>1, <2>8, <2>10, <3>2 DEF Status
      <4>2. run[i].ended = "succeeded"
        BY <1>1, <2>3, <2>6, <4>1 DEF Told, EndKnown
      <4> QED BY <1>2, <1>3, <2>3, <3>2, <4>2 DEF KeepsEnd, SameRun
    <3> QED BY <3>1, <3>2
  <2> QED BY <2>9, <2>10 DEF OutcomeInv, SuccessIsReal
<1> QED BY <1>5, <1>6

\* The loop alone records nothing, and only the end of the process brings a
\* success.
LEMMA LoopOutcome ==
  ASSUME SystemInv, OutcomeInv, NEW w \in Worker, LoopGoes(w), ~Exit(w), ~Kill(w)
  PROVE  OutcomeInv'
<1> DEFINE d == daemon[w]
           e == daemon'[w]
<1>1. /\ Inv /\ RunsOK /\ SuccessIsReal /\ DaemonsOK
      /\ \A v \in Worker, k \in JobId : Told(v, k) /\ Knows(daemon[v], k) /\ daemon[v] \in Daemon
      /\ \A k \in JobId : run[k] \in Run
      /\ daemon \in [Worker -> Daemon]
  BY DEF SystemInv, DaemonsOK, RunsOK, PairsOK, Pair, OutcomeInv
<1>2. /\ UNCHANGED vars /\ \A k \in JobId : SameRun(k)
      /\ Goes(w)
  BY <1>1, LoopKeepsRuns, LoopKeepsShape
<1>3. run' = run
  BY DEF LoopGoes, Start, Send, TimeOut, LoseAnswer, GiveUp, AfterRegister, AfterClaim, Activate,
         AfterOutput, Interrupt, LaunchFails, AfterReport, ReportRefused,
         SkipDisabled, Stop, Halt, Crash, RequestCancellation, LoopStep, Exits
<1>4. \A k \in JobId : KeepsEnd(k) /\ NoNews(k) /\ ~NewRun(k)
  BY <1>2, <1>3 DEF KeepsEnd, NoNews, NewRun, Begins, Running, vars
<1>5. SuccessIsReal'
  BY <1>1, <1>2, <1>4, SuccessStays DEF SuccessIsReal
<1>6. Follows(d, e) /\ \A v \in Worker : v # w => daemon'[v] = daemon[v]
  BY <1>1, <1>2 DEF Goes
<1>7. d.phase = "running" => e.phase # "report"
  <2> SUFFICES ASSUME d.phase = "running" PROVE e.phase # "report"
    OBVIOUS
  <2>1. d.call = "unsent"
    BY <1>1 DEF DaemonsOK, Shaped
  <2>2. GiveUp(w) \/ Stop(w) \/ Crash(w) \/ RequestCancellation(w)
    BY <2>1 DEF LoopGoes, Start, Send, TimeOut, LoseAnswer, AfterRegister, AfterClaim,
         Activate, AfterOutput, Interrupt, LaunchFails, AfterReport, ReportRefused, SkipDisabled,
         Halt, Up, RequestPhases
  <2>3. CASE GiveUp(w)
    BY <1>1, <2>3 DEF GiveUp, Becomes, Daemon
  <2>4. CASE Stop(w)
    BY <1>1, <2>4 DEF Stop, LoopStep, Becomes, Daemon
  <2>5. CASE Crash(w)
    BY <1>1, <2>5 DEF Crash, Becomes, Down
  <2>6. CASE RequestCancellation(w)
    BY <1>1, <2>6 DEF RequestCancellation, Becomes, Daemon
  <2> QED BY <2>2, <2>3, <2>4, <2>5, <2>6
<1>8. ASSUME NEW v \in Worker, NEW k \in JobId PROVE Told(v, k)'
  <2>1. CASE v # w
    BY <1>1, <1>2, <1>4, <1>6, <2>1, ToldStays
  <2>2. CASE v = w
    <3>1. k # NoJob
      BY DEF JobId, NoJob
    <3>2. Task(e) = k => Task(d) = k /\ e.attempt = d.attempt
      BY <1>6, <3>1 DEF Follows
    <3>3. e.result = "succeeded" => d.result = "succeeded"
      BY <1>6, <1>7 DEF Follows, Shaped
    <3>4. Task(e) = k /\ e.phase \in BeforeLaunch \cup {"running"}
            => d.phase \in BeforeLaunch \cup {"running"}
      BY <1>6, <3>1 DEF Follows
    <3> HIDE DEF d, e
    <3> QED BY <1>1, <1>2, <1>4, <2>2, <3>2, <3>3, <3>4, ToldStays DEF d, e
  <2> QED BY <2>1, <2>2
<1> QED BY <1>5, <1>8 DEF OutcomeInv

\* The end of a process is that of the run its daemon executes.
LEMMA EndOutcome ==
  ASSUME SystemInv, OutcomeInv, NEW w \in Worker, Exit(w) \/ Kill(w)
  PROVE  OutcomeInv'
<1> DEFINE d == daemon[w]
           e == daemon'[w]
           i == d.job
<1>1. /\ Inv /\ RunsOK /\ SuccessIsReal /\ DaemonsOK
      /\ \A v \in Worker, k \in JobId : Told(v, k) /\ Knows(daemon[v], k) /\ daemon[v] \in Daemon
      /\ \A k \in JobId : run[k] \in Run
      /\ daemon \in [Worker -> Daemon] /\ run \in [JobId -> Run] /\ Shaped(d)
  BY DEF SystemInv, DaemonsOK, RunsOK, PairsOK, Pair, OutcomeInv
<1>2. UNCHANGED vars /\ \A k \in JobId : SameRun(k)
  BY <1>1, LoopKeepsRuns DEF LoopGoes
<1>3. /\ d.phase = "running" /\ i \in JobId /\ Task(d) = i
      /\ Current(d) <=> Executes(w, i)
  <2>1. d.phase = "running"
    BY DEF Exit, Kill, Ends
  <2>2. i \in JobId /\ Task(d) = i
    BY <1>1, <2>1 DEF Shaped, Daemon, Task
  <2> QED BY <2>1, <2>2 DEF Current, Executes
<1>4. PICK outcome \in {"succeeded", "failed"}, result \in {"succeeded", "failed", "cancelled"} :
        /\ result = "succeeded" => outcome = "succeeded"
        /\ daemon' = [daemon EXCEPT ![w] = [Goto(d, "report") EXCEPT !.result = result]]
        /\ run' = IF Current(d) THEN [run EXCEPT ![i].ended = outcome] ELSE run
  BY DEF Exit, Kill, Ends, Becomes, Interrupted
<1>5. /\ Task(e) = i /\ e.attempt = d.attempt /\ e.phase = "report" /\ e.result = result
      /\ \A v \in Worker : v # w => daemon'[v] = daemon[v]
  <2> DEFINE g == [Goto(d, "report") EXCEPT !.result = result]
  <2>1. g.phase = "report" /\ g.job = i /\ g.attempt = d.attempt /\ g.result = result
    <3>1. Shaped(d) /\ d.phase \in {"output", "launch", "running"}
      BY <1>1, <1>3
    <3>2. result = "succeeded" => d.phase = "running"
      BY <1>3
    <3> HIDE DEF d
    <3> QED BY <3>1, <3>2, ReportFollows DEF i
  <2>2. daemon' = [daemon EXCEPT ![w] = g]
    BY <1>4
  <2> HIDE DEF g
  <2>3. e = g /\ \A v \in Worker : v # w => daemon'[v] = daemon[v]
    BY <1>1, <2>2
  <2> QED BY <2>1, <2>3 DEF Task
<1>6. \A k \in JobId : ~(k = i /\ Executes(w, i)) => run'[k] = run[k]
  BY <1>1, <1>3, <1>4
<1>7. Executes(w, i) => run'[i].ended = outcome
  <2>1. Executes(w, i) => run'[i] = [run[i] EXCEPT !.ended = outcome]
    BY <1>1, <1>3, <1>4
  <2> QED BY <1>1, <1>3, <2>1 DEF Run
<1>8. \A k \in JobId : NoNews(k) /\ ~NewRun(k)
  BY <1>2 DEF NoNews, NewRun, Begins, Running, vars
<1>9. SuccessIsReal'
  <2> SUFFICES ASSUME NEW k \in JobId, jobs'[k].status = "succeeded"
               PROVE  run'[k].ended = "succeeded"
    BY DEF SuccessIsReal
  <2>1. jobs[k].status = "succeeded"
    BY <1>2 DEF vars
  <2>2. ~(k = i /\ Executes(w, i))
    BY <1>1, <1>3, <2>1 DEF Told, StillOpen, Open
  <2> QED BY <1>1, <1>6, <2>1, <2>2 DEF SuccessIsReal
<1> HIDE DEF d, e, i
<1>10. ASSUME NEW v \in Worker, NEW k \in JobId PROVE Told(v, k)'
  <2>1. CASE v # w
    <3>1. KeepsEnd(k) \/ ~Executes(v, k)
      BY <1>3, <1>6, <2>1 DEF KeepsEnd, SystemInv, OneExecutor
    <3> QED BY <1>1, <1>2, <1>5, <1>8, <2>1, <3>1, ToldStays
  <2>2. CASE v = w /\ ~(k = i /\ Executes(w, i))
    <3>1. ~Executes(w, k)
      BY <1>3, <2>2 DEF Executes, d
    <3>2. e.phase \notin BeforeLaunch \cup {"running"}
      BY <1>5 DEF BeforeLaunch
    <3> QED BY <1>1, <1>2, <1>3, <1>5, <1>8, <2>2, <3>1, <3>2, ToldStays DEF d, e
  <2>3. CASE v = w /\ k = i /\ Executes(w, i)
    <3>1. EndKnown(w, k)'
      BY <1>4, <1>5, <1>7, <2>3 DEF EndKnown, e
    <3>2. StillOpen(w, k)'
      BY <1>5 DEF StillOpen, BeforeLaunch, e
    <3>3. Fresh(w, k)'
      BY <1>2, <1>5, <2>3 DEF Fresh, Executes, SameRun, d, e
    <3> QED BY <2>3, <3>1, <3>2, <3>3 DEF Told
  <2> QED BY <2>1, <2>2, <2>3
<1> QED BY <1>9, <1>10 DEF OutcomeInv

\* A launch is not an outcome.
LEMMA LaunchOutcome ==
  ASSUME SystemInv, OutcomeInv, NEW w \in Worker, Launch(w)
  PROVE  OutcomeInv'
<1> DEFINE d == daemon[w]
           e == daemon'[w]
<1>1. /\ Inv /\ RunsOK /\ SuccessIsReal /\ DaemonsOK
      /\ \A v \in Worker, k \in JobId : Told(v, k) /\ Knows(daemon[v], k) /\ daemon[v] \in Daemon
      /\ \A k \in JobId : run[k] \in Run
      /\ daemon \in [Worker -> Daemon] /\ run \in [JobId -> Run] /\ Shaped(d)
  BY DEF SystemInv, DaemonsOK, RunsOK, PairsOK, Pair, OutcomeInv
<1>2. /\ UNCHANGED vars /\ d.phase = "launch" /\ daemon' = [daemon EXCEPT ![w] = [d EXCEPT !.phase = "running"]]
      /\ run' = run \/ run' = [run EXCEPT ![d.job].launched = @ + 1]
  BY DEF Launch, Becomes
<1>3. /\ Task(e) = Task(d) /\ e.attempt = d.attempt /\ e.result = d.result /\ e.phase = "running"
      /\ \A v \in Worker : v # w => daemon'[v] = daemon[v]
  BY <1>1, <1>2 DEF Task, Daemon
<1>4. \A k \in JobId : run'[k].count = run[k].count /\ run'[k].ended = run[k].ended
  <2>1. \A k \in JobId : run'[k] = run[k] \/ run'[k] = [run[k] EXCEPT !.launched = @ + 1]
    BY <1>1, <1>2
  <2> QED BY <1>1, <2>1 DEF Run
<1>5. \A k \in JobId : jobs'[k] = jobs[k]
  BY <1>2 DEF vars
<1>6. SuccessIsReal'
  BY <1>1, <1>4, <1>5 DEF SuccessIsReal
<1>7. ASSUME NEW v \in Worker, NEW k \in JobId PROVE Told(v, k)'
  <2>1. /\ Task(daemon'[v]) = Task(daemon[v]) /\ daemon'[v].attempt = daemon[v].attempt
        /\ daemon'[v].result = daemon[v].result
        /\ daemon'[v].phase \in BeforeLaunch \cup {"running"}
             => daemon[v].phase \in BeforeLaunch \cup {"running"}
    BY <1>2, <1>3 DEF BeforeLaunch
  <2> QED BY <1>1, <1>4, <1>5, <2>1
        DEF Told, Fresh, EndKnown, StillOpen, Open, Executes, Holds, Running
<1> QED BY <1>6, <1>7 DEF OutcomeInv

\* No request is late but registrations and output paths.
HarmlessLate == \A r \in late : r.phase \in {"register", "output"}

\* Every step but the arrival of a late claim or report keeps outcomes real.
LEMMA OutcomeStep ==
  ASSUME SystemInv, SystemInv', OutcomeInv, HarmlessLate, [SystemNext]_systemVars
  PROVE  OutcomeInv'
<1>1. CASE UNCHANGED <<jobs, daemon, run>>
  BY <1>1 DEF OutcomeInv, SuccessIsReal, Told, Fresh, EndKnown, StillOpen, Open, Executes, Holds,
              Running
<1>2. CASE Elsewhere
  <2>1. Next /\ \A k \in JobId : ~Begins(k) /\ NoNews(k)
    BY <1>2, ElsewhereIsNext, ElsewhereNoNews DEF SystemInv
  <2> QED BY <1>2, <2>1, TablesOutcome DEF Elsewhere
<1>3. CASE \E w \in Worker : LoopGoes(w)
  BY <1>3, LoopOutcome, EndOutcome
<1>4. CASE \E w \in Worker : Launch(w)
  BY <1>4, LaunchOutcome
<1>5. CASE \E w \in Worker : Beat(w)
  BY <1>1, <1>5 DEF Beat, BeatAnswered, Heartbeat
<1>6. CASE \E w \in Worker : Answer(w)
  BY <1>6, TellOutcome, SettleOutcome
<1>7. CASE \E r \in late : LateArrival(r)
  <2> PICK r \in late : LateArrival(r)
    BY <1>7
  <2>1. Sendable(r) /\ Handle(r) /\ Remember /\ r.phase \in {"register", "output"}
    BY DEF SystemInv, DaemonsOK, LateArrival, Handle, HarmlessLate
  <2>2. [Next]_vars /\ \A k \in JobId : ~Begins(k)
    BY <2>1, HandleIsNext DEF SystemInv
  <2>3. \A k \in JobId : NoNews(k)
    BY <2>1, RequestNoNews DEF SystemInv, Reports
  <2> QED BY <2>1, <2>2, <2>3, TablesOutcome DEF LateArrival
<1>8. CASE UNCHANGED systemVars
  BY <1>1, <1>8 DEF systemVars
<1> QED BY <1>2, <1>3, <1>4, <1>5, <1>6, <1>7, <1>8 DEF SystemNext, DaemonStep, LoopGoes

\* No daemon has been told of a run before the first one starts.
LEMMA OutcomeInit == ASSUME SystemInit PROVE OutcomeInv
<1>1. \A w \in Worker : daemon[w] = Down
  BY DEF SystemInit
<1>2. \A k \in JobId : jobs[k].status = "absent" /\ k # NoJob
  BY AbsentJobType DEF SystemInit, Init, JobId, NoJob
<1>3. \A w \in Worker, k \in JobId : Task(daemon[w]) # k
  BY <1>1, <1>2 DEF Down, Task
<1> QED BY <1>2, <1>3 DEF OutcomeInv, SuccessIsReal, Told, Fresh, EndKnown, StillOpen, Executes

\* What the invariant says of outcomes.
LEMMA OutcomeInvSuffices == ASSUME SystemInv, OutcomeInv PROVE OutcomesAreReal
<1>1. ASSUME NEW w \in Worker, daemon[w].phase = "running", Current(daemon[w])
      PROVE  Open(daemon[w].job)
  <2>1. Shaped(daemon[w]) /\ daemon[w] \in Daemon
    BY DEF SystemInv, DaemonsOK, Shaped
  <2>2. daemon[w].job \in JobId /\ Task(daemon[w]) = daemon[w].job
    BY <1>1, <2>1 DEF Shaped, Daemon, Task
  <2> QED BY <1>1, <2>2 DEF OutcomeInv, Told, StillOpen, Executes, Current
<1> QED BY <1>1 DEF OutcomesAreReal, OutcomeInv, NoOutcomeWhileRunning, Open

\* What the controller records is what happened, in every behaviour in which no
\* claim and no report arrives after its client has given it up: any other
\* request may come late, every answer may be lost, and daemons crash, give up
\* and start again.  The hypothesis is needed: a late report may be taken for
\* that of a later run of its job (LateReportsRejected is violated), and a late
\* claim may start a run of the very job whose earlier run the daemon reports.
THEOREM OutcomesAlwaysReal == SystemSpec /\ []HarmlessLate => []OutcomesAreReal
<1>1. SystemInit => OutcomeInv
  BY OutcomeInit
<1>2. SystemInv /\ SystemInv' /\ OutcomeInv /\ HarmlessLate /\ [SystemNext]_systemVars => OutcomeInv'
  BY OutcomeStep
<1>3. SystemInv /\ OutcomeInv => OutcomesAreReal
  BY OutcomeInvSuffices
<1> QED BY <1>1, <1>2, <1>3, SystemInvariance, PTL DEF SystemSpec

\* So it is when the network loses requests and answers but delays none: the
\* hypothesis holds of every behaviour with MaxLate = 0.
THEOREM OutcomesRealWithoutDelay == ASSUME MaxLate = 0 PROVE SystemSpec => []OutcomesAreReal
<1>1. SystemInit => late = {}
  BY DEF SystemInit
<1>2. late = {} /\ [SystemNext]_systemVars => (late = {})'
  <2> SUFFICES ASSUME late = {}, [SystemNext]_systemVars PROVE late' = {}
    OBVIOUS
  <2>1. ~(Cardinality(late) < MaxLate)
    BY FS_EmptySet
  <2>2. ASSUME NEW w \in Worker, DaemonStep(w) PROVE late' = late
    <3>1. CASE TimeOut(w) \/ Crash(w)
      BY <2>1, <3>1 DEF TimeOut, Crash
    <3>2. CASE Start(w) \/ Send(w) \/ Answer(w) \/ LoseAnswer(w) \/ GiveUp(w)
      BY <3>2 DEF Start, Send, Answer, LoseAnswer, GiveUp
    <3>3. CASE AfterRegister(w) \/ AfterClaim(w) \/ Activate(w) \/ AfterOutput(w) \/ Interrupt(w)
      BY <3>3 DEF AfterRegister, AfterClaim, Activate, AfterOutput, Interrupt, LoopStep
    <3>4. CASE LaunchFails(w) \/ Launch(w) \/ Exit(w) \/ Kill(w)
      BY <3>4 DEF LaunchFails, Launch, Exit, Kill, Ends, LoopStep
    <3>5. CASE AfterReport(w) \/ ReportRefused(w) \/ SkipDisabled(w) \/ Stop(w) \/ Halt(w)
      BY <3>5 DEF AfterReport, ReportRefused, SkipDisabled, Stop, Halt, LoopStep, Exits
    <3>6. CASE Beat(w) \/ RequestCancellation(w)
      BY <3>6 DEF Beat, BeatAnswered, RequestCancellation
    <3> QED BY <2>2, <3>1, <3>2, <3>3, <3>4, <3>5, <3>6 DEF DaemonStep
  <2>3. CASE Elsewhere
    BY <2>3 DEF Elsewhere
  <2>4. CASE UNCHANGED systemVars
    BY <2>4 DEF systemVars
  <2> QED BY <2>2, <2>3, <2>4 DEF SystemNext
<1>3. late = {} => HarmlessLate
  BY DEF HarmlessLate
<1> QED BY <1>1, <1>2, <1>3, OutcomesAlwaysReal, PTL DEF SystemSpec
=============================================================================
