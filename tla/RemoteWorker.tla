---------------------------- MODULE RemoteWorker ----------------------------
(***************************************************************************)
(* Worker daemons and their controller: worker/worker.go, client.go,       *)
(* active_job.go, job_execution.go and executor_linux.go, over the tables  *)
(* of Scheduler.                                                           *)
(*                                                                         *)
(* A daemon is a sequential job loop and a heartbeat goroutine that share  *)
(* the struct activeJobState and the flag remoteDisabled.  The loop makes  *)
(* one request at a time and repeats it until it is answered (client.go,   *)
(* post).  An attempt may fail before the controller sees it, after the    *)
(* controller has carried it out, or, when the client gave up waiting,     *)
(* even before the controller carries it out: such a late request is still *)
(* on its way when the client has sent the next one.                       *)
(*                                                                         *)
(* Daemons are stopped, crash and start again.  Local fallback jobs are    *)
(* left to a module of their own; here the loop simply claims again.       *)
(***************************************************************************)
EXTENDS Scheduler

CONSTANTS MaxStarts,  \* bound: how often a daemon is started
          MaxRuns,    \* bound: how often one job id is assigned
          MaxLate     \* bound: late requests on their way at a time

ASSUME RemoteWorkerConstants ==
  MaxStarts \in Nat /\ MaxRuns \in Nat /\ MaxLate \in Nat

VARIABLES daemon,    \* daemon[w]: the daemon with identity w
          heartbeat, \* heartbeat[w]: the cancel_job_id of an unread heartbeat reply
          late,      \* the late requests
          starts,    \* how often daemon w has been started
          run        \* run[i]: what is known of the latest run of job i

systemVars == <<jobs, workers, sequence, silence, daemon, heartbeat, late, starts, run>>

-----------------------------------------------------------------------------
(***************************************************************************)
(* The phases of the job loop.  In the first five it makes a request:      *)
(* Register, the report of recoverPreviousJob, Claim, Output and the       *)
(* report of runJob.                                                       *)
(***************************************************************************)
RequestPhases == {"register", "recover", "claim", "output", "report"}
Phases == RequestPhases \cup {"down", "claimed", "launch", "running"}

(***************************************************************************)
(*   call       the request of this phase: to be sent, sent, accepted, or  *)
(*              refused for good with a 4xx status                         *)
(*   answer     the job named in the answer to register or claim           *)
(*   flagged    cancel_requested of that job                               *)
(*   job        the job the loop handles, and attempt, which run of it     *)
(*   cause      context.Cause of the context of the job                    *)
(*   requested  activeJobState.requestedID                                 *)
(*   result     the Result of the run; "cancelled" is a failure with the   *)
(*              flag Cancelled                                             *)
(*   disabled   ControllerClient.remoteDisabled                            *)
(*   stopping   whether the context of the daemon is cancelled             *)
(***************************************************************************)
Daemon == [phase     : Phases,
           call      : {"unsent", "sent", "accepted", "refused"},
           answer    : JobId \cup {NoJob},
           flagged   : {0, 1},
           job       : JobId \cup {NoJob},
           attempt   : 0..MaxRuns,
           cause     : {"none", "user", "shutdown"},
           requested : JobId \cup {NoJob},
           result    : {"none", "succeeded", "failed", "cancelled"},
           disabled  : BOOLEAN,
           stopping  : BOOLEAN]

Down == [phase |-> "down", call |-> "unsent", answer |-> NoJob, flagged |-> 0,
         job |-> NoJob, attempt |-> 0, cause |-> "none", requested |-> NoJob,
         result |-> "none", disabled |-> FALSE, stopping |-> FALSE]

\* A run of a job: how often it was assigned so far, how often a process was
\* launched for the latest run, how that process ended, and whether a user
\* asked to cancel that run.  The code keeps none of this; the properties do.
Run == [count : 0..MaxRuns, launched : 0..2,
        ended : {"no", "succeeded", "failed"}, asked : BOOLEAN]

Request == [from : Worker, phase : RequestPhases, job : JobId \cup {NoJob},
            status : {"succeeded", "failed"}, attempt : 0..MaxRuns]

Up(w) == daemon[w].phase # "down"

\* Mutant: the result is sent as it is.
StatusUnmapped(d) == d.result

\* Mutant: only a failure that is no cancellation goes to the fail endpoint.
StatusUnlessFailed(d) == IF d.result = "failed" THEN "failed" ELSE "succeeded"

\* The status a report asks the controller to record (Finish chooses between
\* the complete and the fail endpoint).
Status(d) == IF d.result = "succeeded" THEN "succeeded" ELSE "failed"

RequestOf(w) == [from |-> w, phase |-> daemon[w].phase, job |-> daemon[w].job,
                 status |-> Status(daemon[w]), attempt |-> daemon[w].attempt]

\* The loop goes on to another phase, whose request is still to be sent.
\* Going back to claim ends runJob: the job is deactivated.
Goto(d, phase) ==
  IF phase = "claim"
  THEN [d EXCEPT !.phase = "claim", !.call = "unsent", !.job = NoJob, !.attempt = 0,
                 !.answer = NoJob, !.flagged = 0, !.cause = "none", !.result = "none"]
  ELSE [d EXCEPT !.phase = phase, !.call = "unsent", !.answer = NoJob, !.flagged = 0]

\* cancellationResult: a user's cancellation is told from a shutdown.
Interrupted(d) ==
  [Goto(d, "report") EXCEPT !.result = IF d.cause = "user" THEN "cancelled" ELSE "failed"]

-----------------------------------------------------------------------------
(* The controller carries out a request, or refuses it.                    *)

Reports(r) == r.phase \in {"recover", "report"}

Acceptable(r) ==
  /\ r.phase = "output" => Owned(r.job, r.from) /\ Running(r.job)
  /\ Reports(r) => /\ Owned(r.job, r.from)
                   /\ jobs[r.job].error # "disconnected"
                   /\ Running(r.job) \/ jobs[r.job].status = r.status

CarryOut(r) ==
  \/ r.phase = "register" /\ Register(r.from)
  \/ /\ r.phase = "claim" /\ Claim(r.from)
     /\ workers[r.from].current_job_id # NoJob \/ \A i \in JobId : run[i].count < MaxRuns
  \/ r.phase = "output" /\ Output(r.job, r.from)
  \/ Reports(r) /\ Finish(r.job, r.from, r.status)

\* What the properties remember of the runs when the tables change.
Remember ==
  run' = [i \in JobId |->
    IF ~Running(i) /\ jobs'[i].status = "running"
    THEN [count |-> run[i].count + 1, launched |-> 0, ended |-> "no", asked |-> FALSE]
    ELSE [run[i] EXCEPT !.asked = @ \/ (jobs'[i].status = "running"
                                          /\ jobs'[i].cancel_requested = 1)]]

Handle(r) ==
  /\ IF Acceptable(r) THEN CarryOut(r) ELSE UNCHANGED vars
  /\ Remember

\* A step of daemon w alone.
Becomes(w, d) ==
  /\ daemon' = [daemon EXCEPT ![w] = d]
  /\ UNCHANGED vars

-----------------------------------------------------------------------------
(* The request of a phase: post and postOnce.                              *)

Send(w) ==
  LET d == daemon[w]
  IN  /\ d.phase \in RequestPhases /\ d.call = "unsent"
      /\ ~d.disabled
      /\ d.stopping => d.phase \in {"recover", "report"}
      /\ d.phase = "output" => d.cause = "none"
      /\ Becomes(w, [d EXCEPT !.call = "sent"])
      /\ UNCHANGED <<heartbeat, late, starts, run>>

\* The controller answers the attempt the client is waiting for.
Answer(w) ==
  LET d == daemon[w]
      r == RequestOf(w)
  IN  /\ d.call = "sent"
      /\ Handle(r)
      /\ LET i == IF r.phase \in {"register", "claim"}
                  THEN workers'[w].current_job_id ELSE NoJob
         IN  daemon' = [daemon EXCEPT ![w] =
               IF ~Acceptable(r) THEN [d EXCEPT !.call = "refused"]
               ELSE IF i = NoJob THEN [d EXCEPT !.call = "accepted"]
               ELSE [d EXCEPT !.call = "accepted", !.answer = i,
                              !.attempt = run'[i].count,
                              !.flagged = jobs'[i].cancel_requested]]
      /\ UNCHANGED <<heartbeat, late, starts>>

\* The attempt fails: it never reached the controller, or it still may.
TimeOut(w) ==
  LET d == daemon[w]
  IN  /\ d.call = "sent"
      /\ Becomes(w, [d EXCEPT !.call = "unsent"])
      /\ \/ late' = late
         \/ Cardinality(late) < MaxLate /\ late' = late \cup {RequestOf(w)}
      /\ UNCHANGED <<heartbeat, starts, run>>

\* The attempt was carried out, but the answer is lost.
LoseAnswer(w) ==
  LET d == daemon[w]
  IN  /\ d.call \in {"accepted", "refused"}
      /\ Becomes(w, [d EXCEPT !.call = "unsent", !.answer = NoJob, !.flagged = 0,
                              !.attempt = IF d.phase \in {"register", "claim"} THEN 0 ELSE @])
      /\ UNCHANGED <<heartbeat, late, starts, run>>

\* A late request reaches the controller; nobody waits for the answer.
LateArrival(r) ==
  /\ late' = late \ {r}
  /\ Handle(r)
  /\ UNCHANGED <<daemon, heartbeat, starts>>

\* disableRemote: the retry deadline has passed, or the token was rejected.
GiveUp(w) ==
  /\ Up(w) /\ ~daemon[w].disabled /\ ~daemon[w].stopping
  /\ Becomes(w, [daemon[w] EXCEPT !.disabled = TRUE])
  /\ UNCHANGED <<heartbeat, late, starts, run>>

-----------------------------------------------------------------------------
(* The job loop: Run, recoverPreviousJob, runJob and reportResult.         *)

Start(w) ==
  /\ ~Up(w) /\ starts[w] < MaxStarts
  /\ Becomes(w, [Down EXCEPT !.phase = "register"])
  /\ starts' = [starts EXCEPT ![w] = @ + 1]
  /\ UNCHANGED <<heartbeat, late, run>>

\* The loop of daemon w moves on, without a word to the controller.
LoopStep(w, d) ==
  /\ Becomes(w, d)
  /\ UNCHANGED <<heartbeat, late, starts, run>>

\* Mutant: the registration's answer is ignored.
AfterRegisterNoRecovery(w) ==
  LET d == daemon[w]
  IN  /\ d.phase = "register" /\ d.call = "accepted"
      /\ LoopStep(w, Goto(d, "claim"))

\* A job that an earlier daemon left behind is reported, never run again.
AfterRegister(w) ==
  LET d == daemon[w]
  IN  /\ d.phase = "register" /\ d.call = "accepted"
      /\ LoopStep(w, IF d.answer = NoJob THEN Goto(d, "claim")
                     ELSE [Goto(d, "recover") EXCEPT !.job = d.answer, !.result = "failed"])

\* Nothing to do: the loop polls again.
AfterClaim(w) ==
  LET d == daemon[w]
  IN  /\ d.phase = "claim" /\ d.call = "accepted"
      /\ LoopStep(w, IF d.answer = NoJob THEN Goto(d, "claim")
                     ELSE [d EXCEPT !.phase = "claimed", !.call = "unsent",
                                    !.answer = NoJob, !.job = d.answer])

\* The job becomes the active one.  A cancellation known by now takes effect at
\* once: one that came with the claim, or the last one a heartbeat has brought.
Activate(w) ==
  LET d == daemon[w]
  IN  /\ d.phase = "claimed"
      /\ LoopStep(w, [Goto(d, "output") EXCEPT
           !.cause = IF d.stopping THEN "shutdown"
                     ELSE IF d.flagged = 1 \/ d.requested = d.job THEN "user" ELSE "none"])

\* Mutant: a job is dropped when remote work is disabled.
AfterOutputUnlessDisabled(w) ==
  LET d == daemon[w]
  IN  /\ d.phase = "output"
      /\ d.call = "accepted" \/ (d.call = "unsent" /\ d.disabled /\ d.cause = "none")
      /\ LoopStep(w, Goto(d, IF d.disabled THEN "claim" ELSE "launch"))

\* The output path is recorded, or remote work is disabled meanwhile.
AfterOutput(w) ==
  LET d == daemon[w]
  IN  /\ d.phase = "output"
      /\ d.call = "accepted" \/ (d.call = "unsent" /\ d.disabled /\ d.cause = "none")
      /\ LoopStep(w, Goto(d, "launch"))

\* executeJob and execute return early: the context of the job is done, or the
\* controller refused the output path.
Interrupt(w) ==
  LET d == daemon[w]
  IN  /\ \/ d.phase = "output" /\ d.call = "unsent" /\ d.cause # "none"
         \/ d.phase = "output" /\ d.call = "refused"
         \/ d.phase = "launch" /\ d.cause # "none"
      /\ LoopStep(w, Interrupted(d))

\* No output file, or the command cannot be started.
LaunchFails(w) ==
  LET d == daemon[w]
  IN  /\ d.phase \in {"output", "launch"} /\ d.call = "unsent" /\ d.cause = "none"
      /\ LoopStep(w, [Goto(d, "report") EXCEPT !.result = "failed"])

Current(d) == run[d.job].count = d.attempt

Launch(w) ==
  LET d == daemon[w]
  IN  /\ d.phase = "launch" /\ d.cause = "none"
      /\ Becomes(w, [d EXCEPT !.phase = "running"])
      /\ run' = IF Current(d) THEN [run EXCEPT ![d.job].launched = @ + 1] ELSE run
      /\ UNCHANGED <<heartbeat, late, starts>>

Ends(w, outcome, d) ==
  /\ daemon[w].phase = "running"
  /\ Becomes(w, d)
  /\ run' = IF Current(daemon[w]) THEN [run EXCEPT ![daemon[w].job].ended = outcome] ELSE run
  /\ UNCHANGED <<heartbeat, late, starts>>

\* The process ends by itself; its result wins over a cancellation that is
\* noticed too late.
Exit(w) ==
  \E outcome \in {"succeeded", "failed"} :
    Ends(w, outcome, [Goto(daemon[w], "report") EXCEPT !.result = outcome])

\* TERM, grace, KILL: the process group is gone before the report is made.
Kill(w) ==
  /\ daemon[w].cause # "none"
  /\ Ends(w, "failed", Interrupted(daemon[w]))

\* The daemon exits: Run returns, and the heartbeat goroutine ends.
Exits(w) ==
  /\ Becomes(w, Down)
  /\ heartbeat' = [heartbeat EXCEPT ![w] = NoJob]
  /\ UNCHANGED <<late, starts, run>>

\* An accepted report ends the job.  A failure that is not a cancellation
\* disables remote work until the daemon starts again.
AfterReport(w) ==
  LET d == daemon[w]
  IN  /\ d.phase \in {"recover", "report"} /\ d.call = "accepted"
      /\ IF d.stopping THEN Exits(w)
         ELSE LoopStep(w, [Goto(d, "claim") EXCEPT
                !.disabled = @ \/ (d.phase = "report" /\ d.result = "failed")])

\* A report that the controller refuses for good ends the daemon.
ReportRefused(w) ==
  LET d == daemon[w]
  IN  /\ d.phase \in {"recover", "report"} /\ d.call = "refused"
      /\ Exits(w)

\* Mutant: a report waits for remote work to be enabled again.
SkipDisabledNotReports(w) ==
  LET d == daemon[w]
  IN  /\ d.phase = "register" /\ d.call = "unsent"
      /\ d.disabled /\ ~d.stopping
      /\ LoopStep(w, Goto(d, "claim"))

\* Remote work is disabled: post returns at once, and the loop goes on.
SkipDisabled(w) ==
  LET d == daemon[w]
  IN  /\ d.phase \in {"register", "recover", "report"} /\ d.call = "unsent"
      /\ d.disabled /\ ~d.stopping
      /\ LoopStep(w, Goto(d, "claim"))

\* The context of the daemon is cancelled; the context of its job follows.
Stop(w) ==
  LET d == daemon[w]
  IN  /\ Up(w) /\ ~d.stopping
      /\ LoopStep(w, [d EXCEPT !.stopping = TRUE,
           !.cause = IF @ = "none" /\ d.phase \in {"output", "launch", "running", "report"}
                     THEN "shutdown" ELSE @])

\* A stopping daemon gives up its request; a report gets one bounded chance.
Halt(w) ==
  LET d == daemon[w]
  IN  /\ d.stopping
      /\ d.phase \in {"register", "recover", "claim", "report"} /\ d.call = "unsent"
      /\ Exits(w)

\* The daemon is killed, perhaps with a request on its way.
Crash(w) ==
  /\ Up(w)
  /\ Becomes(w, Down)
  /\ heartbeat' = [heartbeat EXCEPT ![w] = NoJob]
  /\ \/ late' = late
     \/ /\ daemon[w].call = "sent" /\ Cardinality(late) < MaxLate
        /\ late' = late \cup {RequestOf(w)}
  /\ UNCHANGED <<starts, run>>

-----------------------------------------------------------------------------
(* The heartbeat goroutine.                                                *)

\* A heartbeat is carried out.
BeatAnswered(w, reply) ==
  LET d == daemon[w]
  IN  /\ Up(w) /\ d.phase # "register" /\ ~d.disabled /\ ~d.stopping
      /\ heartbeat[w] = NoJob
      /\ Heartbeat(w)
      /\ heartbeat' = [heartbeat EXCEPT ![w] = reply]
      /\ UNCHANGED <<daemon, late, starts, run>>

\* Its reply may name a job to cancel, and may be lost.
Beat(w) == \E reply \in {CancelJobId(w), NoJob} : BeatAnswered(w, reply)

\* Mutant: the job is remembered, but the active one is not cancelled.
RememberCancellation(w) ==
  /\ heartbeat[w] # NoJob
  /\ Becomes(w, [daemon[w] EXCEPT !.requested = heartbeat[w]])
  /\ heartbeat' = [heartbeat EXCEPT ![w] = NoJob]
  /\ UNCHANGED <<late, starts, run>>

\* RequestCancellation: remember the job, and cancel it if it is the active one.
RequestCancellation(w) ==
  LET d == daemon[w]
      i == heartbeat[w]
  IN  /\ i # NoJob
      /\ Becomes(w, [d EXCEPT !.requested = i,
           !.cause = IF @ = "none" /\ d.job = i
                        /\ d.phase \in {"output", "launch", "running", "report"}
                     THEN "user" ELSE @])
      /\ heartbeat' = [heartbeat EXCEPT ![w] = NoJob]
      /\ UNCHANGED <<late, starts, run>>

-----------------------------------------------------------------------------
(* The whole system.                                                       *)

\* The requests of users that end or renew an assignment, and time.
Elsewhere ==
  /\ \/ Submit \/ List \/ Clear \/ Tick
     \/ \E i \in JobId : Remove({i})
     \/ \E i \in JobId : Retry(<<i>>)
     \/ \E i \in JobId : Cancel(i)
  /\ Remember
  /\ UNCHANGED <<daemon, heartbeat, late, starts>>

SystemInit ==
  /\ Init
  /\ daemon = [w \in Worker |-> Down]
  /\ heartbeat = [w \in Worker |-> NoJob]
  /\ late = {}
  /\ starts = [w \in Worker |-> 0]
  /\ run = [i \in JobId |-> [count |-> 0, launched |-> 0, ended |-> "no", asked |-> FALSE]]

DaemonStep(w) ==
  \/ Start(w) \/ Send(w) \/ Answer(w) \/ TimeOut(w) \/ LoseAnswer(w) \/ GiveUp(w)
  \/ AfterRegister(w) \/ AfterClaim(w) \/ Activate(w) \/ AfterOutput(w)
  \/ Interrupt(w) \/ LaunchFails(w) \/ Launch(w) \/ Exit(w) \/ Kill(w)
  \/ AfterReport(w) \/ ReportRefused(w) \/ SkipDisabled(w)
  \/ Stop(w) \/ Halt(w) \/ Crash(w)
  \/ Beat(w) \/ RequestCancellation(w)

SystemNext ==
  \/ \E w \in Worker : DaemonStep(w)
  \/ \E r \in late : LateArrival(r)
  \/ Elsewhere

SystemSpec == SystemInit /\ [][SystemNext]_systemVars

(***************************************************************************)
(* Fairness.  A daemon that is up goes on with its own code.  Its retry    *)
(* loops repeat a request until it is answered, and the network does not   *)
(* fail for ever: of infinitely many attempts one is answered, and of      *)
(* infinitely many answers one arrives.  Nothing makes a command end, a    *)
(* user act, a daemon start, stop, crash or give up.                       *)
(***************************************************************************)
Proceed(w) ==
  \/ Send(w) \/ Activate(w) \/ Interrupt(w) \/ Launch(w) \/ Kill(w)
  \/ SkipDisabled(w) \/ Halt(w)

\* An answer arrives.  Interrupt is the refusal of an output path.
Receive(w) == AfterRegister(w) \/ AfterClaim(w) \/ AfterOutput(w) \/ Interrupt(w)
              \/ AfterReport(w) \/ ReportRefused(w)

Fairness ==
  \A w \in Worker :
    /\ WF_systemVars(Proceed(w))
    /\ SF_systemVars(Answer(w)) /\ SF_systemVars(Receive(w))
    /\ WF_systemVars(BeatAnswered(w, CancelJobId(w)))
    /\ WF_systemVars(RequestCancellation(w))

FairSpec == SystemSpec /\ Fairness

-----------------------------------------------------------------------------
(* What must hold of the daemons and the controller together.              *)

\* Every variable of the daemons keeps to its values.
DaemonTypeOK ==
  /\ daemon \in [Worker -> Daemon]
  /\ heartbeat \in [Worker -> JobId \cup {NoJob}]
  /\ late \subseteq Request
  /\ starts \in [Worker -> 0..MaxStarts]
  /\ run \in [JobId -> Run]

\* "Never replay a command whose outcome a previous daemon could not report":
\* no run of a job is launched twice, whatever is lost, delayed or restarted.
LaunchedOnce == \A i \in JobId : run[i].launched <= 1

\* A job is recorded as succeeded only when the process of its latest run did
\* exit with code zero.
SuccessIsReal ==
  \A i \in JobId : jobs[i].status = "succeeded" => run[i].ended = "succeeded"

\* While a daemon still runs the latest run of a job, the controller records no
\* outcome for it, except that the worker disconnected.
NoOutcomeWhileRunning ==
  \A w \in Worker :
    LET d == daemon[w]
    IN  d.phase = "running" /\ Current(d) =>
          jobs[d.job].status # "succeeded" /\ jobs[d.job].error # "reported"

\* What the controller records is what happened: a success only of a command
\* that succeeded, and no outcome of a command that still runs.
OutcomesAreReal == SuccessIsReal /\ NoOutcomeWhileRunning

Holds(w, i) == Running(i) /\ jobs[i].worker_id = w

\* A daemon that works for the controller executes what it holds: whatever
\* answer or report is lost, an assignment is settled or its process is
\* launched, unless the daemon ends or disables remote work.  Once the answer to
\* its claim has arrived, disabling remote work is no excuse any more: the job
\* is executed, or has a result to report (job_execution.go: "Disabling remote
\* requests must not prevent an already claimed job from executing").
AssignmentsProceed ==
  \A w \in Worker :
    /\ \A i \in JobId :
         Holds(w, i) /\ Up(w)
           ~> ~Holds(w, i) \/ daemon[w].phase = "running" \/ ~Up(w) \/ daemon[w].disabled
    /\ daemon[w].phase \in {"claimed", "output", "launch"}
         ~> daemon[w].phase \in {"running", "report"} \/ ~Up(w)

\* A cancellation reaches the process: when a user asks to cancel the job that a
\* daemon runs, the process ends, unless the controller gives the run up first
\* or the daemon disables remote work.
CancellationTakesEffect ==
  \A w \in Worker, i \in JobId :
    Holds(w, i) /\ jobs[i].cancel_requested = 1 /\ daemon[w].phase = "running"
      ~> ~Holds(w, i) \/ daemon[w].phase # "running" \/ daemon[w].disabled

\* A daemon does not hang on a report: the controller settles it, or the daemon
\* gives it up.
ReportsSettle ==
  \A w \in Worker :
    daemon[w].phase \in {"recover", "report"}
      ~> daemon[w].phase \notin {"recover", "report"}

\* A daemon interrupts a job as cancelled by its user only if a user asked to
\* cancel this run of the job (active_job.go: "so a request cannot cancel the
\* next job").
CancelledOnlyWhenAsked ==
  \A w \in Worker :
    LET d == daemon[w]
    IN  d.cause = "user" /\ Current(d) => run[d.job].asked

\* A report that arrives late changes nothing for a later run of its job
\* (controller/README.md: "Late result/output reports are rejected and cannot
\* change a subsequent assignment").
LateReportsRejected ==
  [][\A r \in late : Reports(r) /\ LateArrival(r) /\ r.attempt # run[r.job].count
                       => UNCHANGED jobs]_systemVars
=============================================================================
