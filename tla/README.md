# jobd in TLA+

jobd runs shell commands on machines. A *controller* (TypeScript, one Cloudflare
Durable Object with an SQLite database per queue) keeps the jobs; *worker daemons*
(Go) poll it, run one command at a time and report the outcome; a command line
client (`jobd`) submits jobs and looks at them. When the controller is out of reach
or remote work is disabled, a daemon serves a queue of its own over a Unix socket.

This directory holds TLA+ models of the parts in which concurrency, failure and
ordering decide whether jobs run once and are recorded truthfully, the TLC
configurations that check them, and proofs checked by TLAPS.

## Inventory

| Component | State | Operations |
|---|---|---|
| Scheduler, `controller/src/jobs/scheduler.ts` | tables `jobs` and `workers`, AUTOINCREMENT counter | submit, list, clear, removeAll, remove, retry, reorder, cancel, output, setWorkerPaused, register, heartbeat, claim, finish, expireWorkers |
| Routes and batches, `controller/src/api/router.ts`, `batch.ts` | none | translate a request into scheduler calls; a batch is a loop of them without an await |
| Gateway, `api/queues.ts`, `index.ts` | none | check a key, find the Durable Object of the queue |
| Worker tokens, `api/worker-tokens.ts` | signed token with expiry | issue, verify, routes a token allows |
| Queue secrets, `secrets.ts` | encrypted variables, at most 64 | set, remove, list, decrypt before a claim |
| Job loop and heartbeat, `worker/worker.go`, `job_execution.go` | phase of the loop, the job at hand | register, recover, claim, execute, report; a goroutine sends heartbeats |
| Controller client, `worker/client.go` | `remoteDisabled` | retry a request until it is answered, refused for good, or given up |
| Active job, `worker/active_job.go` | id and cancel function of the active job, `requestedID` | Activate, Deactivate, RequestCancellation |
| Executor, `worker/executor_linux.go` | a process group | start, wait, TERM, grace, KILL |
| Local queue, `worker/local_queue.go`, `local_batch.go` | table `jobs` in a file or in memory | submit, claim, Output, Finish, recover, requestCancel, reorder, remove, removeAll, retry, clear |
| Local socket, `worker/local_socket.go` | running handlers | one goroutine per request; Close waits for them |
| Daemon management, `worker/daemon.go`, `identity_linux.go`, `main.go` | lock file, socket, identity file | foreground run, start, stop, restart |
| Command line, `cli/` | none between invocations | requests to a controller or a local socket, pages of a listing, the latest job, labels of workers |

**How they interact.** Daemons and command line call the controller over HTTP; all
requests for a queue are served by its Durable Object, and a scheduler method never
awaits, so each call of one is atomic. Two routes await between two looks at the tables: setting a
variable (encryption) and a claim (decryption). In a daemon three kinds of goroutine share
memory: the job loop, the heartbeat goroutine and the socket handlers. They meet in
`activeJobState` (a mutex), in the flag `remoteDisabled` (an atomic) and in the local
database (one connection).

**What is hard.**
- *Delivery*: any request may be lost, or carried out with its answer lost, or carried
  out after its client gave up; the client then repeats it.
- *Failure*: a daemon may die between claim, launch and report; a slow worker may be
  declared dead while its process lives.
- *Interleaving*: a cancellation travels from a user to a flag in a row, to the answer of a
  heartbeat, to `RequestCancellation`, while the loop claims, activates and finishes.
- *Order*: three operations write `queue_position` by three rules.
- *Awaits*: other requests are served while a claim decrypts or a variable is encrypted.
- *Processes*: starts, stops and restarts overlap, and any of them may be killed; all they share is a
  lock, a socket path and a file.
- *Several requests*: a listing, or a command without an id, is right only about the moments it asked.

**What makes each part correct.** The scheduler: its two tables agree on every assignment,
a row tells of its latest run only, outcomes are final until a retry, silence alone loses
a job, waiting jobs keep their order. The daemon: a command is launched at most once per
assignment, an outcome is recorded only if it happened, a cancellation reaches its process
and no other, no request hangs for ever. The local queue: the same for local jobs, across
crashes, and a stop always ends the daemon. Daemon management: one daemon per state directory,
reachable by its socket, with one identity; every command returns and tells the truth. Access:
a job is assigned only together with the environment of one moment, the limit of variables holds, and a
token is good for the time it was issued for. The command line: a request takes effect at most once,
on the job or worker the user meant.

`PROJECT.json` lists the components with their status and the hazards line by line.

## Modules

| Module | What it is |
|---|---|
| `JobLifecycle` | abstract specification of what a queue promises about its jobs |
| `Scheduler` | the controller's queue: every request as one action |
| `MCScheduler` | small instances of it, and `OrderSpec`, the requests that decide the order |
| `SchedulerProofs` | inductive invariant of `Scheduler` and theorems about it |
| `SchedulerRefinement` | proof that `Scheduler` implements `JobLifecycle` |
| `RemoteWorker` | daemons, network and crashes, composed with `Scheduler` |
| `MCRemoteWorker` | small instances of it, and `PairSpec`, two daemons that compete |
| `RemoteWorkerProofs` | inductive invariant of daemons and controller together, and theorems about them |
| `LocalQueue` | the local queue, its socket handlers and the loop that serves it |
| `LocalQueueProofs` | inductive invariant of `LocalQueue` and theorems about it |
| `LocalQueueRefinement` | proof that `LocalQueue` implements `JobLifecycle` |
| `Daemon` | the processes that start, stop and are the daemon of one state directory |
| `DaemonProofs` | inductive invariant of `Daemon` and theorems about it |
| `QueueAccess` | gateway, tokens, queue environment and the routes that await, composed with `Scheduler` |
| `MCQueueAccess` | a small instance of it |
| `QueueAccessProofs` | inductive invariant of `QueueAccess` and theorems about it |
| `CommandLine` | one invocation of jobd, composed with `Scheduler` |
| `MCCommandLine` | a small instance of it |
| `CommandLineProofs` | inductive invariants of `CommandLine` and theorems about it |

### Scheduler

`jobs` and `workers` are the two tables, `sequence` the counter, and `silence[w]` the age
of `last_heartbeat`, counted up to `WorkerTimeout`. `Tick` lets time pass. A row that is
not there has status "absent".

Every method is one action, with all it does: `List`, `Clear`, `RemoveAll` and `Remove`
start with `expireWorkers` (`ExpiredJobs`, `ReleasedWorkers`), and that stays even if the
request is refused afterwards. `Retry` and `Urgent` take a sequence of targets and compute
the result of the whole batch: since each iteration of a retry adds one to the highest
position, the n-th job retried gets the old maximum plus n, and as `urgent` runs through
its targets backwards they end up in the order of the arguments. `claim` is three actions, one
for each kind of answer. The requests are unrestricted: any worker may report on any job at any time,
which includes every late or repeated one.

A job disconnected by expiry is a failed row with a particular error text; the
model keeps that distinction (`error = "disconnected"`) because `finish` decides by it.

### RemoteWorker

A daemon is a record: the phase of its loop, the state of the request it is making
(`call`), the job at hand, the cause of cancellation of its context, `requestedID`, the
result, `remoteDisabled`. A request goes through `Send`, `Answer` (the controller carries
it out, with an action of `Scheduler`) and a step of the loop that reads the answer.
`TimeOut` fails an attempt before it is carried out, `LoseAnswer` after; `TimeOut` and
`Crash` may also leave the request in `late`, from where `LateArrival` carries it out at
any later time. `GiveUp` disables remote work, `Stop` and `Halt` are the graceful
end, `Crash` the other one. `Beat` and `RequestCancellation` are the heartbeat goroutine,
two steps because the answer travels between them; the reply may be lost.

`run[i]` is a history variable: how often job `i` was assigned, whether its latest run was
launched, how it ended, and whether somebody asked to cancel it. The code does not have
it, and no guard except the bound `MaxRuns` reads it.

### LocalQueue

`rows` and `last` are the table and its counter, `loop` the job loop with
`activeJobState`, `handlers[i]` the cancellations that have set the flag in the row and
not yet called `RequestCancellation`. A batch is one transaction per target, hence one
action per target (the controller's batches, in contrast, are atomic). The remote side
is reduced to what the local queue can notice of it: a remote job occupies the loop, and
a heartbeat reply may call `RequestCancellation` with its id, even later. A start is
two actions: `start` opens the table and the socket, and `recover`, the first thing `Run`
does, ends the runs that an earlier daemon left; requests are served in between. `process` is a
history variable like `run`.

### Daemon

An *invocation* is one run of `jobd-worker`: in the foreground, or a management command, which
launches at most one daemon. `daemon[i]` is the process of invocation `i` on its way through
`runWithContext` (lock, identity, queue, socket, Run, and back in the order of the deferred calls),
`command[i]` the command on its way through `manageWorker`. They share `lock` (the flock, released by
the kernel when its holder dies), `socket` (who bound the file; it survives its owner), `workerId` and
`stateDir`. A connection reaches a process only while it listens and the path leads to its socket; a
closing listener unlinks the path whatever is there. Every deadline (10 s for a start, 15 s for a
request, 30 s for a stop) may pass whenever the code looks at the clock, and every step that can return
an error may. A SIGTERM before the handler is installed kills, later it
cancels the context, which nothing looks at before Run.

### QueueAccess

`Scheduler` takes a request whole. Here a request occupies a place: the gateway forwards it
(`ForwardAdmin` with the master key, `ForwardWorker` with a token), then `Encrypt` and `Store`, or `ReadRows`
and `ClaimJob`, with an await between; the others take one step more. What touches the tables is
still the action of `Scheduler`. A ciphertext is the key that made it and the value, a token its claims, the
key that signed it and, as history, the duration asked for. `Deploy` is a deployment with another master
key, possibly one that is no encryption key (it need not decode to 32 bytes to sign tokens); it ends the requests
under way. `seen[r]` is history: what the environment has been while claim `r` was under way;
so is the field `until` of a request, the expiry that its token entitled it to when it came, computed from the duration
asked for and not from what the gateway checks.

### CommandLine

`cli` is one invocation from its first request to its end, `wire` its request that changes something or
the answer to it. A listing reads pages (`FetchPage`), a command without an id asks for the latest job (`SelectLatest`) and
then sends a request about it, `pause` uses a label that `workers list` printed before. The request or its answer
may be lost, and the client may give up before, after or while the controller handles it. Everybody else
(`Elsewhere`) submits, clears, removes, retries, claims and reports between the steps. A listing is defined by
rank: its n-th row is the one that has n-1 rows ahead of it in the order of the query. `started` is the
column `started_at`, of which only the order matters, ties included. `since` is history: what
happened that the invocation cannot know.

## Runs

| Run | Configuration | Shows |
|---|---|---|
| `scheduler` | `MCScheduler.cfg`, 2 workers, 2 jobs | the tables agree, rows tell of their own run, cancellations reach the holder, pauses hold, `JobLifecycle` is implemented, only urgent and swap reorder and retried jobs wait last |
| `daemon_restarts` | `MCRemoteWorker.cfg`, 1 daemon started twice, 1 late request | no run of a job is launched twice |
| `daemon_liveness` | `MCRemoteWorkerLive.cfg`, 1 daemon started twice | outcomes are real and belong to the latest run; assignments proceed, claimed ones even when remote work is disabled, cancellations take effect, reports settle |
| `daemon_pair` | `MCRemoteWorkerPair.cfg`, 2 daemons, 1 job | outcomes stay real when a daemon loses its job to another |
| `local_queue` | `LocalQueue.cfg`, 2 jobs, file | no command is replayed, outcomes are real, FIFO holds, `JobLifecycle` is implemented, a stop completes |
| `daemon_management` | `Daemon.cfg`, 3 invocations | one daemon at a time has the queue open and its socket leads to it, one identity, complete stops; commands return, and a failed start leaves no process |
| `queue_access` | `MCQueueAccess.cfg`, 2 requests at a time, 2 names, 2 master keys | the limit of variables, environments of one moment, no assignment without environment, no value over plain HTTP, tokens and their expiry |
| `command_line` | `MCCommandLine.cfg`, 2 jobs on pages of one, or 4 workers | what a listing may miss or repeat, what a command without an id acts on, one effect per request, labels |
| `submit_order` | `MCSchedulerFifo.cfg` | violation, see Findings |
| `late_reports`, `stale_cancellation` | `MCRemoteWorkerLate.cfg`, `MCRemoteWorkerStaleCancel.cfg` | violations, see Findings |
| `local_cancellation` | `LocalQueueCancel.cfg`, memory | violation, see Findings |

Some properties need their conditions. A listing leaves out no job that was there all the time *unless
rows are removed or change places* between its pages, and shows none twice *unless one is submitted or moves*
(`ListingIsFaithful`); each condition is needed, TLC refutes the property without it. A command without an id acts on the submission it
was told of *unless the queue was empty meanwhile*, because only then clear starts the numbering again
(`ActsOnSelected`). `StopIsComplete` speaks of the moment at which the stop has the lock: as soon as it
returns, another start may have succeeded.

**Bounds and why they are enough.** Two jobs are the fewest that can compete for a worker
and two workers the fewest that can hold one job one after the other; what the order of a queue
promises is about pairs of jobs, and two jobs can be tied. Positions
(`MaxPosition`, `MaxUrgent`, `MaxPlace`, `MaxAhead`) leave room for jobs to be retried and
moved ahead, so that positions run past the sequence and ties arise. `WorkerTimeout` is one tick: only "fresh" and "stale" matter. `MaxStarts = 2`
is one restart, `MaxRuns = 2` one retry of a job, with 3 for two daemons so that the job
can go from one to the other and back. `MaxLate = 1`: a single late request is what the
daemon's own next requests can overtake. With `MaxLate = 1` the two parts of `OutcomesAreReal`, `SuccessIsReal`
and `NoOutcomeWhileRunning` are false, which is the finding `late_reports`; they are checked
with `MaxLate = 0`, that is, for requests that are lost or answered. `PairSpec` leaves out
what one daemon does to itself, which the runs with one daemon cover. Workers are symmetric.

Three invocations are a daemon that is being replaced, the one that replaces it and a third that stops or
starts between them. Two requests at a time are a claim or a setting of a variable and what
overtakes it; with room for one variable (`MaxVariables`) and two names the limit is met at once. Tokens last
one or two seconds on a clock that reaches 2 (`MaxSeconds`, `MaxTime`), so every token is seen at, before
and after its expiry. Of the two master keys one is no encryption key. Pages of one job make a listing of two
jobs three requests. The four worker ids share prefixes of every length; `JobsOrWorkers`
keeps the jobs out of the states with several workers, because no invocation is about both.

No run has a bound on the length of behaviours. `Daemon` and `CommandLine` switch the deadlock check off, because
their invocations end; that `Daemon`'s commands do not hang is a property of its own (`CommandsReturn`).

**Fairness.** `FairSpec`: a daemon that is up goes on with its own code (WF of `Proceed`,
`RequestCancellation`), its heartbeat timer keeps firing, and of its heartbeats some are
answered (WF of `BeatAnswered` with the real reply). Its retry loops
repeat a request until it is answered, and the network does not fail for ever: SF of `Answer` and of
`Receive`, the arrival of an answer, refusals included. Nothing makes a command exit, a user act, or a daemon start, stop, crash or give
up. `LocalFairSpec`: the loop and the pending handlers go on (WF); a remote job ends once
the daemon is stopping, because that cancels its context and the executor kills the process
group. `FairSpec` of `Daemon`: processes and commands go on with their own code (WF of their steps, any
of which may be the failing one), and a daemon that is told to stop ends its Run, which waits for at most the
grace period of a job and a report. Nobody has to start, stop or kill anything, and a daemon that is not told
to stop may serve for ever.

## Proofs

Every invariant and every action property of the passing runs is proved, the refinements included; only
liveness stays with TLC. The theorems hold for every set of workers, requests, names, keys and invocations, every
timeout and every bound that the `ASSUME`s allow:
- `SchedulerConstants`: the bounds are naturals, the timeout and the largest batch are positive, and `None` is no worker.
- `RemoteWorkerConstants`, `LocalQueueConstants`: the bounds are naturals; the local queue is in memory or in a file.
- `DaemonConstants`: `None` is no invocation.
- `QueueAccessConstants`: the bounds are naturals, the longest duration of a token is positive, encryption keys are
  master keys, and `None` is no name, key or request.
- `CommandLineConstants`: pages and labels are not empty, and the ids of workers are sequences of one length, as
  the UUIDs of `identity_linux.go` are.

The modules that compose a component with `Scheduler` (`RemoteWorker`, `QueueAccess`, `CommandLine`) each have a
theorem that their steps are steps of `Scheduler` or leave the tables alone, so what is proved of `Scheduler` holds
of them too, and their own invariants may use `Inv`.

**SchedulerProofs.** The inductive invariant is `Inv`, the conjunction of `TypeOK`,
`AssignmentsAgree`, `RunDetailsMatch` and `IdsBelowSequence`. None of the last three is
inductive alone: `finish` clears `current_job_id` without looking at it, which is right only
because a running job's worker points to that job; a claim keeps the tables in agreement
only because a queued row carries no worker (`RunDetailsMatch`); and a submission overwrites
no running row only because rows stay below the counter (`IdsBelowSequence`). There is one
lemma per action or group of actions with the same effect on these parts (`...KeepsInv`);
the operations that start by expiring workers share one lemma about any deletion after an
expiry, and both retries share one about requeueing any set of failed jobs.
- `TypeCorrect`, `AssignmentsAlwaysAgree`, `RunDetailsAlwaysMatch`: the parts of `Inv`.
- `CancelAlwaysReachesHolder`: from `Inv`, since `heartbeat` looks up `current_job_id`.
- `PauseAlwaysRespected`: only an action that resumes clears `paused`, and only a claim by a worker that is not
  paused makes a worker busy.
- `WaitingOrderAlwaysKept`: a retry numbers the jobs of its batch from the highest position on, so they come
  behind all that wait, and every other action but urgent and swap leaves the positions of waiting jobs alone. A
  submission does not come last (finding `submit_order`), which is why the property does not say so.

**SchedulerRefinement.** `SchedulerImplementsLifecycle`: `Spec => Lifecycle!Spec`, where a
disconnected failure maps to "lost" and a stale worker to a silent one. Each action moves every
job by one of the steps of `JobLifecycle` or leaves it alone (`EveryJobMoves`), using `Inv`
before and after the step.

**LocalQueueProofs.** `LInv` is `LocalTypeOK`, `LoopOwnsRunning`, `NumbersNotReused` and two
strengthenings: `LoopShape`, that the fields of the loop fit its phase, and `Stages`, which
ties each row and the phase of the loop to what happened to the command (a waiting row's
command was not launched, a claimed one neither, one that runs was launched once, a succeeded
one exited with zero). `Stages` is needed because `NeverReplayed` does not say by itself
that what is launched next was not launched before.
- `LoopAlwaysOwnsRunning`: once a daemon has recovered, the report of a local result never finds another row.
- `CommandsNeverReplayed`, `LocalSuccessAlwaysReal`: for both kinds of storage.
- `LocalFifoAlways`: the new position is one more than the highest, for submissions and retries alike.

**LocalQueueRefinement.** `LocalQueueImplementsLifecycle`: the local queue implements `JobLifecycle` with the daemon
as its only worker, silent whenever it does not serve, until it has recovered. The mapping needs `RInv`, which adds to `LInv` that a row without a
known outcome is a failed one (`UnknownFailed`) and that one row at most runs (`OneRunning`), also between a crash and the recovery, when no loop holds it: a claim
may only happen while the abstract worker holds no running job.

**RemoteWorkerProofs.** `SystemInv` joins `Inv` of the controller with what the daemons know. `DaemonsOK` says that
the fields of a daemon fit its phase and that late requests are well formed. `PairsOK` is about a daemon and a job:
the daemon names a run that there has been (`Knows`); while it executes the latest run and the row is running, the row
is assigned to it (`Owns`); nothing was launched while it is on its way to launch (`Unlaunched`); and if the job it holds
in the tables has been launched, then it runs or reports it, or has lost its memory and will learn of it from its
registration, or makes no requests any more (`LaunchedPast`). The last is the heart of it: a restarted daemon that
was told of an old run must recover and may not launch. `OneExecutor`: no two daemons execute the same run.
- `NeverLaunchedTwice`: any number of daemons, restarts, lost, repeated and late requests.
- `DaemonTypeCorrect`, `SystemImplementsScheduler`.
- `OutcomesAlwaysReal`: outcomes are real as long as no claim, recovery or report is among the late requests
  (`HarmlessLate`). The hypothesis is needed: a late report is the finding `late_reports`. Its invariant `OutcomeInv` adds that a daemon which
  handles the job it holds handles the latest run of it (`Fresh`), that a success it reports is that of its process
  (`EndKnown`), and that nothing is recorded before the process has ended (`StillOpen`).
- `OutcomesRealWithoutDelay`: the case `MaxLate = 0`, which the runs check, without any hypothesis on behaviours.

**DaemonProofs.** `DInv` is `ManagementTypeOK`, `SocketLeadsToWorker` and three strengthenings.
`LockHeld` ties the lock to the phases of the processes and stop commands that hold it, and says
that a command which holds it has launched no process, so that it is not confused with its own
daemon. `IdentityKept`: a process knows the identity in the file or none, and whoever makes one
finds none. `AskedServed`: a process that answered a stop was serving, so it has the lock still or
is over; this is why having the lock tells a stop that the daemon it asked is gone. Every action
is one of five kinds of step (the holder goes on, a process aside, a command without the
lock, a command that takes it, one that releases it), and one lemma per kind keeps the strengthenings.
- `OneDaemonAlways`, `SocketAlwaysLeadsToWorker`, `OneIdentityAlways`: for any number of overlapping
  starts, stops, failures and kills.
- `StopAlwaysComplete`: at the moment a stop has the lock.

**QueueAccessProofs.** `AccessInv` has four parts. `StoreInv`: variables, tokens, clock and key, with a
finite set of names in use that keeps the limit. `ObservedInv`: the type of the expiries shown.
`RequestInv`: a request under way is at a place of its route, a heartbeat brings the expiry that its token entitled it to
when it came (although the token may be out of date by the time the heartbeat is carried out), and a claim has read
rows only over HTTPS or when there were none. What an earlier look at the table found is no part of it: `LimitKept` survives any number of
settings at a time because `Store` counts again after the await. `RowsWereThere`: the rows a claim decrypts stand for an environment the queue had
since the claim arrived.
- `LimitAlwaysKept`, `ValuesAlwaysOverHttps`, `TokensAlwaysLastAsAsked`, `AccessTypeCorrect`.
- `ObservedExpiryAlwaysReal`: the column changes only with a heartbeat that came with a good token, and every such
  heartbeat that is carried out shows in it.
- `EnvironmentAlwaysSnapshot`, `AlwaysAssignedWithEnvironment`: about the step in which a claim goes on after its await.
- `AccessImplementsScheduler`.

**CommandLineProofs.** Four invariants, each on top of the one before.
- `CliInv`: the request is on the wire, answered or lost, and was handled as often as that says (`CallInv`); a command is in a
  phase of its own kind (`PhaseInv`); an id that was selected is not given out again before the queue was empty
  (`SelectedInv`, which rests on `IdsBelowSequence`); a started job is not claimed before a retry (`ClaimedInv`, with
  `StartedInv`). It gives `HandledAtMostOnce`, `ActsOnSelectedAlways` and `CommandLineImplementsScheduler`.
- `ListInv`: as long as nothing was removed or moved, each job with fewer rows ahead of it than were listed has been
  listed (`Covers`); as long as nothing came or moved, each listed job has fewer rows ahead than were listed, and
  appears once (`Distinct`). Both follow since the number of rows ahead of a job only rises without removals and only
  falls without submissions. It gives `ListingAlwaysFaithful`, for every page size.
- `LabelInv`: finitely many workers are registered, and a label in use begins the id of one that is. A label is longer than
  what the id shares with its nearest neighbours in the order of ids, hence than what it shares with any other
  id; this takes a few lemmas on the order of sequences and on least and greatest elements of finite sets. It gives `LabelsAlwaysSafe`.
- `TypeInv`: the remaining fields, for `CliTypeCorrect`.

**Only model-checked.** Liveness (`AssignmentsProceed`, `CancellationTakesEffect`,
`ReportsSettle`, `StopCompletes`, `CommandsReturn`, `FailedStartLeavesNothing`) involves fairness and ENABLED, which TLAPS does not handle
here. What recursive definitions compute would need
induction over data with operator parameters, which the installed provers cannot instantiate; no
module uses one. The properties of the four runs that expect a violation are false, and no theorem is about them.

## Findings

Each is a run that TLC refutes; `PROJECT.json` quotes the line of the documentation.

1. `submit_order`: a submission takes its sequence number as its position, a retry the
   highest position plus one. After retries a new job overtakes one that waits already, and
   positions are tied.
2. `stale_cancellation`: `requestedID` is not cleared, so the retry of a cancelled job on
   the same daemon is cancelled at once.
3. `late_reports`: a report that arrives late is taken for one of the next run of the job on
   the same worker.
4. `local_cancellation`: `requestedID` holds one id; a request for another job between
   claim and Activate makes a daemon forget a local cancellation.

Also noticed, without a run:

- With tied positions a swap changes nothing, or moves a third job (`scheduler.ts:237` exchanges
  positions, and ties are broken by the sequence).
- A report whose answer was lost is refused when it is repeated, if the job was retried or removed
  meanwhile, and the refusal ends the daemon (`client.go:116`: "The controller's mutations are retry-safe").
- `tooling/e2e/test_cancellation.py:59` expects that a cancellation pauses remote
  work; `worker.go:105`, its unit test and `worker/README.md` say the opposite.
- `startWorker` is content with any healthy worker. A restart may therefore succeed with the
  daemon of another start, which has that one's settings.
- A stop holds the lock for a moment, and a daemon keeps it while it closes its queue; a daemon that is launched then
  exits at once, and its start fails after 10 s.
- A start that gives up sends SIGTERM to its process, also if another start has reported it as ready in the meantime.
- `list.go:22` says "Do not present an incomplete queue as a successful listing"; that holds of failing
  requests, not of rows that move between the pages.
- An error while reading the body of an answer (`cli/client.go:79`) lacks the hint that the outcome may be
  unknown, which an error of `Do` has.
- The controller accepts commands that make an answer longer than the 1 MiB the remote client
  reads (`cli/client.go:73`).

## Not modelled

- Request validation, the verify endpoint, the draining of bodies, formatting and parsing of the command line:
  no state, no concurrency.
- The prompts of `env set` and its sequence of PUT requests, each of which is `Encrypt` and `Store`; the combined
  listing, which is two listings one after the other; the local client, whose requests are those of `LocalQueue`.
- Encodings, nonces and signatures: a token or ciphertext made with a key is accepted with that key alone.
- Commands, environment, working directories, host names, times, exit codes other than zero: they decide
  nothing in the modelled code.
- Signals and process groups: `Kill` stands for TERM, grace and KILL together.
- Heartbeats that arrive after their daemon has stopped: they only postpone an expiry.
- What a daemon does when its claim is refused, or with an environment that came over plain HTTP: it ends, which
  for the tables is a `Crash`.
- A state directory that is removed, or a lock file that is replaced, while daemons run.
- The contents of job lists and output files.
- Database errors: every transaction commits.
- A local database kept from a persistent run while the daemon runs in memory.
- Packaging, installation and the end-to-end tests.

## Plan

1. *Done*: `Scheduler`, `JobLifecycle`, `RemoteWorker`, `LocalQueue`, `Daemon`, `QueueAccess`, `CommandLine` with
   their runs, and proofs of all their invariants, action properties and refinements.
2. *Prove more*: which late requests, other than reports and claims, leave outcomes real; weaker hypotheses than
   `HarmlessLate`, such as a late request of a run that is over.
3. *Model more*: `Executor` (exit against cancellation against grace period) as the specification that `Exit`
   and `Kill` abstract; local and remote jobs in one daemon, composing `RemoteWorker` with `LocalQueue`; the
   batches of `Scheduler` against a fold over single requests.
