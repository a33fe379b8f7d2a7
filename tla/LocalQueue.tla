----------------------------- MODULE LocalQueue -----------------------------
(***************************************************************************)
(* The fallback queue inside a worker daemon: worker/local_queue.go, the   *)
(* socket handlers of local_socket.go and local_batch.go, and the job loop *)
(* of worker.go as it runs local jobs (job_execution.go, active_job.go,    *)
(* executor_linux.go).                                                     *)
(*                                                                         *)
(* Each socket handler is a goroutine.  The database has one connection,   *)
(* so every transaction is one step; a batch request makes one transaction *)
(* per target, and is therefore as many steps.  A cancellation is two: the *)
(* flag in the row, then the call of activeJobState.RequestCancellation.   *)
(*                                                                         *)
(* The controller's side of the daemon is reduced to what the local queue  *)
(* can notice of it: a remote job may occupy the loop, and the reply to a  *)
(* heartbeat sent meanwhile may ask to cancel it, also when it is over.    *)
(***************************************************************************)
EXTENDS Integers, FiniteSets

CONSTANTS LocalPersist, \* JOBD_LOCAL_PERSIST: a database file, or :memory:
          MaxLocal,     \* bound: the highest local sequence number
          MaxPlace,     \* bound: the highest queue_position
          MaxAhead,     \* bound: how far below zero a queue_position may go
          MaxHandlers   \* bound: unfinished cancellations per job

ASSUME LocalQueueConstants ==
  /\ LocalPersist \in BOOLEAN
  /\ MaxLocal \in Nat /\ MaxPlace \in Nat /\ MaxAhead \in Nat /\ MaxHandlers \in Nat

VARIABLES rows,      \* table jobs: the row of each sequence number
          last,      \* the AUTOINCREMENT counter of the table
          loop,      \* the job loop and the struct activeJobState
          handlers,  \* handlers[i]: cancellations of i that RequestCancellation
                     \* has not been called for yet
          process    \* process[i]: what happened to the command of job i since
                     \* a user submitted or retried it last

localVars == <<rows, last, loop, handlers, process>>

-----------------------------------------------------------------------------
(***************************************************************************)
(* Output paths, commands and times decide nothing here and are left out,  *)
(* as is the unused case of a database error.                              *)
(***************************************************************************)
LocalId  == 1..MaxLocal
NoLocal  == 0
RemoteId == MaxLocal + 1         \* the id of some job of the controller
Cancellable == LocalId \cup {RemoteId}
Place    == (-MaxAhead)..MaxPlace

LocalRow == [status           : {"absent", "queued", "running", "succeeded", "failed"},
             error            : {"", "reported", "unknown"},
             cancel_requested : {0, 1},
             queue_position   : Int]

NewRow(status, place) == [status |-> status, error |-> "",
                          cancel_requested |-> 0, queue_position |-> place]

Absent == NewRow("absent", 0)

Present(i)  == rows[i].status # "absent"
Waiting(i)  == rows[i].status = "queued"
IsRunning(i) == rows[i].status = "running"
HasFailed(i) == rows[i].status = "failed"

\* ORDER BY queue_position,sequence
Precedes(i, k) == \/ rows[i].queue_position < rows[k].queue_position
                  \/ rows[i].queue_position = rows[k].queue_position /\ i < k

\* SELECT COALESCE(MAX(queue_position),0) FROM jobs
IsLastPlace(m) ==
  \/ m = 0 /\ \A i \in LocalId : ~Present(i)
  \/ /\ \E i \in LocalId : Present(i) /\ rows[i].queue_position = m
     /\ \A i \in LocalId : Present(i) => rows[i].queue_position <= m

\* SELECT MIN(queue_position) FROM jobs WHERE status='queued'
IsFirstPlace(m) ==
  /\ \E i \in LocalId : Waiting(i) /\ rows[i].queue_position = m
  /\ \A i \in LocalId : Waiting(i) => m <= rows[i].queue_position

(***************************************************************************)
(* The loop.  In phase "starting" the socket is open and Run has not done  *)
(* its recovery yet; in phase "remote" the loop runs a job of the          *)
(* controller, from claimed to reported, or waits for the answer to a      *)
(* request; the phases after it are those of a local job.                  *)
(*   job, flagged   the claimed job and the flag that came with it         *)
(*   cause          context.Cause of the context of the active job         *)
(*   requested      activeJobState.requestedID                             *)
(*   stopping       whether the context of the daemon is cancelled         *)
(***************************************************************************)
ActivePhases == {"active", "running", "report"}

Loop == [phase     : {"down", "starting", "idle", "claimed", "remote"} \cup ActivePhases,
         job       : LocalId \cup {NoLocal},
         flagged   : {0, 1},
         cause     : {"none", "user", "shutdown"},
         requested : LocalId \cup {NoLocal, RemoteId},
         result    : {"none", "succeeded", "failed"},
         stopping  : BOOLEAN]

Idle == [phase |-> "idle", job |-> NoLocal, flagged |-> 0, cause |-> "none",
         requested |-> NoLocal, result |-> "none", stopping |-> FALSE]

Down == [Idle EXCEPT !.phase = "down"]

Process == [launched : 0..2, ended : {"no", "succeeded", "failed"}]

Fresh == [launched |-> 0, ended |-> "no"]

IsUp == loop.phase # "down"

Serving == loop.phase \notin {"down", "starting"}

-----------------------------------------------------------------------------
(* The requests at the socket.                                             *)

\* The daemon answers while it is up; a handler that passed the check for
\* shutdown may still finish its transaction.
Handler == IsUp /\ UNCHANGED <<loop, handlers>>

Forget(chosen) == process' = [i \in LocalId |-> IF i \in chosen THEN Fresh ELSE process[i]]

\* Mutant: the number of the job is its position, as in the controller.
submitAtSequence ==
  /\ Handler
  /\ last < MaxLocal
  /\ last' = last + 1
  /\ rows' = [rows EXCEPT ![last + 1] = NewRow("queued", last + 1)]
  /\ Forget({last + 1})

submit ==
  /\ Handler
  /\ last < MaxLocal
  /\ last' = last + 1
  /\ \E m \in Place : /\ IsLastPlace(m) /\ m + 1 \in Place
                      /\ rows' = [rows EXCEPT ![last + 1] = NewRow("queued", m + 1)]
  /\ Forget({last + 1})

\* remove deletes one record that is not running, ...
remove(i) ==
  /\ Handler
  /\ Present(i) /\ ~IsRunning(i)
  /\ rows' = [rows EXCEPT ![i] = Absent]
  /\ UNCHANGED <<last, process>>

\* Mutant: a running job is deleted as well.
removeEverything ==
  /\ Handler
  /\ rows' = [i \in LocalId |-> Absent]
  /\ UNCHANGED <<last, process>>

\* ... removeAll all of them, ...
removeAll ==
  /\ Handler
  /\ rows' = [i \in LocalId |-> IF IsRunning(i) THEN rows[i] ELSE Absent]
  /\ UNCHANGED <<last, process>>

\* ... and clear the finished ones.  None of them touches the numbering.
clear ==
  /\ Handler
  /\ rows' = [i \in LocalId |-> IF rows[i].status \in {"succeeded", "failed"}
                                THEN Absent ELSE rows[i]]
  /\ UNCHANGED <<last, process>>

\* One transaction; the chosen failed jobs keep their order behind all others.
retry(chosen) ==
  LET Rank(i) == Cardinality({k \in chosen : Precedes(k, i) \/ k = i})
  IN  /\ Handler
      /\ \A i \in chosen : HasFailed(i)
      /\ \E m \in Place :
           /\ IsLastPlace(m) /\ m + Cardinality(chosen) \in Place
           /\ rows' = [i \in LocalId |->
                         IF i \in chosen THEN NewRow("queued", m + Rank(i)) ELSE rows[i]]
      /\ Forget(chosen)
      /\ UNCHANGED last

urgent(i) ==
  /\ Handler
  /\ Waiting(i)
  /\ \E m \in Place : /\ IsFirstPlace(m) /\ m - 1 \in Place
                      /\ rows' = [rows EXCEPT ![i].queue_position = m - 1]
  /\ UNCHANGED <<last, process>>

swap(i, k) ==
  /\ Handler
  /\ Waiting(i) /\ Waiting(k)
  /\ rows' = [rows EXCEPT ![i].queue_position = rows[k].queue_position,
                          ![k].queue_position = rows[i].queue_position]
  /\ UNCHANGED <<last, process>>

\* requestCancel, up to the end of its transaction, ...
requestCancel(i) ==
  /\ IsUp /\ IsRunning(i)
  /\ handlers[i] < MaxHandlers
  /\ rows' = [rows EXCEPT ![i].cancel_requested = 1]
  /\ handlers' = [handlers EXCEPT ![i] = @ + 1]
  /\ UNCHANGED <<last, loop, process>>

\* RequestCancellation: remember the id, and cancel the active job if it is it.
Requested(i) ==
  [loop EXCEPT !.requested = i,
               !.cause = IF @ = "none" /\ loop.job = i /\ loop.phase \in ActivePhases
                         THEN "user" ELSE @]

\* (A heartbeat of a remote job brings the same request from the controller.)
heartbeatCancel ==
  /\ loop.phase = "remote" /\ handlers[RemoteId] < MaxHandlers
  /\ handlers' = [handlers EXCEPT ![RemoteId] = @ + 1]
  /\ UNCHANGED <<rows, last, loop, process>>

\* ... and its call of RequestCancellation.
callCancel(i) ==
  /\ IsUp /\ handlers[i] > 0
  /\ handlers' = [handlers EXCEPT ![i] = @ - 1]
  /\ loop' = Requested(i)
  /\ UNCHANGED <<rows, last, process>>

-----------------------------------------------------------------------------
(* The job loop.                                                           *)

\* Mutant: an interrupted job is run again.
RecoveredByRequeue == [i \in LocalId |-> IF IsRunning(i)
                                         THEN [rows[i] EXCEPT !.status = "queued"]
                                         ELSE rows[i]]

\* recover: a job that was running has an unknown outcome and is never run again.
Recovered == [i \in LocalId |-> IF IsRunning(i)
                                THEN [rows[i] EXCEPT !.status = "failed", !.error = "unknown"]
                                ELSE rows[i]]

\* openLocalQueue and openLocalSocket: requests are served from now on, ...
start ==
  /\ ~IsUp
  /\ rows' = IF LocalPersist THEN rows ELSE [i \in LocalId |-> Absent]
  /\ last' = IF LocalPersist THEN last ELSE 0
  /\ loop' = [Idle EXCEPT !.phase = "starting"]
  /\ UNCHANGED <<handlers, process>>

\* ... also on the rows that Run has still to recover.
recover ==
  /\ loop.phase = "starting"
  /\ rows' = Recovered
  /\ loop' = [loop EXCEPT !.phase = "idle"]
  /\ UNCHANGED <<last, handlers, process>>

\* The remote side has a job for the loop, and is done with it.
serveRemote ==
  /\ \/ loop.phase = "idle" /\ ~loop.stopping /\ loop' = [loop EXCEPT !.phase = "remote"]
     \/ loop.phase = "remote" /\ loop' = [loop EXCEPT !.phase = "idle"]
  /\ UNCHANGED <<rows, last, handlers, process>>

\* One UPDATE marks the first waiting job as running and returns its row.
claim(i) ==
  /\ loop.phase = "idle" /\ ~loop.stopping
  /\ Waiting(i) /\ \A k \in LocalId : Waiting(k) => k = i \/ Precedes(i, k)
  /\ rows' = [rows EXCEPT ![i].status = "running"]
  /\ loop' = [loop EXCEPT !.phase = "claimed", !.job = i,
                          !.flagged = rows[i].cancel_requested]
  /\ UNCHANGED <<last, handlers, process>>

\* The loop goes on, without touching the table.
LoopStep(next) ==
  /\ loop' = next
  /\ UNCHANGED <<rows, last, handlers, process>>

\* Activate
activate ==
  /\ loop.phase = "claimed"
  /\ LoopStep([loop EXCEPT !.phase = "active", !.flagged = 0,
                 !.cause = IF loop.stopping THEN "shutdown"
                           ELSE IF loop.flagged = 1 \/ loop.requested = loop.job
                           THEN "user" ELSE "none"])

\* Mutant: the early return leaves the result empty.
notStartedNoResult ==
  /\ loop.phase = "active"
  /\ LoopStep([loop EXCEPT !.phase = "report"])

\* executeJob returns before the command is started: its context is done, or
\* the output file, the record of its path or the command itself fails.
notStarted ==
  /\ loop.phase = "active"
  /\ LoopStep([loop EXCEPT !.phase = "report", !.result = "failed"])

launch ==
  /\ loop.phase = "active" /\ loop.cause = "none"
  /\ loop' = [loop EXCEPT !.phase = "running"]
  /\ process' = [process EXCEPT ![loop.job].launched = @ + 1]
  /\ UNCHANGED <<rows, last, handlers>>

\* The process is over, by itself with an outcome or else without success, and
\* execute returns a result.
ends(outcome, result) ==
  /\ loop.phase = "running"
  /\ loop' = [loop EXCEPT !.phase = "report", !.result = result]
  /\ process' = [process EXCEPT ![loop.job].ended = outcome]
  /\ UNCHANGED <<rows, last, handlers>>

\* The command ends by itself, and its result wins over a cancellation that is
\* noticed too late, ...
exit == \E outcome \in {"succeeded", "failed"} : ends(outcome, outcome)

\* Mutant: the exit code of an interrupted command is its result.
interruptedExitCode ==
  /\ loop.cause # "none"
  /\ \E code \in {"succeeded", "failed"} : ends("failed", code)

\* ... or it is interrupted, which is a failure whatever its exit code is.
interrupt == loop.cause # "none" /\ ends("failed", "failed")

\* reportResult with Finish of the local queue, and Deactivate.
\* The daemon ends if the row is not running any more.
finish ==
  /\ loop.phase = "report"
  /\ IF IsRunning(loop.job)
     THEN /\ rows' = [rows EXCEPT ![loop.job] =
                        [@ EXCEPT !.status = loop.result,
                                  !.error = IF loop.result = "failed" THEN "reported" ELSE ""]]
          /\ loop' = [Idle EXCEPT !.requested = loop.requested, !.stopping = loop.stopping]
     ELSE rows' = rows /\ loop' = Down
  /\ UNCHANGED <<last, handlers, process>>

\* Mutant: the context of the job is not derived from that of the daemon.
stopLoopOnly ==
  /\ IsUp /\ ~loop.stopping
  /\ LoopStep([loop EXCEPT !.stopping = TRUE])

\* Shutdown: the context of the daemon is cancelled, and that of its job too.
stop ==
  /\ IsUp /\ ~loop.stopping
  /\ LoopStep([loop EXCEPT !.stopping = TRUE,
                 !.cause = IF @ = "none" /\ loop.phase \in ActivePhases
                           THEN "shutdown" ELSE @])

\* Run has returned; the daemon waits for its other goroutines, then it ends.
end ==
  /\ loop.phase = "idle" /\ loop.stopping
  /\ \A i \in Cancellable : handlers[i] = 0
  /\ LoopStep(Down)

\* The daemon is killed between any two steps, with its handlers.
crash ==
  /\ IsUp
  /\ loop' = Down
  /\ handlers' = [i \in Cancellable |-> 0]
  /\ UNCHANGED <<rows, last, process>>

LocalInit ==
  /\ rows = [i \in LocalId |-> Absent]
  /\ last = 0
  /\ loop = Down
  /\ handlers = [i \in Cancellable |-> 0]
  /\ process = [i \in LocalId |-> Fresh]

\* A request for one job, or one iteration of a batch.
BatchJobs == \E i \in LocalId : remove(i) \/ retry({i}) \/ urgent(i)

Socket ==
  \/ submit \/ removeAll \/ clear \/ BatchJobs
  \/ retry({i \in LocalId : HasFailed(i)})
  \/ \E i \in LocalId : requestCancel(i)
  \/ \E i, k \in LocalId : swap(i, k)

JobLoop ==
  \/ start \/ recover \/ serveRemote \/ \E i \in LocalId : claim(i)
  \/ activate \/ notStarted \/ launch \/ exit \/ interrupt \/ finish

LocalNext ==
  \/ Socket \/ JobLoop
  \/ heartbeatCancel \/ \E i \in Cancellable : callCancel(i)
  \/ stop \/ end \/ crash

LocalSpec == LocalInit /\ [][LocalNext]_localVars

\* A daemon that is up goes on with its own code; a remote job ends, because
\* the stop of the daemon interrupts it.  Nothing else makes a command end.
LocalFairSpec ==
  /\ LocalSpec
  /\ WF_localVars(recover \/ activate \/ notStarted \/ launch \/ interrupt \/ finish \/ end)
  /\ WF_localVars(serveRemote /\ loop.stopping)
  /\ \A i \in Cancellable : WF_localVars(callCancel(i))

-----------------------------------------------------------------------------
(* What must hold of the local queue.                                      *)

\* Every column and every field keeps to its values.
LocalTypeOK ==
  /\ rows \in [LocalId -> LocalRow]
  /\ last \in 0..MaxLocal
  /\ loop \in Loop
  /\ handlers \in [Cancellable -> 0..MaxHandlers]
  /\ process \in [LocalId -> Process]

\* Once the daemon has recovered, a row is running exactly when the loop holds it,
\* so nothing but the loop ends a run and the report of a result never fails.
LoopOwnsRunning ==
  Serving => \A i \in LocalId : IsRunning(i) <=> loop.job = i

\* The counter is past every row, so a number is given out once and a request
\* for an old job never meets a new one.
NumbersNotReused == \A i \in LocalId : Present(i) => i <= last

\* A command is launched at most once per submission or retry, also across
\* crashes between the claim and the report.
NeverReplayed == \A i \in LocalId : process[i].launched <= 1

\* A row says succeeded only when its process was launched and ended by itself
\* with code zero: not when it was interrupted, whatever it exits with then.
LocalSuccessIsReal ==
  \A i \in LocalId : rows[i].status = "succeeded" =>
    process[i].ended = "succeeded" /\ process[i].launched = 1

\* Submitted and retried jobs wait behind every job that was waiting.
LocalFifo ==
  [][\A i, k \in LocalId :
       ~Waiting(i) /\ Waiting(i)' /\ Waiting(k) /\ Waiting(k)' => Precedes(k, i)']_localVars

\* One worker holds the local jobs; it is silent until it has recovered.
LocalLifecycle == INSTANCE JobLifecycle
  WITH Job    <- LocalId,
       Worker <- {"worker"},
       None   <- "none",
       status <- [i \in LocalId |-> IF rows[i].error = "unknown" THEN "lost" ELSE rows[i].status],
       holder <- [i \in LocalId |-> IF rows[i].status \in {"absent", "queued"}
                                    THEN "none" ELSE "worker"],
       silent <- IF Serving THEN {} ELSE {"worker"}

\* The local queue implements the life of a job: no request and no crash lets two
\* jobs run at once or replaces a recorded outcome other than by retry or
\* deletion, and a run is given up only after the daemon went down.
LocalImplementsLifecycle == LocalLifecycle!Spec

\* A stop ends the daemon, whatever it is doing.
StopCompletes == loop.stopping ~> ~IsUp

\* A cancellation that a user has asked for, and whose handler is done, has
\* cancelled the job when its command runs (active_job.go: "Remember requests
\* arriving just before activation as well").
CancellationRemembered ==
  \A i \in LocalId :
    /\ loop.phase = "running" /\ loop.job = i
    /\ rows[i].cancel_requested = 1 /\ handlers[i] = 0
    => loop.cause # "none"
=============================================================================
