------------------------------- MODULE Daemon -------------------------------
(***************************************************************************)
(* Starting, stopping and restarting the worker daemon of one state        *)
(* directory: worker/daemon.go, worker/identity_linux.go, and the opening  *)
(* and closing order of runWithContext in worker/main.go.                  *)
(*                                                                         *)
(* An invocation is one run of jobd-worker: in the foreground, or with     *)
(* --start, --stop or --restart (also by jobd itself, cli/worker.go).  It  *)
(* launches at most one daemon process, which has the same name here.      *)
(* Invocations and processes share the lock file daemon.lock, the socket   *)
(* control.sock and the file worker-id, and nothing else.                  *)
(*                                                                         *)
(* A deadline may pass whenever the code would look at the clock.          *)
(***************************************************************************)
EXTENDS Naturals

CONSTANTS Invocation,  \* bound: the runs of jobd-worker
          None         \* no invocation: a free lock, a path with no file

ASSUME DaemonConstants == None \notin Invocation

VARIABLES stateDir,  \* whether the state directory was made
          lock,      \* who holds the flock of daemon.lock
          workerId,  \* contents of worker-id; a new identity is named by its creator
          socket,    \* who bound the file control.sock, dead or alive
          daemon,    \* the daemon process of each invocation
          command    \* the --start, --stop or --restart of each invocation

vars == <<stateDir, lock, workerId, socket, daemon, command>>

DaemonPhases == {"unborn", "starting", "locked", "creating", "identified",
                 "binding", "serving", "draining", "unlocking", "exited"}

Process == [phase    : DaemonPhases,
            stopping : BOOLEAN,                  \* its context is cancelled
            id       : Invocation \cup {None}]   \* identity.ID

CommandPhases == {"idle", "checking", "spawning", "waiting", "givingUp", "locking",
                  "posting", "polling", "holding", "succeeded", "failed", "killed"}

Command == [phase   : CommandPhases,
            restart : BOOLEAN,                    \* stopWorker was called by a restart
            asked   : Invocation \cup {None}]     \* who answered POST /daemon/stop

\* A command about to begin or to launch, or over.
At(phase) == [phase |-> phase, restart |-> FALSE, asked |-> None]

Alive(p)     == daemon[p].phase \notin {"unborn", "exited"}
\* From a successful flock to the closing of the file.
Locked(p)    == Alive(p) /\ daemon[p].phase # "starting"
\* From openLocalQueue to local.Close.
QueueOpen(p) == daemon[p].phase \in {"binding", "serving", "draining"}

\* Dialling the socket finds a listener; otherwise there is no file, or the
\* file of a process that is gone and refuses the connection.
Reachable(p) == socket = p /\ daemon[p].phase = "serving"
Healthy      == \E p \in Invocation : Reachable(p) /\ ~daemon[p].stopping
Absent       == \A p \in Invocation : ~Reachable(p)

-----------------------------------------------------------------------------
(* The daemon process: runWithContext.                                     *)

Enter(p, from, to) ==
  /\ daemon[p].phase = from
  /\ daemon' = [daemon EXCEPT ![p].phase = to]

\* The process is gone; its identity is kept for the property OneIdentity.
Exit(p) == daemon' = [daemon EXCEPT ![p] = [@ EXCEPT !.phase = "exited", !.stopping = FALSE]]

\* Mutant: a lock that is taken is no error.
TakeLockAnyway(p) ==
  /\ Enter(p, "starting", "locked")
  /\ stateDir' = TRUE
  /\ lock' = p
  /\ UNCHANGED <<workerId, socket, command>>

\* OpenWorkerIdentity: the lock is tried once.
TakeLock(p) ==
  /\ lock = None
  /\ Enter(p, "starting", "locked")
  /\ stateDir' = TRUE
  /\ lock' = p
  /\ UNCHANGED <<workerId, socket, command>>

\* The lock is taken, or a setting is invalid.
StartFails(p) ==
  /\ daemon[p].phase = "starting" /\ Exit(p)
  /\ UNCHANGED <<stateDir, lock, workerId, socket, command>>

LoadIdentity(p) ==
  /\ daemon[p].phase = "locked" /\ workerId # None
  /\ daemon' = [daemon EXCEPT ![p] = [@ EXCEPT !.phase = "identified", !.id = workerId]]
  /\ UNCHANGED <<stateDir, lock, workerId, socket, command>>

\* Mutant: the identity is written in place.
CreateInPlace(p) ==
  /\ workerId = None
  /\ Enter(p, "locked", "creating")
  /\ workerId' = "partial"
  /\ UNCHANGED <<stateDir, lock, socket, command>>

\* Mutant: an identity that is there is replaced.
CreateAnother(p) ==
  /\ Enter(p, "locked", "creating")
  /\ UNCHANGED <<stateDir, lock, workerId, socket, command>>

\* A new identity is written to a temporary file that nobody reads ...
CreateIdentity(p) ==
  /\ workerId = None
  /\ Enter(p, "locked", "creating")
  /\ UNCHANGED <<stateDir, lock, workerId, socket, command>>

\* ... and moved into place.
RenameIdentity(p) ==
  /\ daemon[p].phase = "creating"
  /\ workerId' = p
  /\ daemon' = [daemon EXCEPT ![p] = [@ EXCEPT !.phase = "identified", !.id = p]]
  /\ UNCHANGED <<stateDir, lock, socket, command>>

\* openLocalQueue, and then openLocalSocket removes whatever socket is there ...
OpenQueue(p) ==
  /\ Enter(p, "identified", "binding")
  /\ socket' = None
  /\ UNCHANGED <<stateDir, lock, workerId, command>>

\* ... and binds its own; a file in its place is an error.
Listen(p) ==
  /\ socket = None
  /\ Enter(p, "binding", "serving")
  /\ socket' = p
  /\ UNCHANGED <<stateDir, lock, workerId, command>>

\* A step of the start returns an error: what is open is closed.
OpenFails(p) ==
  /\ \/ \E from \in {"locked", "creating", "identified"} : Enter(p, from, "unlocking")
     \/ Enter(p, "binding", "draining")
  /\ UNCHANGED <<stateDir, lock, workerId, socket, command>>

\* Mutant: the lock is released before the queue is closed.
UnlockFirst(p) ==
  /\ Enter(p, "serving", "draining")
  /\ socket' = None
  /\ lock' = None
  /\ UNCHANGED <<stateDir, workerId, command>>

\* Run returns, because of its context or of an error, and localSocket.Close
\* shuts the listener, which unlinks the path whoever owns the file by then.
CloseSocket(p) ==
  /\ Enter(p, "serving", "draining")
  /\ socket' = None
  /\ UNCHANGED <<stateDir, lock, workerId, command>>

CloseQueue(p) ==
  /\ Enter(p, "draining", "unlocking")
  /\ UNCHANGED <<stateDir, lock, workerId, socket, command>>

\* identity.Close, the first defer and the last to run.
CloseLock(p) ==
  /\ daemon[p].phase = "unlocking" /\ Exit(p)
  /\ lock' = None
  /\ UNCHANGED <<stateDir, workerId, socket, command>>

\* The kernel releases the lock of a killed process and leaves its socket file.
Crash(p) ==
  /\ Alive(p) /\ Exit(p)
  /\ lock' = IF Locked(p) THEN None ELSE lock
  /\ UNCHANGED <<stateDir, workerId, socket, command>>

\* SIGTERM cancels the context once the handler is installed; the start does
\* not look at the context, so the daemon opens everything and then stops.
Terminated(p) ==
  \/ Alive(p) /\ daemon' = [daemon EXCEPT ![p].stopping = TRUE]
  \/ daemon[p].phase = "starting" /\ Exit(p)
  \/ ~Alive(p) /\ UNCHANGED daemon

Signal(p) ==
  /\ Alive(p) /\ Terminated(p)
  /\ UNCHANGED <<stateDir, lock, workerId, socket, command>>

-----------------------------------------------------------------------------
(* The commands: manageWorker.                                             *)

Proceed(i, from, to) ==
  /\ command[i].phase = from
  /\ command' = [command EXCEPT ![i] = At(to)]

\* An invocation in the foreground is the daemon itself.
RunForeground(i) ==
  /\ command[i].phase = "idle" /\ Enter(i, "unborn", "starting")
  /\ command' = [command EXCEPT ![i] = At("succeeded")]
  /\ UNCHANGED <<stateDir, lock, workerId, socket>>

\* A restart refuses invalid controller settings before it stops anything.
RefuseSettings(i) ==
  /\ Proceed(i, "idle", "failed")
  /\ UNCHANGED <<stateDir, lock, workerId, socket, daemon>>

Begin(i, op) ==
  /\ command[i].phase = "idle"
  /\ command' = [command EXCEPT ![i] = IF op = "start" THEN At("checking")
                                       ELSE [At("locking") EXCEPT !.restart = (op = "restart")]]
  /\ UNCHANGED <<stateDir, lock, workerId, socket, daemon>>

\* ensureWorker asks for the health of a worker before it launches one.  A
\* worker that is stopping (503) or does not answer in a second is an error.
CheckHealth(i) ==
  /\ \/ Healthy /\ Proceed(i, "checking", "succeeded")
     \/ Absent /\ Proceed(i, "checking", "spawning")
     \/ ~Absent /\ Proceed(i, "checking", "failed")
  /\ UNCHANGED <<stateDir, lock, workerId, socket, daemon>>

\* startWorker launches a process, unless the directory, the log or the launch
\* fails, ...
Spawn(i) ==
  /\ \/ /\ Proceed(i, "spawning", "waiting") /\ Enter(i, "unborn", "starting")
        /\ stateDir' = TRUE
     \/ /\ Proceed(i, "spawning", "failed")
        /\ stateDir' \in {stateDir, TRUE} /\ UNCHANGED daemon
  /\ UNCHANGED <<lock, workerId, socket>>

\* Mutant: an exited child does not count against the deadline.
WaitWhileChildLives(i) ==
  /\ \/ Healthy /\ Proceed(i, "waiting", "succeeded")
     \/ ~Absent /\ Proceed(i, "waiting", "givingUp")
     \/ Absent /\ Alive(i) /\ Proceed(i, "waiting", "givingUp")
  /\ UNCHANGED <<stateDir, lock, workerId, socket, daemon>>

\* ... and waits until any worker is healthy, a check fails or 10 s are over.
\* The exit of its own process changes only the message of the last case.
WaitHealthy(i) ==
  /\ \/ Healthy /\ Proceed(i, "waiting", "succeeded")
     \/ ~Absent /\ Proceed(i, "waiting", "givingUp")
     \/ Absent /\ Proceed(i, "waiting", "givingUp")
  /\ UNCHANGED <<stateDir, lock, workerId, socket, daemon>>

\* Mutant: a failed start forgets the process it launched.
ForgetChild(i) ==
  /\ Proceed(i, "givingUp", "failed")
  /\ UNCHANGED <<stateDir, lock, workerId, socket, daemon>>

\* The deferred SIGTERM of a start that failed, some time after the check.
GiveUp(i) ==
  /\ Proceed(i, "givingUp", "failed")
  /\ Terminated(i)
  /\ UNCHANGED <<stateDir, lock, workerId, socket>>

\* A step inside stopWorker.
Advance(i, from, to) ==
  /\ command[i].phase = from
  /\ command' = [command EXCEPT ![i].phase = to]

\* Where stopWorker returns to.
AfterStop(i) == IF command[i].restart THEN "spawning" ELSE "succeeded"

\* stopWorker: without a state directory, or with a free lock, nothing runs.
\* The directory or the lock file may not be accessible.
TryLock(i) ==
  /\ \/ ~stateDir /\ Proceed(i, "locking", AfterStop(i)) /\ UNCHANGED lock
     \/ stateDir /\ lock = None /\ Advance(i, "locking", "holding") /\ lock' = i
     \/ stateDir /\ lock # None /\ Advance(i, "locking", "posting") /\ UNCHANGED lock
     \/ stateDir /\ Proceed(i, "locking", "failed") /\ UNCHANGED lock
  /\ UNCHANGED <<stateDir, workerId, socket, daemon>>

\* POST /daemon/stop cancels the context of whoever listens.
PostStop(i) ==
  /\ \E p \in Invocation :
       /\ Reachable(p)
       /\ daemon' = [daemon EXCEPT ![p].stopping = TRUE]
       /\ command[i].phase = "posting"
       /\ command' = [command EXCEPT ![i] = [@ EXCEPT !.phase = "polling", !.asked = p]]
  /\ UNCHANGED <<stateDir, lock, workerId, socket>>

\* Nobody listens, or the answer does not come.
PostFails(i) ==
  /\ Proceed(i, "posting", "failed")
  /\ \/ UNCHANGED daemon
     \/ \E p \in Invocation :
          Reachable(p) /\ daemon' = [daemon EXCEPT ![p].stopping = TRUE]
  /\ UNCHANGED <<stateDir, lock, workerId, socket>>

\* Mutant: the end of the socket is taken for the end of the worker.
PollSocket(i) ==
  /\ \/ Absent /\ Advance(i, "polling", "holding") /\ lock' = i
     \/ lock # None /\ Proceed(i, "polling", "failed") /\ UNCHANGED lock
  /\ UNCHANGED <<stateDir, workerId, socket, daemon>>

\* The lock is tried until it is free, or 30 s are over.
PollLock(i) ==
  /\ \/ lock = None /\ Advance(i, "polling", "holding") /\ lock' = i
     \/ lock # None /\ Proceed(i, "polling", "failed") /\ UNCHANGED lock
  /\ UNCHANGED <<stateDir, workerId, socket, daemon>>

\* The deferred lock.Close of stopWorker; a restart goes on to startWorker.
Return(i) ==
  /\ Proceed(i, "holding", AfterStop(i))
  /\ lock' = None
  /\ UNCHANGED <<stateDir, workerId, socket, daemon>>

\* A command is interrupted.  Its process, in a session of its own, is not.
Kill(i) ==
  /\ command[i].phase \notin {"idle", "succeeded", "failed", "killed"}
  /\ command' = [command EXCEPT ![i] = At("killed")]
  /\ lock' = IF command[i].phase = "holding" THEN None ELSE lock
  /\ UNCHANGED <<stateDir, workerId, socket, daemon>>

-----------------------------------------------------------------------------
Init ==
  /\ stateDir = FALSE
  /\ lock = None
  /\ workerId = None
  /\ socket = None
  /\ daemon = [p \in Invocation |-> [phase |-> "unborn", stopping |-> FALSE, id |-> None]]
  /\ command = [i \in Invocation |-> At("idle")]

\* What a process does by itself.
Startup(p) ==
  \/ TakeLock(p) \/ StartFails(p) \/ LoadIdentity(p) \/ CreateIdentity(p) \/ RenameIdentity(p)
  \/ OpenQueue(p) \/ Listen(p) \/ OpenFails(p)

Shutdown(p) == CloseSocket(p) \/ CloseQueue(p) \/ CloseLock(p)

CommandStep(i) ==
  \/ CheckHealth(i) \/ Spawn(i) \/ WaitHealthy(i) \/ GiveUp(i)
  \/ TryLock(i) \/ PostStop(i) \/ PostFails(i) \/ PollLock(i) \/ Return(i)

Next ==
  \E i \in Invocation :
    \/ Startup(i) \/ Shutdown(i) \/ Crash(i) \/ Signal(i)
    \/ RunForeground(i) \/ RefuseSettings(i) \/ (\E op \in {"start", "stop", "restart"} : Begin(i, op))
    \/ CommandStep(i) \/ Kill(i)

Spec == Init /\ [][Next]_vars

(***************************************************************************)
(* Processes and commands go on with their own code; a daemon that is told *)
(* to stop ends its Run (worker.go waits at most for the grace period of a *)
(* job and a 10 s report).  Nobody has to start, stop or kill anything.    *)
(***************************************************************************)
Fairness ==
  \A i \in Invocation :
    /\ WF_vars(Startup(i))
    /\ WF_vars(daemon[i].stopping /\ CloseSocket(i))
    /\ WF_vars(CloseQueue(i) \/ CloseLock(i))
    /\ WF_vars(CommandStep(i))

FairSpec == Spec /\ Fairness

-----------------------------------------------------------------------------
(* What must hold of the directory and its processes.                      *)

ManagementTypeOK ==
  /\ stateDir \in BOOLEAN
  /\ lock \in Invocation \cup {None}
  /\ workerId \in Invocation \cup {None}
  /\ socket \in Invocation \cup {None}
  /\ daemon \in [Invocation -> Process]
  /\ command \in [Invocation -> Command]

\* Whatever starts, stops and crashes overlap, one process at most has the
\* queue database open (local_socket.go: "only the worker opens the database").
OneDaemon ==
  \A p, q \in Invocation : QueueOpen(p) /\ QueueOpen(q) => p = q

\* A worker that serves is the one its socket path leads to: no starting
\* process removes, and no ending process unlinks, the socket of another.
SocketLeadsToWorker ==
  \A p \in Invocation : daemon[p].phase = "serving" => socket = p

\* Every daemon of a state directory has the same identity, also when the
\* first ones were killed while they made it.
OneIdentity ==
  \A p, q \in Invocation :
    daemon[p].id # None /\ daemon[q].id # None => daemon[p].id = daemon[q].id

\* When stopWorker returns without an error, the daemon that took its request
\* is over and nobody has the queue open (README: "stop and wait for cleanup").
StopIsComplete ==
  \A i \in Invocation :
    command[i].phase = "holding" =>
      /\ \A p \in Invocation : ~QueueOpen(p)
      /\ command[i].asked # None => ~Alive(command[i].asked)

\* Every command returns, whatever the others do to the lock and the socket.
CommandsReturn ==
  <>[](\A i \in Invocation : command[i].phase \in {"idle", "succeeded", "failed", "killed"})

\* The process of a start that reports an error does not stay behind.
FailedStartLeavesNothing ==
  <>[](\A i \in Invocation : command[i].phase = "failed" => ~Alive(i))
=============================================================================
