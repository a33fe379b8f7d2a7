---------------------------- MODULE DaemonProofs ----------------------------
(***************************************************************************)
(* What Daemon promises, for any number of invocations that start, stop,   *)
(* fail and are killed in any overlap.                                     *)
(***************************************************************************)
EXTENDS Daemon, TLAPS

\* The phases of a command that has not launched a process.
Unlaunched == {"idle", "checking", "spawning", "locking", "posting", "polling", "holding"}

\* The lock is held by whoever believes to hold it.  A command that holds it
\* has no process yet, so it cannot be confused with its own daemon.
LockHeld ==
  /\ \A p \in Invocation : Locked(p) => lock = p
  /\ \A i \in Invocation : command[i].phase = "holding" => lock = i
  /\ \A i \in Invocation : command[i].phase \in Unlaunched => daemon[i].phase = "unborn"

\* Processes know the identity in the file or none, and none makes another.
IdentityKept ==
  /\ \A p \in Invocation : daemon[p].id \in {None, workerId}
  /\ \A p \in Invocation : daemon[p].phase = "creating" => workerId = None

\* A process that has answered a stop has had the lock, so it has it still or
\* is over; it is over when the command has the lock.
AskedServed ==
  \A i \in Invocation :
    command[i].asked # None =>
      /\ daemon[command[i].asked].phase \notin {"unborn", "starting"}
      /\ command[i].phase = "holding" => daemon[command[i].asked].phase = "exited"

Agreement == LockHeld /\ SocketLeadsToWorker /\ IdentityKept /\ AskedServed

DInv == ManagementTypeOK /\ Agreement

-----------------------------------------------------------------------------
(* What the steps do to the parts of Agreement.  Every action is one of    *)
(* the five kinds below.                                                   *)

\* The process that has the lock goes on, or exits and releases it.
OwnStep(p) ==
  /\ Locked(p)
  /\ \A q \in Invocation : q # p => daemon'[q] = daemon[q]
  /\ daemon'[p].phase \notin {"unborn", "starting"}
  /\ daemon'[p].id \in {None, workerId'}
  /\ daemon'[p].phase = "creating" => workerId' = None
  /\ workerId' = workerId \/ workerId = None
  /\ lock' = IF daemon'[p].phase = "exited" THEN None ELSE lock
  /\ daemon'[p].phase = "serving" => socket' = p
  /\ command' = command

\* Processes are launched, die before they have the lock, or are told to stop.
Aside ==
  /\ \A q \in Invocation :
       /\ daemon'[q].id = daemon[q].id
       /\ \/ daemon'[q].phase = daemon[q].phase
          \/ daemon[q].phase = "unborn" /\ daemon'[q].phase = "starting"
          \/ daemon[q].phase = "starting" /\ daemon'[q].phase = "exited"
  /\ UNCHANGED <<workerId, socket>>

\* A command goes on without the lock.
QuietStep(i) ==
  /\ Aside /\ lock' = lock
  /\ \A q \in Invocation : q # i /\ daemon[q].phase = "unborn" => daemon'[q].phase = "unborn"
  /\ \A k \in Invocation : k # i => command'[k] = command[k]
  /\ command'[i].phase \in Unlaunched => daemon'[i].phase = "unborn"
  /\ command'[i].phase # "holding" \/ command' = command
  /\ command'[i].asked \in {None, command[i].asked} \cup {p \in Invocation : Locked(p)}

\* A command takes the free lock.
Acquire(i) ==
  /\ lock = None /\ lock' = i
  /\ UNCHANGED <<daemon, workerId, socket>>
  /\ \A k \in Invocation : k # i => command'[k] = command[k]
  /\ daemon[i].phase = "unborn"
  /\ command'[i].asked = command[i].asked

\* A command gives the lock back.
Release(i) ==
  /\ command[i].phase = "holding" /\ lock' = None
  /\ UNCHANGED <<daemon, workerId, socket>>
  /\ \A k \in Invocation : k # i => command'[k] = command[k]
  /\ command'[i].phase # "holding" /\ command'[i].asked = None

LEMMA AskedInvocation ==
  ManagementTypeOK => \A i \in Invocation : command[i].asked \in Invocation \cup {None}
BY DEF ManagementTypeOK, Command

LEMMA OwnStepKeepsAgreement ==
  ASSUME DInv, NEW p \in Invocation, OwnStep(p)
  PROVE  Agreement'
<1> USE DaemonConstants DEF DInv, Agreement, OwnStep
<1>1. lock = p /\ \A q \in Invocation : Locked(q) => q = p
  BY DEF LockHeld
<1>2. \A i \in Invocation : command[i].phase # "holding"
  BY <1>1 DEF LockHeld, Locked, Alive, Unlaunched
<1>3. LockHeld'
  BY <1>1, <1>2 DEF LockHeld, Locked, Alive, Unlaunched
<1>4. SocketLeadsToWorker'
  BY <1>1 DEF SocketLeadsToWorker, Locked, Alive
<1>5. IdentityKept'
  BY <1>1 DEF IdentityKept, Locked, Alive
<1>6. AskedServed'
  BY <1>2, AskedInvocation DEF AskedServed
<1> QED
  BY <1>3, <1>4, <1>5, <1>6

LEMMA QuietStepKeepsAgreement ==
  ASSUME DInv, NEW i \in Invocation, QuietStep(i)
  PROVE  Agreement'
<1> USE DaemonConstants DEF DInv, Agreement, QuietStep, Aside
<1>1. LockHeld'
  BY DEF LockHeld, Locked, Alive
<1>2. SocketLeadsToWorker'
  BY DEF SocketLeadsToWorker
<1>3. IdentityKept'
  BY DEF IdentityKept
<1>4. AskedServed'
  <2> SUFFICES ASSUME NEW k \in Invocation, command'[k].asked # None
               PROVE  /\ daemon'[command'[k].asked].phase \notin {"unborn", "starting"}
                      /\ command'[k].phase = "holding" => daemon'[command'[k].asked].phase = "exited"
    BY DEF AskedServed
  <2>1. CASE k # i \/ command' = command
    BY <2>1, AskedInvocation DEF AskedServed
  <2>2. CASE k = i /\ command'[i].phase # "holding"
    BY <2>2, AskedInvocation DEF AskedServed, Locked, Alive
  <2> QED
    BY <2>1, <2>2
<1> QED
  BY <1>1, <1>2, <1>3, <1>4

LEMMA AcquireKeepsAgreement ==
  ASSUME DInv, NEW i \in Invocation, Acquire(i)
  PROVE  Agreement'
<1> USE DaemonConstants DEF DInv, Agreement, Acquire
<1>1. \A q \in Invocation : ~Locked(q)
  BY DEF LockHeld
<1>2. LockHeld'
  BY <1>1 DEF LockHeld, Locked, Alive
<1>3. SocketLeadsToWorker' /\ IdentityKept'
  BY DEF SocketLeadsToWorker, IdentityKept
<1>4. AskedServed'
  BY <1>1, AskedInvocation DEF AskedServed, Locked, Alive
<1> QED
  BY <1>2, <1>3, <1>4

LEMMA ReleaseKeepsAgreement ==
  ASSUME DInv, NEW i \in Invocation, Release(i)
  PROVE  Agreement'
<1> USE DaemonConstants DEF DInv, Agreement, Release
<1>1. lock = i /\ daemon[i].phase = "unborn"
  BY DEF LockHeld, Unlaunched
<1>2. \A q \in Invocation : ~Locked(q)
  BY <1>1 DEF LockHeld, Locked, Alive
<1>3. LockHeld'
  BY <1>1, <1>2 DEF LockHeld, Locked, Alive
<1>4. SocketLeadsToWorker' /\ IdentityKept'
  BY DEF SocketLeadsToWorker, IdentityKept
<1>5. AskedServed'
  BY AskedInvocation DEF AskedServed
<1> QED
  BY <1>3, <1>4, <1>5

\* The fifth kind: a process finds the lock free.
LEMMA TakeLockKeepsAgreement ==
  ASSUME DInv, NEW p \in Invocation, TakeLock(p)
  PROVE  Agreement'
<1> USE DaemonConstants DEF DInv, Agreement
<1>1. /\ lock = None /\ lock' = p /\ daemon[p].phase = "starting"
      /\ UNCHANGED <<workerId, socket, command>>
      /\ \A q \in Invocation : q # p => daemon'[q] = daemon[q]
      /\ daemon'[p].phase = "locked" /\ daemon'[p].id = daemon[p].id
  BY DEF TakeLock, Enter, ManagementTypeOK, Process
<1>2. \A q \in Invocation : ~Locked(q) /\ command[q].phase # "holding"
  BY <1>1 DEF LockHeld
<1>3. LockHeld'
  BY <1>1, <1>2 DEF LockHeld, Locked, Alive, Unlaunched
<1>4. SocketLeadsToWorker' /\ IdentityKept'
  BY <1>1 DEF SocketLeadsToWorker, IdentityKept
<1>5. AskedServed'
  BY <1>1, <1>2, AskedInvocation DEF AskedServed
<1> QED
  BY <1>3, <1>4, <1>5\* A command goes on to another phase and forgets the rest.
LEMMA ProceedFacts ==
  ASSUME ManagementTypeOK, NEW i \in Invocation, NEW from, NEW to \in CommandPhases,
         Proceed(i, from, to)
  PROVE  /\ command' \in [Invocation -> Command]
         /\ command[i].phase = from /\ command'[i].phase = to /\ command'[i].asked = None
         /\ \A k \in Invocation : k # i => command'[k] = command[k]
BY DEF ManagementTypeOK, Proceed, At, Command

\* A command goes on inside stopWorker.
LEMMA AdvanceFacts ==
  ASSUME ManagementTypeOK, NEW i \in Invocation, NEW from, NEW to \in CommandPhases,
         Advance(i, from, to)
  PROVE  /\ command' \in [Invocation -> Command]
         /\ command[i].phase = from /\ command'[i].phase = to /\ command'[i].asked = command[i].asked
         /\ \A k \in Invocation : k # i => command'[k] = command[k]
BY DEF ManagementTypeOK, Advance, Command

\* A process that is told to stop stays where it is.
LEMMA StoppingFacts ==
  ASSUME ManagementTypeOK, NEW p \in Invocation, daemon' = [daemon EXCEPT ![p].stopping = TRUE]
  PROVE  /\ daemon' \in [Invocation -> Process]
         /\ \A q \in Invocation : daemon'[q].phase = daemon[q].phase /\ daemon'[q].id = daemon[q].id
BY DEF ManagementTypeOK, Process

\* A process that ends or learns its identity keeps its type.
LEMMA ExitType ==
  ASSUME ManagementTypeOK, NEW p \in Invocation, Exit(p)
  PROVE  daemon' \in [Invocation -> Process]
<1> DEFINE gone == [daemon[p] EXCEPT !.phase = "exited", !.stopping = FALSE]
<1>1. daemon[p] \in Process /\ daemon \in [Invocation -> Process]
  BY DEF ManagementTypeOK
<1>2. gone \in Process
  BY <1>1 DEF Process, DaemonPhases
<1>3. daemon' = [daemon EXCEPT ![p] = gone]
  BY DEF Exit
<1> HIDE DEF gone
<1> QED
  BY <1>1, <1>2, <1>3

LEMMA IdentifiedType ==
  ASSUME ManagementTypeOK, NEW p \in Invocation, NEW id \in Invocation \cup {None},
         daemon' = [daemon EXCEPT ![p] = [@ EXCEPT !.phase = "identified", !.id = id]]
  PROVE  daemon' \in [Invocation -> Process]
<1> DEFINE known == [daemon[p] EXCEPT !.phase = "identified", !.id = id]
<1>1. daemon[p] \in Process /\ daemon \in [Invocation -> Process]
  BY DEF ManagementTypeOK
<1>2. known \in Process
  BY <1>1 DEF Process, DaemonPhases
<1>3. daemon' = [daemon EXCEPT ![p] = known]
  OBVIOUS
<1> HIDE DEF known
<1> QED
  BY <1>1, <1>2, <1>3

\* A SIGTERM ends a process at once, makes it stop later, or comes too late.
LEMMA TerminatedFacts ==
  ASSUME ManagementTypeOK, NEW p \in Invocation, Terminated(p)
  PROVE  /\ daemon' \in [Invocation -> Process]
         /\ \A q \in Invocation :
              /\ daemon'[q].id = daemon[q].id
              /\ \/ daemon'[q].phase = daemon[q].phase
                 \/ q = p /\ daemon[q].phase = "starting" /\ daemon'[q].phase = "exited"
<1>1. CASE daemon' = [daemon EXCEPT ![p].stopping = TRUE]
  BY <1>1, StoppingFacts
<1>2. CASE daemon[p].phase = "starting" /\ Exit(p)
  BY <1>2 DEF ManagementTypeOK, Exit, Process, DaemonPhases
<1>3. CASE UNCHANGED daemon
  BY <1>3 DEF ManagementTypeOK
<1> QED
  BY <1>1, <1>2, <1>3 DEF Terminated

-----------------------------------------------------------------------------
(* The invariant.                                                          *)

LEMMA InitDInv == Init => DInv
<1> SUFFICES ASSUME Init
             PROVE  DInv
  OBVIOUS
<1>1. ManagementTypeOK
  BY DEF Init, ManagementTypeOK, Process, Command, DaemonPhases, CommandPhases, At
<1>2. Agreement
  BY DaemonConstants DEF Init, Agreement, LockHeld, SocketLeadsToWorker, IdentityKept, AskedServed,
     At, Locked, Alive, Unlaunched
<1> QED
  BY <1>1, <1>2 DEF DInv

LEMMA StutterKeepsDInv == DInv /\ UNCHANGED vars => DInv'
BY DEF vars, DInv, Agreement, ManagementTypeOK, LockHeld, SocketLeadsToWorker, IdentityKept,
   AskedServed, Locked, Alive

\* The way up of a process.
LEMMA StartupKeepsDInv ==
  ASSUME DInv, NEW p \in Invocation, Startup(p)
  PROVE  DInv'
<1> USE DaemonConstants DEF DInv, ManagementTypeOK
<1>1. CASE TakeLock(p)
  <2>1. ManagementTypeOK'
    BY <1>1 DEF TakeLock, Enter, Process, DaemonPhases
  <2> QED
    BY <1>1, <2>1, TakeLockKeepsAgreement
<1>2. CASE StartFails(p)
  <2>1. ManagementTypeOK'
    BY <1>2, ExitType DEF StartFails
  <2>2. QuietStep(p)
    BY <1>2 DEF StartFails, Exit, QuietStep, Aside, Process, Command, Unlaunched, Agreement, LockHeld
  <2> QED
    BY <2>1, <2>2, QuietStepKeepsAgreement
<1>3. CASE LoadIdentity(p)
  <2>1. ManagementTypeOK'
    BY <1>3, IdentifiedType DEF LoadIdentity
  <2>2. OwnStep(p)
    BY <1>3 DEF LoadIdentity, OwnStep, Locked, Alive, Process, Agreement, IdentityKept, SocketLeadsToWorker
  <2> QED
    BY <2>1, <2>2, OwnStepKeepsAgreement
<1>4. CASE CreateIdentity(p)
  <2>1. ManagementTypeOK'
    BY <1>4 DEF CreateIdentity, Enter, Process, Command, DaemonPhases, CommandPhases
  <2>2. OwnStep(p)
    BY <1>4 DEF CreateIdentity, Enter, OwnStep, Locked, Alive, Process, Agreement, IdentityKept, SocketLeadsToWorker
  <2> QED
    BY <2>1, <2>2, OwnStepKeepsAgreement
<1>5. CASE RenameIdentity(p)
  <2>1. ManagementTypeOK'
    BY <1>5, IdentifiedType DEF RenameIdentity
  <2>2. OwnStep(p)
    BY <1>5 DEF RenameIdentity, OwnStep, Locked, Alive, Process, Agreement, IdentityKept, SocketLeadsToWorker
  <2> QED
    BY <2>1, <2>2, OwnStepKeepsAgreement
<1>6. CASE OpenQueue(p)
  <2>1. ManagementTypeOK'
    BY <1>6 DEF OpenQueue, Enter, Process, Command, DaemonPhases, CommandPhases
  <2>2. OwnStep(p)
    BY <1>6 DEF OpenQueue, Enter, OwnStep, Locked, Alive, Process, Agreement, IdentityKept, SocketLeadsToWorker
  <2> QED
    BY <2>1, <2>2, OwnStepKeepsAgreement
<1>7. CASE Listen(p)
  <2>1. ManagementTypeOK'
    BY <1>7 DEF Listen, Enter, Process, Command, DaemonPhases, CommandPhases
  <2>2. OwnStep(p)
    BY <1>7 DEF Listen, Enter, OwnStep, Locked, Alive, Process, Agreement, IdentityKept, SocketLeadsToWorker
  <2> QED
    BY <2>1, <2>2, OwnStepKeepsAgreement
<1>8. CASE OpenFails(p)
  <2>1. ManagementTypeOK'
    BY <1>8 DEF OpenFails, Enter, Process, Command, DaemonPhases, CommandPhases
  <2>2. OwnStep(p)
    BY <1>8 DEF OpenFails, Enter, OwnStep, Locked, Alive, Process, Agreement, IdentityKept, SocketLeadsToWorker
  <2> QED
    BY <2>1, <2>2, OwnStepKeepsAgreement
<1> QED
  BY <1>1, <1>2, <1>3, <1>4, <1>5, <1>6, <1>7, <1>8 DEF Startup

\* The way down.
LEMMA ShutdownKeepsDInv ==
  ASSUME DInv, NEW p \in Invocation, Shutdown(p)
  PROVE  DInv'
<1> USE DaemonConstants DEF DInv, ManagementTypeOK
<1>1. CASE CloseSocket(p)
  <2>1. ManagementTypeOK'
    BY <1>1 DEF CloseSocket, Enter, Process, Command, DaemonPhases, CommandPhases
  <2>2. OwnStep(p)
    BY <1>1 DEF CloseSocket, Enter, OwnStep, Locked, Alive, Process, Agreement, IdentityKept, SocketLeadsToWorker
  <2> QED
    BY <2>1, <2>2, OwnStepKeepsAgreement
<1>2. CASE CloseQueue(p)
  <2>1. ManagementTypeOK'
    BY <1>2 DEF CloseQueue, Enter, Process, Command, DaemonPhases, CommandPhases
  <2>2. OwnStep(p)
    BY <1>2 DEF CloseQueue, Enter, OwnStep, Locked, Alive, Process, Agreement, IdentityKept, SocketLeadsToWorker
  <2> QED
    BY <2>1, <2>2, OwnStepKeepsAgreement
<1>3. CASE CloseLock(p)
  <2>1. ManagementTypeOK'
    BY <1>3, ExitType DEF CloseLock
  <2>2. OwnStep(p)
    BY <1>3 DEF CloseLock, Exit, OwnStep, Locked, Alive, Process, Agreement, IdentityKept, SocketLeadsToWorker
  <2> QED
    BY <2>1, <2>2, OwnStepKeepsAgreement
<1> QED
  BY <1>1, <1>2, <1>3 DEF Shutdown

\* A process is killed or signalled.
LEMMA InterruptionKeepsDInv ==
  ASSUME DInv, NEW p \in Invocation, Crash(p) \/ Signal(p)
  PROVE  DInv'
<1> USE DaemonConstants DEF DInv, ManagementTypeOK
<1>1. CASE Crash(p)
  <2>1. ManagementTypeOK'
    BY <1>1 DEF Crash, Exit, Process, DaemonPhases
  <2>2. CASE Locked(p)
    <3>1. OwnStep(p)
      BY <1>1, <2>2 DEF Crash, Exit, OwnStep, Process, Agreement, IdentityKept
    <3> QED
      BY <2>1, <3>1, OwnStepKeepsAgreement
  <2>3. CASE ~Locked(p)
    <3>1. QuietStep(p)
      BY <1>1, <2>3 DEF Crash, Exit, QuietStep, Aside, Locked, Alive, Process, Agreement, LockHeld
    <3> QED
      BY <2>1, <3>1, QuietStepKeepsAgreement
  <2> QED
    BY <2>2, <2>3
<1>2. CASE Signal(p)
  <2>1. Terminated(p) /\ UNCHANGED <<stateDir, lock, workerId, socket, command>>
    BY <1>2 DEF Signal
  <2>2. ManagementTypeOK'
    BY <2>1, TerminatedFacts
  <2>3. QuietStep(p)
    BY <2>1, TerminatedFacts, AskedInvocation DEF QuietStep, Aside, Agreement, LockHeld, Unlaunched
  <2> QED
    BY <2>2, <2>3, QuietStepKeepsAgreement
<1> QED
  BY <1>1, <1>2

\* The steps of a command.
LEMMA CommandKeepsDInv ==
  ASSUME DInv, NEW i \in Invocation, CommandStep(i)
  PROVE  DInv'
<1> USE DaemonConstants DEF DInv, ManagementTypeOK
<1>1. CASE CheckHealth(i)
  <2>1. PICK to \in {"succeeded", "spawning", "failed"} : Proceed(i, "checking", to)
    BY <1>1 DEF CheckHealth
  <2>2. UNCHANGED <<stateDir, lock, workerId, socket, daemon>>
    BY <1>1 DEF CheckHealth
  <2>3. ManagementTypeOK'
    BY <2>1, <2>2, ProceedFacts DEF CommandPhases
  <2>4. QuietStep(i)
    BY <2>1, <2>2, ProceedFacts DEF CommandPhases, QuietStep, Aside, Agreement, LockHeld, Unlaunched
  <2> QED
    BY <2>3, <2>4, QuietStepKeepsAgreement
<1>2. CASE Spawn(i)
  <2> USE <1>2 DEF Spawn
  <2>1. CASE Proceed(i, "spawning", "waiting") /\ Enter(i, "unborn", "starting") /\ stateDir' = TRUE
    <3>1. /\ daemon' \in [Invocation -> Process]
          /\ daemon[i].phase = "unborn" /\ daemon'[i].phase = "starting"
          /\ daemon'[i].id = daemon[i].id
          /\ \A q \in Invocation : q # i => daemon'[q] = daemon[q]
      BY <2>1 DEF Enter, Process, DaemonPhases
    <3>2. ManagementTypeOK'
      BY <2>1, <3>1, ProceedFacts DEF CommandPhases
    <3>3. QuietStep(i)
      BY <2>1, <3>1, ProceedFacts DEF CommandPhases, QuietStep, Aside, Unlaunched
    <3> QED
      BY <3>2, <3>3, QuietStepKeepsAgreement
  <2>2. CASE Proceed(i, "spawning", "failed") /\ stateDir' \in {stateDir, TRUE} /\ UNCHANGED daemon
    <3>1. ManagementTypeOK'
      BY <2>2, ProceedFacts DEF CommandPhases
    <3>2. QuietStep(i)
      BY <2>2, ProceedFacts DEF CommandPhases, QuietStep, Aside, Unlaunched
    <3> QED
      BY <3>1, <3>2, QuietStepKeepsAgreement
  <2> QED
    BY <2>1, <2>2
<1>3. CASE WaitHealthy(i)
  <2>1. PICK to \in {"succeeded", "givingUp"} : Proceed(i, "waiting", to)
    BY <1>3 DEF WaitHealthy
  <2>2. UNCHANGED <<stateDir, lock, workerId, socket, daemon>>
    BY <1>3 DEF WaitHealthy
  <2>3. ManagementTypeOK'
    BY <2>1, <2>2, ProceedFacts DEF CommandPhases
  <2>4. QuietStep(i)
    BY <2>1, <2>2, ProceedFacts DEF CommandPhases, QuietStep, Aside, Agreement, LockHeld, Unlaunched
  <2> QED
    BY <2>3, <2>4, QuietStepKeepsAgreement
<1>4. CASE GiveUp(i)
  <2>1. Proceed(i, "givingUp", "failed") /\ Terminated(i) /\ UNCHANGED <<stateDir, lock, workerId, socket>>
    BY <1>4 DEF GiveUp
  <2>2. ManagementTypeOK'
    BY <2>1, ProceedFacts, TerminatedFacts DEF CommandPhases
  <2>3. QuietStep(i)
    BY <2>1, ProceedFacts, TerminatedFacts DEF CommandPhases, QuietStep, Aside, Unlaunched
  <2> QED
    BY <2>2, <2>3, QuietStepKeepsAgreement
<1>5. CASE TryLock(i)
  <2>1. UNCHANGED <<stateDir, workerId, socket, daemon>>
    BY <1>5 DEF TryLock
  <2>2. CASE lock = None /\ Advance(i, "locking", "holding") /\ lock' = i
    <3>1. ManagementTypeOK'
      BY <2>1, <2>2, AdvanceFacts DEF CommandPhases
    <3>2. Acquire(i)
      BY <2>1, <2>2, AdvanceFacts DEF CommandPhases, Acquire, Agreement, LockHeld, Unlaunched
    <3> QED
      BY <3>1, <3>2, AcquireKeepsAgreement
  <2>3. CASE Advance(i, "locking", "posting") /\ lock' = lock
    <3>1. ManagementTypeOK'
      BY <2>1, <2>3, AdvanceFacts DEF CommandPhases
    <3>2. QuietStep(i)
      BY <2>1, <2>3, AdvanceFacts DEF CommandPhases, QuietStep, Aside, Agreement, LockHeld, Unlaunched
    <3> QED
      BY <3>1, <3>2, QuietStepKeepsAgreement
  <2>4. CASE \E to \in {"spawning", "succeeded", "failed"} : Proceed(i, "locking", to) /\ lock' = lock
    <3>1. ManagementTypeOK'
      BY <2>1, <2>4, ProceedFacts DEF CommandPhases
    <3>2. QuietStep(i)
      BY <2>1, <2>4, ProceedFacts DEF CommandPhases, QuietStep, Aside, Agreement, LockHeld, Unlaunched
    <3> QED
      BY <3>1, <3>2, QuietStepKeepsAgreement
  <2> QED
    BY <1>5, <2>2, <2>3, <2>4 DEF TryLock, AfterStop
<1>6. CASE PostStop(i)
  <2>1. PICK p \in Invocation :
          /\ daemon[p].phase = "serving"
          /\ daemon' = [daemon EXCEPT ![p].stopping = TRUE]
          /\ command[i].phase = "posting"
          /\ command' = [command EXCEPT ![i] = [@ EXCEPT !.phase = "polling", !.asked = p]]
          /\ UNCHANGED <<stateDir, lock, workerId, socket>>
    BY <1>6 DEF PostStop, Reachable
  <2>2. /\ command' \in [Invocation -> Command]
        /\ command'[i].phase = "polling" /\ command'[i].asked = p
        /\ \A k \in Invocation : k # i => command'[k] = command[k]
    BY <2>1 DEF Command, CommandPhases
  <2>3. /\ daemon' \in [Invocation -> Process]
        /\ \A q \in Invocation : daemon'[q].phase = daemon[q].phase /\ daemon'[q].id = daemon[q].id
    BY <2>1, StoppingFacts
  <2>4. ManagementTypeOK'
    BY <2>1, <2>2, <2>3
  <2>5. QuietStep(i)
    BY <2>1, <2>2, <2>3 DEF QuietStep, Aside, Locked, Alive, Unlaunched, Agreement, LockHeld
  <2> QED
    BY <2>4, <2>5, QuietStepKeepsAgreement
<1>7. CASE PostFails(i)
  <2>1. Proceed(i, "posting", "failed") /\ UNCHANGED <<stateDir, lock, workerId, socket>>
    BY <1>7 DEF PostFails
  <2>2. /\ daemon' \in [Invocation -> Process]
        /\ \A q \in Invocation : daemon'[q].phase = daemon[q].phase /\ daemon'[q].id = daemon[q].id
    BY <1>7, StoppingFacts DEF PostFails
  <2>3. ManagementTypeOK'
    BY <2>1, <2>2, ProceedFacts DEF CommandPhases
  <2>4. QuietStep(i)
    BY <2>1, <2>2, ProceedFacts DEF CommandPhases, QuietStep, Aside, Unlaunched
  <2> QED
    BY <2>3, <2>4, QuietStepKeepsAgreement
<1>8. CASE PollLock(i)
  <2>1. UNCHANGED <<stateDir, workerId, socket, daemon>>
    BY <1>8 DEF PollLock
  <2>2. CASE lock = None /\ Advance(i, "polling", "holding") /\ lock' = i
    <3>1. ManagementTypeOK'
      BY <2>1, <2>2, AdvanceFacts DEF CommandPhases
    <3>2. Acquire(i)
      BY <2>1, <2>2, AdvanceFacts DEF CommandPhases, Acquire, Agreement, LockHeld, Unlaunched
    <3> QED
      BY <3>1, <3>2, AcquireKeepsAgreement
  <2>3. CASE Proceed(i, "polling", "failed") /\ lock' = lock
    <3>1. ManagementTypeOK'
      BY <2>1, <2>3, ProceedFacts DEF CommandPhases
    <3>2. QuietStep(i)
      BY <2>1, <2>3, ProceedFacts DEF CommandPhases, QuietStep, Aside, Unlaunched
    <3> QED
      BY <3>1, <3>2, QuietStepKeepsAgreement
  <2> QED
    BY <1>8, <2>2, <2>3 DEF PollLock
<1>9. CASE Return(i)
  <2>1. ManagementTypeOK'
    BY <1>9 DEF Return, Proceed, AfterStop, At, Process, Command, DaemonPhases, CommandPhases
  <2>2. Release(i)
    BY <1>9 DEF Return, Proceed, AfterStop, At, Release, Command
  <2> QED
    BY <2>1, <2>2, ReleaseKeepsAgreement
<1> QED
  BY <1>1, <1>2, <1>3, <1>4, <1>5, <1>6, <1>7, <1>8, <1>9 DEF CommandStep

\* A command begins or is interrupted.
LEMMA InvocationKeepsDInv ==
  ASSUME DInv, NEW i \in Invocation,
         \/ RunForeground(i) \/ RefuseSettings(i) \/ Kill(i)
         \/ \E op \in {"start", "stop", "restart"} : Begin(i, op)
  PROVE  DInv'
<1> USE DaemonConstants DEF DInv, ManagementTypeOK
<1>1. CASE RunForeground(i)
  <2>1. ManagementTypeOK'
    BY <1>1 DEF RunForeground, Enter, At, Process, Command, DaemonPhases, CommandPhases
  <2>2. QuietStep(i)
    BY <1>1 DEF RunForeground, Enter, At, QuietStep, Aside, Process, Command, Unlaunched, Agreement, LockHeld
  <2> QED
    BY <2>1, <2>2, QuietStepKeepsAgreement
<1>2. CASE RefuseSettings(i)
  <2>1. ManagementTypeOK'
    BY <1>2 DEF RefuseSettings, Proceed, At, Process, Command, DaemonPhases, CommandPhases
  <2>2. QuietStep(i)
    BY <1>2 DEF RefuseSettings, Proceed, At, QuietStep, Aside, Process, Command, Unlaunched, Agreement, LockHeld
  <2> QED
    BY <2>1, <2>2, QuietStepKeepsAgreement
<1>3. CASE Kill(i)
  <2>1. ManagementTypeOK'
    BY <1>3 DEF Kill, At, Command, CommandPhases
  <2>2. CASE command[i].phase = "holding"
    <3>1. Release(i)
      BY <1>3, <2>2 DEF Kill, At, Release
    <3> QED
      BY <2>1, <3>1, ReleaseKeepsAgreement
  <2>3. CASE command[i].phase # "holding"
    <3>1. QuietStep(i)
      BY <1>3, <2>3 DEF Kill, At, QuietStep, Aside, Unlaunched
    <3> QED
      BY <2>1, <3>1, QuietStepKeepsAgreement
  <2> QED
    BY <2>2, <2>3
<1>4. CASE \E op \in {"start", "stop", "restart"} : Begin(i, op)
  <2>1. ManagementTypeOK'
    <3>1. PICK op \in {"start", "stop", "restart"} : Begin(i, op)
      BY <1>4
    <3> DEFINE stopping == [phase |-> "locking", restart |-> (op = "restart"), asked |-> None]
    <3>2. At("checking") \in Command
      BY DEF At, Command, CommandPhases
    <3>3. (op = "restart") \in BOOLEAN
      OBVIOUS
    <3>4. stopping \in Command
      BY <3>3 DEF Command, CommandPhases
    <3>5. [At("locking") EXCEPT !.restart = (op = "restart")] = stopping
      BY DEF At
    <3> HIDE DEF stopping
    <3>6. command' \in [Invocation -> Command]
      BY <3>1, <3>2, <3>4, <3>5 DEF Begin
    <3> QED
      BY <3>1, <3>6 DEF Begin
  <2>2. QuietStep(i)
    BY <1>4 DEF Begin, At, QuietStep, Aside, Command, Unlaunched, Agreement, LockHeld
  <2> QED
    BY <2>1, <2>2, QuietStepKeepsAgreement
<1> QED
  BY <1>1, <1>2, <1>3, <1>4

LEMMA NextKeepsDInv == DInv /\ [Next]_vars => DInv'
<1> SUFFICES ASSUME DInv, [Next]_vars
             PROVE  DInv'
  OBVIOUS
<1>1. CASE UNCHANGED vars
  BY <1>1, StutterKeepsDInv
<1>2. CASE Next
  BY <1>2, StartupKeepsDInv, ShutdownKeepsDInv, InterruptionKeepsDInv, CommandKeepsDInv,
     InvocationKeepsDInv DEF Next
<1> QED
  BY <1>1, <1>2

LEMMA AlwaysDInv == Spec => []DInv
BY InitDInv, NextKeepsDInv, PTL DEF Spec

-----------------------------------------------------------------------------
\* Every shared file and every process keeps to its values.
THEOREM ManagementTypeCorrect == Spec => []ManagementTypeOK
<1>1. DInv => ManagementTypeOK
  BY DEF DInv, Agreement
<1> QED
  BY <1>1, AlwaysDInv, PTL

\* However starts, stops and crashes overlap, one process at most has the
\* queue database open: it holds the lock, and only one can.
THEOREM OneDaemonAlways == Spec => []OneDaemon
<1>1. DInv => OneDaemon
  BY DEF DInv, Agreement, LockHeld, OneDaemon, QueueOpen, Locked, Alive
<1> QED
  BY <1>1, AlwaysDInv, PTL

\* The socket path always leads to the worker that serves.
THEOREM SocketAlwaysLeadsToWorker == Spec => []SocketLeadsToWorker
<1>1. DInv => SocketLeadsToWorker
  BY DEF DInv, Agreement
<1> QED
  BY <1>1, AlwaysDInv, PTL

\* All daemons of a state directory have one identity, whichever of them were
\* killed while it was made.
THEOREM OneIdentityAlways == Spec => []OneIdentity
<1>1. DInv => OneIdentity
  BY DEF DInv, Agreement, IdentityKept, OneIdentity
<1> QED
  BY <1>1, AlwaysDInv, PTL

\* A stop that returns without an error has waited for the daemon it asked and
\* finds the queue closed.
THEOREM StopAlwaysComplete == Spec => []StopIsComplete
<1>1. DInv => StopIsComplete
  <2> SUFFICES ASSUME DInv, NEW i \in Invocation, command[i].phase = "holding"
               PROVE  /\ \A p \in Invocation : ~QueueOpen(p)
                      /\ command[i].asked # None => ~Alive(command[i].asked)
    BY DEF StopIsComplete
  <2>1. lock = i /\ daemon[i].phase = "unborn"
    BY DEF DInv, Agreement, LockHeld, Unlaunched
  <2>2. \A p \in Invocation : ~QueueOpen(p)
    BY <2>1 DEF DInv, Agreement, LockHeld, QueueOpen, Locked, Alive
  <2>3. command[i].asked # None => ~Alive(command[i].asked)
    BY DEF DInv, Agreement, AskedServed, Alive
  <2> QED
    BY <2>2, <2>3
<1> QED
  BY <1>1, AlwaysDInv, PTL
=============================================================================
