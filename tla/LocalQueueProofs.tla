-------------------------- MODULE LocalQueueProofs --------------------------
(***************************************************************************)
(* Proofs about the local queue, for both kinds of storage, every number   *)
(* of jobs and every bound.                                                *)
(***************************************************************************)
EXTENDS LocalQueue, FiniteSetTheorems, TLAPS

\* The loop holds a job in the phases of a local job, and a report has a result.
LoopShape ==
  /\ loop.job # NoLocal <=> loop.phase \in {"claimed"} \cup ActivePhases
  /\ loop.phase = "report" => loop.result \in {"succeeded", "failed"}

\* How far the command of a job can be: not launched while the job waits or is
\* prepared, launched once when it runs, and ended well if anything says so.
StageOf(i) ==
  /\ process[i].launched <= 1
  /\ Waiting(i) => process[i] = Fresh
  /\ loop.job = i /\ loop.phase \in {"claimed", "active"} => process[i] = Fresh
  /\ loop.job = i /\ loop.phase = "running" => process[i].launched = 1
  /\ loop.job = i /\ loop.phase = "report" /\ loop.result = "succeeded"
       => process[i].ended = "succeeded" /\ process[i].launched = 1
  /\ rows[i].status = "succeeded"
       => process[i].ended = "succeeded" /\ process[i].launched = 1

Stages == \A i \in LocalId : StageOf(i)

\* The inductive invariant.  NeverReplayed needs to know where the loop is in
\* the run of a job, and that nobody but the loop ends that run.
LInv == LocalTypeOK /\ LoopOwnsRunning /\ NumbersNotReused /\ LoopShape /\ Stages

USE LocalQueueConstants

-----------------------------------------------------------------------------
\* A row at its defaults is a row of the table.
LEMMA NewRowType ==
  ASSUME NEW s \in {"absent", "queued"}, NEW p \in Int
  PROVE  NewRow(s, p) \in LocalRow /\ NewRow(s, p).status = s
BY DEF NewRow, LocalRow

\* A row that does not exist is a row of the table.
LEMMA AbsentType == Absent \in LocalRow /\ Absent.status = "absent"
BY NewRowType DEF Absent

\* A command that was not launched is a state of a process.
LEMMA FreshType == Fresh \in Process /\ Fresh.launched = 0 /\ Fresh.ended = "no"
BY DEF Fresh, Process

\* The states of the loop that are written down are states of the loop.
LEMMA IdleType ==
  /\ Idle \in Loop /\ Idle.phase = "idle" /\ Idle.job = NoLocal
  /\ Down \in Loop /\ Down.phase = "down" /\ Down.job = NoLocal
BY DEF Idle, Down, Loop, ActivePhases

\* The requests at the socket: each row keeps its status, or a row that does not
\* run is deleted, or it is queued as a fresh job.
LEMMA RequestKeepsInv ==
  ASSUME LInv, loop' = loop,
         rows' \in [LocalId -> LocalRow],
         process' \in [LocalId -> Process],
         handlers' \in [Cancellable -> 0..MaxHandlers],
         last' \in 0..MaxLocal, last <= last',
         \A i \in LocalId :
           \/ rows'[i].status = rows[i].status /\ process'[i] = process[i]
           \/ ~IsRunning(i) /\ rows'[i].status = "absent" /\ process'[i] = process[i]
           \/ /\ ~IsRunning(i) /\ rows'[i].status = "queued" /\ process'[i] = Fresh
              /\ i <= last'
  PROVE  LInv'
<1> USE DEF LInv
<1>1. LocalTypeOK'
  BY DEF LocalTypeOK
<1>2. \A i \in LocalId : IsRunning(i)' <=> IsRunning(i)
  BY DEF IsRunning
<1>3. LoopOwnsRunning'
  BY <1>2 DEF LoopOwnsRunning, Serving
<1>4. NumbersNotReused'
  <2> SUFFICES ASSUME NEW i \in LocalId, Present(i)'
               PROVE  i <= last'
    BY DEF NumbersNotReused
  <2>1. CASE rows'[i].status = rows[i].status
    BY <2>1 DEF NumbersNotReused, Present, LocalId, LocalTypeOK
  <2> QED BY <2>1 DEF Present
<1>5. LoopShape'
  BY DEF LoopShape
<1>6. Stages'
  <2> SUFFICES ASSUME NEW i \in LocalId
               PROVE  StageOf(i)'
    BY DEF Stages
  <2>0. StageOf(i)
    BY DEF Stages
  <2>1. CASE rows'[i].status = rows[i].status /\ process'[i] = process[i]
    BY <2>0, <2>1 DEF StageOf, Waiting
  <2>2. CASE ~IsRunning(i) /\ rows'[i].status = "absent" /\ process'[i] = process[i]
    BY <2>0, <2>2 DEF StageOf, Waiting
  <2>3. CASE ~IsRunning(i) /\ rows'[i].status = "queued" /\ process'[i] = Fresh
    <3>1. loop.job # i
      BY <2>3 DEF LoopOwnsRunning, LoopShape, Serving, ActivePhases, NoLocal, LocalId
    <3> QED BY <2>3, <3>1, FreshType DEF StageOf, Waiting
  <2> QED BY <2>1, <2>2, <2>3
<1> QED BY <1>1, <1>3, <1>4, <1>5, <1>6

\* The jobs can be counted.
LEMMA CountLocal ==
  ASSUME NEW S \in SUBSET LocalId
  PROVE  Cardinality(S) \in Nat
<1>1. IsFiniteSet(LocalId)
  BY FS_Interval DEF LocalId
<1> QED BY <1>1, FS_Subset, FS_CardinalityType

\* Places in the queue are integers.
LEMMA PlaceIsInt == Place \subseteq Int
BY DEF Place

\* A submission writes a row that did not exist.
LEMMA SubmitKeepsInv == ASSUME LInv, submit PROVE LInv'
<1> USE DEF LInv
<1> PICK m \in Place : /\ m + 1 \in Place
                       /\ rows' = [rows EXCEPT ![last + 1] = NewRow("queued", m + 1)]
  BY DEF submit
<1>1. last + 1 \in LocalId /\ last' = last + 1 /\ last' \in 0..MaxLocal
  BY DEF submit, LocalTypeOK, LocalId
<1>2. ~Present(last + 1)
  BY <1>1 DEF NumbersNotReused, LocalTypeOK
<1>3. NewRow("queued", m + 1) \in LocalRow /\ NewRow("queued", m + 1).status = "queued"
  BY NewRowType, PlaceIsInt
<1>4. rows' \in [LocalId -> LocalRow]
  BY <1>3 DEF LocalTypeOK
<1>5. process' = [i \in LocalId |-> IF i = last + 1 THEN Fresh ELSE process[i]]
  BY DEF submit, Forget
<1>6. process' \in [LocalId -> Process]
  BY <1>5, FreshType DEF LocalTypeOK
<1>7. \A i \in LocalId :
        \/ rows'[i].status = rows[i].status /\ process'[i] = process[i]
        \/ ~IsRunning(i) /\ rows'[i].status = "queued" /\ process'[i] = Fresh /\ i <= last'
  <2> SUFFICES ASSUME NEW i \in LocalId
               PROVE  \/ rows'[i].status = rows[i].status /\ process'[i] = process[i]
                      \/ /\ ~IsRunning(i) /\ rows'[i].status = "queued"
                         /\ process'[i] = Fresh /\ i <= last'
    OBVIOUS
  <2>1. CASE i = last + 1
    BY <2>1, <1>1, <1>2, <1>3, <1>5 DEF LocalTypeOK, Present, IsRunning
  <2>2. CASE i # last + 1
    BY <2>2, <1>5 DEF LocalTypeOK
  <2> QED BY <2>1, <2>2
<1>8. loop' = loop /\ handlers' = handlers
  BY DEF submit, Handler
<1> HIDE DEF LInv
<1> QED BY <1>1, <1>4, <1>6, <1>7, <1>8, RequestKeepsInv DEF LInv, LocalTypeOK

\* Deletions spare the running row.
LEMMA DeletionKeepsInv ==
  ASSUME LInv, \/ removeAll \/ clear \/ \E i \in LocalId : remove(i)
  PROVE  LInv'
<1> USE DEF LInv
<1>1. PICK S \in SUBSET LocalId :
        /\ \A i \in S : ~IsRunning(i)
        /\ rows' = [i \in LocalId |-> IF i \in S THEN Absent ELSE rows[i]]
        /\ UNCHANGED <<last, loop, handlers, process>>
  <2>1. CASE removeAll
    <3> WITNESS {i \in LocalId : ~IsRunning(i)} \in SUBSET LocalId
    <3> QED BY <2>1 DEF removeAll, Handler
  <2>2. CASE clear
    <3> WITNESS {i \in LocalId : rows[i].status \in {"succeeded", "failed"}} \in SUBSET LocalId
    <3> QED BY <2>2 DEF clear, Handler, IsRunning
  <2>3. CASE \E i \in LocalId : remove(i)
    <3> PICK i \in LocalId : remove(i)
      BY <2>3
    <3> WITNESS {i} \in SUBSET LocalId
    <3> QED BY DEF remove, Handler, LocalTypeOK
  <2> QED BY <2>1, <2>2, <2>3
<1>2. rows' \in [LocalId -> LocalRow]
  BY <1>1, AbsentType DEF LocalTypeOK
<1>3. \A i \in LocalId :
        \/ rows'[i].status = rows[i].status /\ process'[i] = process[i]
        \/ ~IsRunning(i) /\ rows'[i].status = "absent" /\ process'[i] = process[i]
  BY <1>1, AbsentType
<1>4. loop' = loop /\ last' = last /\ handlers' = handlers /\ process' = process
  BY <1>1
<1> HIDE DEF LInv
<1> QED BY <1>2, <1>3, <1>4, RequestKeepsInv DEF LInv, LocalTypeOK

\* Retries queue failed rows as fresh jobs.
LEMMA RetryKeepsInv ==
  ASSUME LInv, NEW chosen \in SUBSET LocalId, retry(chosen)
  PROVE  LInv'
<1> USE DEF LInv
<1> DEFINE Rank(i) == Cardinality({k \in chosen : Precedes(k, i) \/ k = i})
<1>1. PICK m \in Place :
        rows' = [i \in LocalId |-> IF i \in chosen THEN NewRow("queued", m + Rank(i))
                                                   ELSE rows[i]]
  BY DEF retry
<1>2. \A i \in LocalId : m + Rank(i) \in Int
  <2> SUFFICES ASSUME NEW i \in LocalId PROVE m + Rank(i) \in Int
    OBVIOUS
  <2>1. {k \in chosen : Precedes(k, i) \/ k = i} \in SUBSET LocalId
    OBVIOUS
  <2>2. Rank(i) \in Nat
    BY <2>1, CountLocal
  <2> HIDE DEF Rank
  <2> QED BY <2>2, PlaceIsInt
<1> HIDE DEF Rank
<1>3. \A i \in LocalId : /\ NewRow("queued", m + Rank(i)) \in LocalRow
                         /\ NewRow("queued", m + Rank(i)).status = "queued"
  BY <1>2, NewRowType
<1>4. rows' \in [LocalId -> LocalRow]
  BY <1>1, <1>3 DEF LocalTypeOK
<1>5. process' = [i \in LocalId |-> IF i \in chosen THEN Fresh ELSE process[i]]
  BY DEF retry, Forget
<1>6. process' \in [LocalId -> Process]
  BY <1>5, FreshType DEF LocalTypeOK
<1>7. \A i \in chosen : ~IsRunning(i) /\ i <= last
  BY DEF retry, HasFailed, IsRunning, NumbersNotReused, Present
<1>8. loop' = loop /\ handlers' = handlers /\ last' = last
  BY DEF retry, Handler
<1>9. \A i \in LocalId :
        \/ rows'[i].status = rows[i].status /\ process'[i] = process[i]
        \/ ~IsRunning(i) /\ rows'[i].status = "queued" /\ process'[i] = Fresh /\ i <= last'
  BY <1>1, <1>3, <1>5, <1>7, <1>8
<1> HIDE DEF LInv
<1> QED BY <1>4, <1>6, <1>8, <1>9, RequestKeepsInv DEF LInv, LocalTypeOK

\* Reordering and flagging change no status.
LEMMA EditKeepsInv ==
  ASSUME LInv, \/ \E i \in LocalId : urgent(i) \/ requestCancel(i)
               \/ \E i, k \in LocalId : swap(i, k)
  PROVE  LInv'
<1> USE DEF LInv
<1>0. \A i \in LocalId : rows[i] \in LocalRow
  BY DEF LocalTypeOK
<1> DEFINE Moved(i, p) == [rows[i] EXCEPT !.queue_position = p]
<1>00. \A i \in LocalId, p \in Int : /\ Moved(i, p) \in LocalRow
                                     /\ Moved(i, p).status = rows[i].status
  BY <1>0 DEF LocalRow
<1>1. /\ rows' \in [LocalId -> LocalRow]
      /\ \A i \in LocalId : rows'[i].status = rows[i].status
      /\ loop' = loop /\ last' = last /\ process' = process
      /\ handlers' \in [Cancellable -> 0..MaxHandlers]
  <2>1. CASE \E i \in LocalId : urgent(i)
    <3> PICK i \in LocalId : urgent(i)
      BY <2>1
    <3> PICK m \in Int : rows' = [rows EXCEPT ![i].queue_position = m - 1]
      BY PlaceIsInt DEF urgent
    <3>1. rows' = [rows EXCEPT ![i] = Moved(i, m - 1)]
      BY DEF LocalTypeOK
    <3>2. m - 1 \in Int
      OBVIOUS
    <3> HIDE DEF Moved
    <3>3. /\ rows' \in [LocalId -> LocalRow]
          /\ \A x \in LocalId : rows'[x].status = rows[x].status
      <4>1. rows \in [LocalId -> LocalRow]
        BY DEF LocalTypeOK
      <4>2. Moved(i, m - 1) \in LocalRow /\ Moved(i, m - 1).status = rows[i].status
        BY <1>00, <3>2
      <4> HIDE DEF LInv
      <4> QED BY <4>1, <4>2, <3>1
    <3>4. loop' = loop /\ last' = last /\ process' = process /\ handlers' = handlers
      BY DEF urgent, Handler
    <3> QED BY <3>3, <3>4 DEF LocalTypeOK
  <2>2. CASE \E i \in LocalId : requestCancel(i)
    <3> PICK i \in LocalId : requestCancel(i)
      BY <2>2
    <3>1. handlers' \in [Cancellable -> 0..MaxHandlers]
      BY DEF requestCancel, LocalTypeOK, Cancellable
    <3> QED BY <3>1, <1>0 DEF requestCancel, LocalTypeOK, LocalRow
  <2>3. CASE \E i, k \in LocalId : swap(i, k)
    <3> PICK i \in LocalId, k \in LocalId : swap(i, k)
      BY <2>3
    <3>1. rows[i].queue_position \in Int /\ rows[k].queue_position \in Int
      BY <1>0 DEF LocalRow
    <3>2. rows' = [x \in LocalId |->
                     IF x = k THEN Moved(k, rows[i].queue_position)
                     ELSE IF x = i THEN Moved(i, rows[k].queue_position) ELSE rows[x]]
      <4>1. CASE i = k
        <5>1. Moved(i, rows[i].queue_position) = rows[i]
          BY <1>0 DEF LocalRow
        <5>2. rows' = rows
          BY <4>1, <5>1 DEF swap, LocalTypeOK
        <5>3. rows \in [LocalId -> LocalRow]
          BY DEF LocalTypeOK
        <5> HIDE DEF LInv, Moved
        <5> QED BY <4>1, <5>1, <5>2, <5>3
      <4>2. CASE i # k
        BY <4>2 DEF swap, LocalTypeOK
      <4> QED BY <4>1, <4>2
    <3> HIDE DEF Moved
    <3>3. /\ rows' \in [LocalId -> LocalRow]
          /\ \A x \in LocalId : rows'[x].status = rows[x].status
      <4>1. /\ Moved(k, rows[i].queue_position) \in LocalRow
            /\ Moved(k, rows[i].queue_position).status = rows[k].status
            /\ Moved(i, rows[k].queue_position) \in LocalRow
            /\ Moved(i, rows[k].queue_position).status = rows[i].status
        BY <1>00, <3>1
      <4> HIDE DEF LInv
      <4> QED BY <4>1, <3>2, <1>0
    <3>4. loop' = loop /\ last' = last /\ process' = process /\ handlers' = handlers
      BY DEF swap, Handler
    <3> QED BY <3>3, <3>4 DEF LocalTypeOK
  <2> QED BY <2>1, <2>2, <2>3
<1> HIDE DEF LInv
<1> QED BY <1>1, RequestKeepsInv DEF LInv, LocalTypeOK

-----------------------------------------------------------------------------
(* The steps of the job loop.                                              *)

\* A step that leaves the table alone and keeps the job of the loop.
LEMMA LoopStepKeepsInv ==
  ASSUME LInv, Serving' => Serving, rows' = rows, last' = last,
         handlers' \in [Cancellable -> 0..MaxHandlers],
         process' \in [LocalId -> Process],
         loop' \in Loop, loop'.job = loop.job,
         LoopShape', Stages'
  PROVE  LInv'
<1> USE DEF LInv
<1>1. LocalTypeOK'
  BY DEF LocalTypeOK
<1>2. LoopOwnsRunning'
  BY DEF LoopOwnsRunning, IsRunning
<1>3. NumbersNotReused'
  BY DEF NumbersNotReused, Present
<1> QED BY <1>1, <1>2, <1>3

\* A cancellation and a stop change the cause of the context and no more.
LEMMA SignalKeepsInv ==
  ASSUME LInv, rows' = rows, last' = last, process' = process,
         handlers' \in [Cancellable -> 0..MaxHandlers],
         loop' \in Loop, loop'.job = loop.job,
         loop'.phase = loop.phase, loop'.result = loop.result
  PROVE  LInv'
<1>1. LoopShape'
  BY DEF LInv, LoopShape
<1>2. Stages'
  <2> SUFFICES ASSUME NEW i \in LocalId PROVE StageOf(i)'
    BY DEF Stages
  <2>1. StageOf(i)
    BY DEF LInv, Stages
  <2> QED BY <2>1 DEF StageOf, Waiting
<1>3. process' \in [LocalId -> Process]
  BY DEF LInv, LocalTypeOK
<1>4. Serving' => Serving
  BY DEF Serving
<1> QED BY <1>1, <1>2, <1>3, <1>4, LoopStepKeepsInv

\* RequestCancellation changes the cause and requestedID.
LEMMA CallCancelKeepsInv ==
  ASSUME LInv, NEW i \in Cancellable, callCancel(i)
  PROVE  LInv'
<1>1. loop \in Loop
  BY DEF LInv, LocalTypeOK
<1>2. i \in LocalId \cup {NoLocal, RemoteId}
  BY DEF Cancellable
<1>3. /\ loop' \in Loop /\ loop'.job = loop.job
      /\ loop'.phase = loop.phase /\ loop'.result = loop.result
  BY <1>1, <1>2 DEF callCancel, Requested, Loop
<1>4. handlers' \in [Cancellable -> 0..MaxHandlers]
  BY DEF callCancel, LInv, LocalTypeOK
<1> QED BY <1>3, <1>4, SignalKeepsInv DEF callCancel

\* A heartbeat reply waits to be read.
LEMMA HeartbeatKeepsInv ==
  ASSUME LInv, heartbeatCancel
  PROVE  LInv'
<1>1. handlers' \in [Cancellable -> 0..MaxHandlers]
  BY DEF heartbeatCancel, LInv, LocalTypeOK, Cancellable
<1>2. loop' \in Loop
  BY DEF heartbeatCancel, LInv, LocalTypeOK
<1> QED BY <1>1, <1>2, SignalKeepsInv DEF heartbeatCancel

\* A stop changes the cause and the context of the daemon.
LEMMA StopKeepsInv ==
  ASSUME LInv, stop
  PROVE  LInv'
<1>1. loop \in Loop /\ handlers \in [Cancellable -> 0..MaxHandlers]
  BY DEF LInv, LocalTypeOK
<1>2. /\ loop' \in Loop /\ loop'.job = loop.job
      /\ loop'.phase = loop.phase /\ loop'.result = loop.result
  BY <1>1 DEF stop, LoopStep, Loop
<1> QED BY <1>1, <1>2, SignalKeepsInv DEF stop, LoopStep

\* The loop moves on before a command is launched.
LEMMA AdvanceKeepsInv ==
  ASSUME LInv, serveRemote \/ activate \/ notStarted
  PROVE  LInv'
<1>1. loop \in Loop /\ handlers \in [Cancellable -> 0..MaxHandlers]
      /\ process \in [LocalId -> Process]
  BY DEF LInv, LocalTypeOK
<1>2. /\ Serving
      /\ rows' = rows /\ last' = last /\ handlers' = handlers /\ process' = process
  BY DEF serveRemote, activate, notStarted, LoopStep, Serving
<1>3. /\ loop' \in Loop /\ loop'.job = loop.job
      /\ \/ loop.phase = "idle" /\ loop'.phase = "remote"
         \/ loop.phase = "remote" /\ loop'.phase = "idle"
         \/ loop.phase = "claimed" /\ loop'.phase = "active"
         \/ loop.phase = "active" /\ loop'.phase = "report" /\ loop'.result = "failed"
  <2>1. CASE serveRemote
    BY <1>1, <2>1 DEF serveRemote, Loop
  <2>2. CASE activate
    BY <1>1, <2>2 DEF activate, LoopStep, Loop, ActivePhases
  <2>3. CASE notStarted
    BY <1>1, <2>3 DEF notStarted, LoopStep, Loop, ActivePhases
  <2> QED BY <2>1, <2>2, <2>3
<1>4. LoopShape'
  BY <1>3 DEF LInv, LoopShape, ActivePhases
<1>5. Stages'
  <2> SUFFICES ASSUME NEW i \in LocalId PROVE StageOf(i)'
    BY DEF Stages
  <2>1. StageOf(i)
    BY DEF LInv, Stages
  <2> QED BY <1>2, <1>3, <2>1 DEF StageOf, Waiting
<1> QED BY <1>1, <1>2, <1>3, <1>4, <1>5, LoopStepKeepsInv

\* A launch is the first one of its job.
LEMMA LaunchKeepsInv ==
  ASSUME LInv, launch
  PROVE  LInv'
<1>1. loop \in Loop /\ handlers \in [Cancellable -> 0..MaxHandlers]
      /\ process \in [LocalId -> Process]
  BY DEF LInv, LocalTypeOK
<1>2. loop.job \in LocalId /\ loop.phase = "active"
  BY <1>1 DEF launch, LInv, LoopShape, ActivePhases, Loop
<1>3. /\ loop' \in Loop /\ loop'.job = loop.job /\ loop'.phase = "running"
  BY <1>1 DEF launch, Loop, ActivePhases
<1>4. process[loop.job] = Fresh
  BY <1>2 DEF LInv, Stages, StageOf
<1>5. /\ process' \in [LocalId -> Process]
      /\ process'[loop.job].launched = 1
      /\ \A i \in LocalId : i # loop.job => process'[i] = process[i]
  <2> DEFINE next == [process[loop.job] EXCEPT !.launched = process[loop.job].launched + 1]
  <2>1. process' = [process EXCEPT ![loop.job] = next]
    BY DEF launch
  <2>2. next \in Process /\ next.launched = 1
    BY <1>4, FreshType DEF Process
  <2> HIDE DEF next
  <2> QED BY <1>1, <1>2, <2>1, <2>2
<1>6. LoopShape'
  BY <1>2, <1>3 DEF LInv, LoopShape, ActivePhases, NoLocal, LocalId
<1>7. rows' = rows /\ last' = last /\ handlers' = handlers /\ Serving
  BY <1>2 DEF launch, Serving
<1>8. IsRunning(loop.job)
  BY <1>2, <1>7 DEF LInv, LoopOwnsRunning
<1>9. Stages'
  <2> SUFFICES ASSUME NEW i \in LocalId PROVE StageOf(i)'
    BY DEF Stages
  <2>1. StageOf(i)
    BY DEF LInv, Stages
  <2>2. CASE i = loop.job
    BY <1>3, <1>5, <1>7, <1>8, <2>2 DEF StageOf, Waiting, IsRunning
  <2>3. CASE i # loop.job
    BY <1>3, <1>5, <1>7, <2>1, <2>3 DEF StageOf, Waiting
  <2> QED BY <2>2, <2>3
<1> QED BY <1>1, <1>3, <1>5, <1>6, <1>7, <1>9, LoopStepKeepsInv

\* A command ends and its outcome waits to be reported.
LEMMA EndsKeepsInv ==
  ASSUME LInv, NEW outcome \in {"succeeded", "failed"}, NEW result \in {"succeeded", "failed"},
         result = "succeeded" => outcome = "succeeded", ends(outcome, result)
  PROVE  LInv'
<1>1. loop \in Loop /\ handlers \in [Cancellable -> 0..MaxHandlers]
      /\ process \in [LocalId -> Process]
  BY DEF LInv, LocalTypeOK
<1>2. loop.job \in LocalId /\ loop.phase = "running"
  BY <1>1 DEF ends, LInv, LoopShape, ActivePhases, Loop
<1>3. /\ loop' \in Loop /\ loop'.job = loop.job /\ loop'.phase = "report"
      /\ loop'.result = result
  BY <1>1 DEF ends, Loop, ActivePhases
<1>4. process[loop.job].launched = 1
  BY <1>2 DEF LInv, Stages, StageOf
<1>5. /\ process' \in [LocalId -> Process]
      /\ process'[loop.job].launched = 1 /\ process'[loop.job].ended = outcome
      /\ \A i \in LocalId : i # loop.job => process'[i] = process[i]
  <2> DEFINE next == [process[loop.job] EXCEPT !.ended = outcome]
  <2>1. process' = [process EXCEPT ![loop.job] = next]
    BY DEF ends
  <2>2. next \in Process /\ next.launched = 1 /\ next.ended = outcome
    BY <1>1, <1>2, <1>4 DEF Process
  <2> HIDE DEF next
  <2> QED BY <1>1, <1>2, <2>1, <2>2
<1>6. LoopShape'
  BY <1>2, <1>3 DEF LInv, LoopShape, ActivePhases, NoLocal, LocalId
<1>7. rows' = rows /\ last' = last /\ handlers' = handlers /\ Serving
  BY <1>2 DEF ends, Serving
<1>8. IsRunning(loop.job)
  BY <1>2, <1>7 DEF LInv, LoopOwnsRunning
<1>9. Stages'
  <2> SUFFICES ASSUME NEW i \in LocalId PROVE StageOf(i)'
    BY DEF Stages
  <2>1. StageOf(i)
    BY DEF LInv, Stages
  <2>2. CASE i = loop.job
    BY <1>3, <1>5, <1>7, <1>8, <2>2 DEF StageOf, Waiting, IsRunning
  <2>3. CASE i # loop.job
    BY <1>3, <1>5, <1>7, <2>1, <2>3 DEF StageOf, Waiting
  <2> QED BY <2>2, <2>3
<1> QED BY <1>1, <1>3, <1>5, <1>6, <1>7, <1>9, LoopStepKeepsInv

\* A claim makes the loop the owner of the running row.
LEMMA ClaimKeepsInv ==
  ASSUME LInv, NEW i \in LocalId, claim(i)
  PROVE  LInv'
<1>1. loop \in Loop /\ rows \in [LocalId -> LocalRow] /\ process \in [LocalId -> Process]
  BY DEF LInv, LocalTypeOK
<1>2. Waiting(i) /\ loop.phase = "idle" /\ loop.job = NoLocal
  BY <1>1 DEF claim, LInv, LoopShape, ActivePhases
<1>3. /\ loop' \in Loop /\ loop'.job = i /\ loop'.phase = "claimed"
  BY <1>1 DEF claim, Loop, LocalRow
<1>4. /\ rows' \in [LocalId -> LocalRow] /\ rows'[i].status = "running"
      /\ \A k \in LocalId : k # i => rows'[k] = rows[k]
  <2> DEFINE next == [rows[i] EXCEPT !.status = "running"]
  <2>1. rows' = [rows EXCEPT ![i] = next]
    BY DEF claim
  <2>2. next \in LocalRow /\ next.status = "running"
    BY <1>1 DEF LocalRow
  <2> HIDE DEF next
  <2> QED BY <1>1, <2>1, <2>2
<1>5. last' = last /\ handlers' = handlers /\ process' = process
  BY DEF claim
<1>6. LocalTypeOK'
  BY <1>3, <1>4, <1>5 DEF LInv, LocalTypeOK
<1>7. LoopOwnsRunning'
  <2> SUFFICES ASSUME NEW k \in LocalId PROVE IsRunning(k)' <=> loop'.job = k
    BY DEF LoopOwnsRunning
  <2>1. CASE k = i
    BY <2>1, <1>3, <1>4 DEF IsRunning
  <2>2. CASE k # i
    BY <2>2, <1>2, <1>3, <1>4 DEF LInv, LoopOwnsRunning, IsRunning, Serving, NoLocal, LocalId
  <2> QED BY <2>1, <2>2
<1>8. NumbersNotReused'
  BY <1>2, <1>4, <1>5 DEF LInv, NumbersNotReused, Present, Waiting
<1>9. LoopShape'
  BY <1>3 DEF LoopShape, NoLocal, LocalId
<1>10. Stages'
  <2> SUFFICES ASSUME NEW k \in LocalId PROVE StageOf(k)'
    BY DEF Stages
  <2>1. StageOf(k)
    BY DEF LInv, Stages
  <2>2. CASE k = i
    BY <1>2, <1>3, <1>4, <1>5, <2>1, <2>2, FreshType DEF StageOf, Waiting
  <2>3. CASE k # i
    BY <1>3, <1>4, <1>5, <2>1, <2>3 DEF StageOf, Waiting
  <2> QED BY <2>2, <2>3
<1> QED BY <1>6, <1>7, <1>8, <1>9, <1>10 DEF LInv

\* The report finds its row running and ends the run.
LEMMA FinishKeepsInv ==
  ASSUME LInv, finish
  PROVE  LInv'
<1>1. loop \in Loop /\ rows \in [LocalId -> LocalRow] /\ process \in [LocalId -> Process]
  BY DEF LInv, LocalTypeOK
<1> DEFINE i == loop.job
<1>2. i \in LocalId /\ loop.phase = "report" /\ loop.result \in {"succeeded", "failed"}
  BY <1>1 DEF finish, LInv, LoopShape, ActivePhases, Loop
<1>3. IsRunning(i)
  BY <1>2 DEF LInv, LoopOwnsRunning, Serving
<1>4. /\ loop' = [Idle EXCEPT !.requested = loop.requested, !.stopping = loop.stopping]
      /\ last' = last /\ handlers' = handlers /\ process' = process
  BY <1>3 DEF finish
<1>5. loop' \in Loop /\ loop'.job = NoLocal /\ loop'.phase = "idle"
  BY <1>1, <1>4, IdleType DEF Loop
<1>6. /\ rows' \in [LocalId -> LocalRow] /\ rows'[i].status = loop.result
      /\ \A k \in LocalId : k # i => rows'[k] = rows[k]
  <2> DEFINE next == [rows[i] EXCEPT !.status = loop.result,
                        !.error = IF loop.result = "failed" THEN "reported" ELSE ""]
  <2>1. rows' = [rows EXCEPT ![i] = next]
    BY <1>3 DEF finish
  <2>2. next \in LocalRow /\ next.status = loop.result
    BY <1>1, <1>2 DEF LocalRow
  <2> HIDE DEF next, i
  <2> QED BY <1>1, <1>2, <2>1, <2>2
<1>7. LocalTypeOK'
  BY <1>4, <1>5, <1>6 DEF LInv, LocalTypeOK
<1>8. LoopOwnsRunning'
  <2> SUFFICES ASSUME NEW k \in LocalId PROVE ~IsRunning(k)'
    BY <1>5 DEF LoopOwnsRunning, NoLocal, LocalId
  <2>1. CASE k = i
    BY <2>1, <1>2, <1>6 DEF IsRunning
  <2>2. CASE k # i
    BY <2>2, <1>2, <1>6 DEF LInv, LoopOwnsRunning, IsRunning, Serving
  <2> QED BY <2>1, <2>2
<1>9. NumbersNotReused'
  BY <1>3, <1>4, <1>6 DEF LInv, NumbersNotReused, Present, IsRunning
<1>10. LoopShape'
  BY <1>5 DEF LoopShape, ActivePhases
<1>11. Stages'
  <2> SUFFICES ASSUME NEW k \in LocalId PROVE StageOf(k)'
    BY DEF Stages
  <2>1. StageOf(k)
    BY DEF LInv, Stages
  <2>2. CASE k = i
    BY <1>2, <1>4, <1>5, <1>6, <2>1, <2>2 DEF StageOf, Waiting
  <2>3. CASE k # i
    BY <1>4, <1>5, <1>6, <2>1, <2>3 DEF StageOf, Waiting
  <2> QED BY <2>2, <2>3
<1> QED BY <1>7, <1>8, <1>9, <1>10, <1>11 DEF LInv

\* The daemon goes down, in whatever state it was.
LEMMA DownKeepsInv ==
  ASSUME LInv, loop' = Down, rows' = rows, last' = last, process' = process,
         handlers' \in [Cancellable -> 0..MaxHandlers]
  PROVE  LInv'
<1>1. LocalTypeOK'
  BY IdleType DEF LInv, LocalTypeOK
<1>2. LoopOwnsRunning' /\ LoopShape'
  BY IdleType DEF LoopOwnsRunning, LoopShape, Serving, ActivePhases
<1>3. NumbersNotReused'
  BY DEF LInv, NumbersNotReused, Present
<1>4. Stages'
  BY IdleType DEF LInv, Stages, StageOf, Waiting
<1> QED BY <1>1, <1>2, <1>3, <1>4 DEF LInv

\* A starting daemon finds the table as it was, or an empty one.
LEMMA StartKeepsInv ==
  ASSUME LInv, start
  PROVE  LInv'
<1>1. /\ rows' \in [LocalId -> LocalRow]
      /\ \A i \in LocalId : \/ rows'[i] = rows[i] /\ last' = last
                            \/ rows'[i].status = "absent"
  <2>1. CASE LocalPersist
    BY <2>1 DEF start, LInv, LocalTypeOK
  <2>2. CASE ~LocalPersist
    BY <2>2, AbsentType DEF start
  <2> QED BY <2>1, <2>2
<1>2. process' = process /\ handlers' = handlers /\ last' \in 0..MaxLocal
  BY DEF start, LInv, LocalTypeOK
<1>3. loop' \in Loop /\ loop'.job = NoLocal /\ loop'.phase = "starting"
  BY DEF start, Idle, Loop, ActivePhases
<1>4. LocalTypeOK'
  BY <1>1, <1>2, <1>3 DEF LInv, LocalTypeOK
<1>5. LoopOwnsRunning' /\ LoopShape'
  BY <1>3 DEF LoopOwnsRunning, LoopShape, Serving, ActivePhases
<1>6. NumbersNotReused'
  BY <1>1 DEF LInv, NumbersNotReused, Present
<1>7. Stages'
  <2> SUFFICES ASSUME NEW i \in LocalId PROVE StageOf(i)'
    BY DEF Stages
  <2>1. StageOf(i)
    BY DEF LInv, Stages
  <2>2. loop'.job # i
    BY <1>3 DEF NoLocal, LocalId
  <2> QED BY <1>1, <1>2, <2>1, <2>2 DEF StageOf, Waiting
<1> QED BY <1>4, <1>5, <1>6, <1>7 DEF LInv

\* The recovery leaves no row running and queues none.
LEMMA RecoverKeepsInv ==
  ASSUME LInv, recover
  PROVE  LInv'
<1>1. rows \in [LocalId -> LocalRow]
  BY DEF LInv, LocalTypeOK
<1>2. \A i \in LocalId : /\ Recovered[i] \in LocalRow
                         /\ Recovered[i].status # "running"
                         /\ \/ Recovered[i].status = "failed" /\ IsRunning(i)
                            \/ Recovered[i] = rows[i]
  <2> SUFFICES ASSUME NEW i \in LocalId
               PROVE  /\ Recovered[i] \in LocalRow
                      /\ Recovered[i].status # "running"
                      /\ \/ Recovered[i].status = "failed" /\ IsRunning(i)
                         \/ Recovered[i] = rows[i]
    OBVIOUS
  <2>1. CASE IsRunning(i)
    <3>1. Recovered[i] = [rows[i] EXCEPT !.status = "failed", !.error = "unknown"]
      BY <2>1 DEF Recovered
    <3>2. Recovered[i] \in LocalRow /\ Recovered[i].status = "failed"
      BY <1>1, <3>1 DEF LocalRow
    <3> QED BY <2>1, <3>2
  <2>2. CASE ~IsRunning(i)
    <3>1. Recovered[i] = rows[i]
      BY <2>2 DEF Recovered
    <3> QED BY <1>1, <2>2, <3>1 DEF IsRunning
  <2> QED BY <2>1, <2>2
<1>3. /\ rows' = Recovered /\ last' = last /\ process' = process /\ handlers' = handlers
      /\ loop.phase = "starting"
  BY DEF recover
<1>4. loop' \in Loop /\ loop'.job = NoLocal /\ loop'.phase = "idle"
  BY <1>3 DEF recover, LInv, LocalTypeOK, LoopShape, Loop, ActivePhases
<1>5. LocalTypeOK'
  <2>1. rows' \in [LocalId -> LocalRow]
    BY <1>2, <1>3 DEF Recovered
  <2> QED BY <1>3, <1>4, <2>1 DEF LInv, LocalTypeOK
<1>6. LoopOwnsRunning' /\ LoopShape'
  BY <1>2, <1>3, <1>4 DEF LoopOwnsRunning, LoopShape, IsRunning, ActivePhases, NoLocal, LocalId
<1>7. NumbersNotReused'
  BY <1>2, <1>3 DEF LInv, NumbersNotReused, Present, IsRunning
<1>8. Stages'
  <2> SUFFICES ASSUME NEW i \in LocalId PROVE StageOf(i)'
    BY DEF Stages
  <2>1. StageOf(i)
    BY DEF LInv, Stages
  <2>2. loop'.job # i
    BY <1>4 DEF NoLocal, LocalId
  <2> QED BY <1>2, <1>3, <2>1, <2>2 DEF StageOf, Waiting
<1> QED BY <1>5, <1>6, <1>7, <1>8 DEF LInv

\* A daemon that was never started satisfies the invariant.
LEMMA InitLInv == ASSUME LocalInit PROVE LInv
<1>1. LocalTypeOK
  BY AbsentType, FreshType, IdleType DEF LocalInit, LocalTypeOK
<1>2. LoopOwnsRunning /\ LoopShape
  BY IdleType DEF LocalInit, LoopOwnsRunning, LoopShape, Serving, ActivePhases
<1>3. NumbersNotReused
  BY AbsentType DEF LocalInit, NumbersNotReused, Present
<1>4. Stages
  <2> SUFFICES ASSUME NEW i \in LocalId PROVE StageOf(i)
    BY DEF Stages
  <2>1. process[i] = Fresh /\ rows[i] = Absent /\ loop.job # i
    BY IdleType DEF LocalInit, NoLocal, LocalId
  <2> QED BY <2>1, FreshType, AbsentType DEF StageOf, Waiting
<1> QED BY <1>1, <1>2, <1>3, <1>4 DEF LInv

\* Every request and every step of the loop keep the invariant.
LEMMA NextLInv == ASSUME LInv, [LocalNext]_localVars PROVE LInv'
<1>0. handlers \in [Cancellable -> 0..MaxHandlers] /\ loop \in Loop
  BY DEF LInv, LocalTypeOK
<1>1. CASE UNCHANGED localVars
  <2> USE <1>1 DEF localVars
  <2> QED BY DEF LInv, LocalTypeOK, LoopOwnsRunning, NumbersNotReused, LoopShape, Stages,
                 StageOf, Serving, IsRunning, Present, Waiting
<1>2. CASE Socket
  <2>1. CASE submit
    BY <2>1, SubmitKeepsInv
  <2>2. CASE removeAll \/ clear \/ \E i \in LocalId : remove(i)
    BY <2>2, DeletionKeepsInv
  <2>3. CASE retry({i \in LocalId : HasFailed(i)}) \/ \E i \in LocalId : retry({i})
    <3>1. {i \in LocalId : HasFailed(i)} \in SUBSET LocalId
          /\ \A i \in LocalId : {i} \in SUBSET LocalId
      OBVIOUS
    <3> QED BY <2>3, <3>1, RetryKeepsInv
  <2>4. CASE \/ \E i \in LocalId : urgent(i) \/ requestCancel(i)
             \/ \E i, k \in LocalId : swap(i, k)
    BY <2>4, EditKeepsInv
  <2> QED BY <1>2, <2>1, <2>2, <2>3, <2>4 DEF Socket, BatchJobs
<1>3. CASE JobLoop
  <2>1. CASE start \/ recover
    BY <2>1, StartKeepsInv, RecoverKeepsInv
  <2>2. CASE serveRemote \/ activate \/ notStarted
    BY <2>2, AdvanceKeepsInv
  <2>3. CASE \E i \in LocalId : claim(i)
    BY <2>3, ClaimKeepsInv
  <2>4. CASE launch
    BY <2>4, LaunchKeepsInv
  <2>5. CASE exit \/ interrupt
    BY <2>5, EndsKeepsInv DEF exit, interrupt
  <2>6. CASE finish
    BY <2>6, FinishKeepsInv
  <2> QED BY <1>3, <2>1, <2>2, <2>3, <2>4, <2>5, <2>6 DEF JobLoop
<1>4. CASE heartbeatCancel \/ \E i \in Cancellable : callCancel(i)
  BY <1>4, HeartbeatKeepsInv, CallCancelKeepsInv
<1>5. CASE stop
  BY <1>5, StopKeepsInv
<1>6. CASE end
  BY <1>0, <1>6, DownKeepsInv DEF end, LoopStep
<1>7. CASE crash
  <2>1. handlers' \in [Cancellable -> 0..MaxHandlers]
    BY <1>7 DEF crash
  <2> QED BY <1>7, <2>1, DownKeepsInv DEF crash
<1> QED BY <1>1, <1>2, <1>3, <1>4, <1>5, <1>6, <1>7 DEF LocalNext

-----------------------------------------------------------------------------
(* The theorems.                                                           *)

\* The inductive invariant holds in every state of every daemon.
THEOREM LocalInvariance == LocalSpec => []LInv
<1>1. LocalInit => LInv
  BY InitLInv
<1>2. LInv /\ [LocalNext]_localVars => LInv'
  BY NextLInv
<1> QED BY <1>1, <1>2, PTL DEF LocalSpec

\* Once the daemon has recovered, the running row is the one its loop holds.
THEOREM LoopAlwaysOwnsRunning == LocalSpec => []LoopOwnsRunning
<1>1. LInv => LoopOwnsRunning
  BY DEF LInv
<1> QED BY <1>1, LocalInvariance, PTL

\* No crash or restart makes the daemon launch a command again.
THEOREM CommandsNeverReplayed == LocalSpec => []NeverReplayed
<1>1. LInv => NeverReplayed
  BY DEF LInv, Stages, StageOf, NeverReplayed
<1> QED BY <1>1, LocalInvariance, PTL

\* A local job is recorded as succeeded only when its process was.
THEOREM LocalSuccessAlwaysReal == LocalSpec => []LocalSuccessIsReal
<1>1. LInv => LocalSuccessIsReal
  BY DEF LInv, Stages, StageOf, LocalSuccessIsReal
<1> QED BY <1>1, LocalInvariance, PTL

\* Every column and every field of the local queue keeps to its values.
THEOREM LocalTypeCorrect == LocalSpec => []LocalTypeOK
<1>1. LInv => LocalTypeOK
  BY DEF LInv
<1> QED BY <1>1, LocalInvariance, PTL

-----------------------------------------------------------------------------
(* The order of the waiting jobs.                                          *)

\* Only a submission and a retry make a job wait.
LEMMA WhatQueues ==
  ASSUME LInv, [LocalNext]_localVars, NEW i \in LocalId, ~Waiting(i), Waiting(i)'
  PROVE  submit \/ \E chosen \in SUBSET LocalId : retry(chosen)
<1>1. rows \in [LocalId -> LocalRow] /\ rows[i] \in LocalRow
  BY DEF LInv, LocalTypeOK
<1>2. ~UNCHANGED rows
  BY DEF Waiting
<1>3. ASSUME removeAll \/ clear \/ start \/ \E k \in LocalId : remove(k) PROVE FALSE
  <2>1. rows'[i] = rows[i] \/ rows'[i] = Absent
    BY <1>1, <1>3 DEF removeAll, clear, start, remove
  <2> QED BY <2>1, AbsentType DEF Waiting
<1>4. ASSUME NEW k \in LocalId, urgent(k) \/ requestCancel(k) PROVE FALSE
  <2>1. \/ rows'[i] = rows[i]
        \/ \E p : rows'[i] = [rows[i] EXCEPT !.queue_position = p]
        \/ rows'[i] = [rows[i] EXCEPT !.cancel_requested = 1]
    <3>1. CASE urgent(k)
      BY <1>1, <1>4, <3>1 DEF urgent
    <3>2. CASE requestCancel(k)
      BY <1>1, <1>4, <3>2 DEF requestCancel
    <3> QED BY <1>4, <3>1, <3>2
  <2>2. rows'[i].status = rows[i].status
    BY <1>1, <2>1 DEF LocalRow
  <2> QED BY <2>2 DEF Waiting
<1>5. ASSUME NEW j \in LocalId, NEW k \in LocalId, swap(j, k) PROVE FALSE
  <2>1. \/ rows'[i] = rows[i]
        \/ \E p : rows'[i] = [rows[i] EXCEPT !.queue_position = p]
    <3>1. CASE j = k
      BY <1>1, <1>5, <3>1 DEF swap
    <3>2. CASE j # k
      BY <1>1, <1>5, <3>2 DEF swap
    <3> QED BY <3>1, <3>2
  <2>2. rows'[i].status = rows[i].status
    BY <1>1, <2>1 DEF LocalRow
  <2> QED BY <2>2 DEF Waiting
<1>6. ASSUME NEW k \in LocalId, claim(k) PROVE FALSE
  BY <1>1, <1>6 DEF claim, Waiting
<1>7. ASSUME recover PROVE FALSE
  <2>1. rows'[i] = Recovered[i]
    BY <1>7 DEF recover
  <2>2. Recovered[i] = rows[i] \/ Recovered[i].status = "failed"
    BY <1>1 DEF Recovered, LocalRow
  <2> QED BY <2>1, <2>2 DEF Waiting
<1>8. ASSUME finish PROVE FALSE
  <2>1. loop.result \in {"succeeded", "failed"} /\ IsRunning(loop.job)
    BY <1>8, <1>2 DEF finish, LInv, LoopShape
  <2>2. PICK e : rows' = [rows EXCEPT ![loop.job] =
                            [rows[loop.job] EXCEPT !.status = loop.result, !.error = e]]
    BY <1>8, <2>1 DEF finish
  <2>3. rows'[i] = rows[i] \/ rows'[i] = [rows[i] EXCEPT !.status = loop.result, !.error = e]
    BY <1>1, <2>2
  <2>4. rows'[i] = rows[i] \/ rows'[i].status = loop.result
    BY <1>1, <2>3 DEF LocalRow
  <2> QED BY <2>1, <2>4 DEF Waiting
<1>9. \A k \in LocalId : {k} \in SUBSET LocalId
  OBVIOUS
<1>10. {k \in LocalId : HasFailed(k)} \in SUBSET LocalId
  OBVIOUS
<1>11. UNCHANGED rows \/ Socket \/ JobLoop
  BY DEF LocalNext, localVars, heartbeatCancel, callCancel, stop, end, crash, LoopStep
<1>12. CASE Socket
  BY <1>3, <1>4, <1>5, <1>9, <1>10, <1>12 DEF Socket, BatchJobs
<1>13. CASE JobLoop
  BY <1>2, <1>3, <1>6, <1>7, <1>8, <1>13
    DEF JobLoop, serveRemote, activate, notStarted, launch, exit, interrupt, ends, LoopStep
<1> QED BY <1>2, <1>11, <1>12, <1>13

\* A row behind the last place is behind every job that waits.
LEMMA LastPlaceIsLast ==
  ASSUME LInv, NEW m \in Place, IsLastPlace(m), NEW k \in LocalId, Waiting(k)
  PROVE  rows[k].queue_position \in Int /\ rows[k].queue_position <= m
<1>1. rows[k] \in LocalRow
  BY DEF LInv, LocalTypeOK
<1>2. Present(k)
  BY DEF Present, Waiting
<1> QED BY <1>1, <1>2 DEF IsLastPlace, LocalRow

\* The rank of a retried job among the chosen ones starts at one.
LEMMA RankIsPositive ==
  ASSUME NEW chosen \in SUBSET LocalId, NEW i \in chosen
  PROVE  Cardinality({k \in chosen : Precedes(k, i) \/ k = i}) \in Nat \ {0}
<1> DEFINE S == {k \in chosen : Precedes(k, i) \/ k = i}
<1>1. IsFiniteSet(LocalId)
  BY FS_Interval DEF LocalId
<1>2. S \in SUBSET LocalId /\ i \in S
  OBVIOUS
<1> HIDE DEF S
<1>3. IsFiniteSet(S)
  BY <1>1, <1>2, FS_Subset
<1>4. Cardinality(S) \in Nat /\ Cardinality(S) # 0
  BY <1>2, <1>3, FS_CardinalityType, FS_EmptySet
<1> QED BY <1>4 DEF S

\* A job that begins to wait is placed behind the jobs that wait.
LEMMA NewcomersWaitLast ==
  ASSUME LInv, [LocalNext]_localVars, NEW i \in LocalId, NEW k \in LocalId,
         ~Waiting(i), Waiting(i)', Waiting(k), Waiting(k)'
  PROVE  Precedes(k, i)'
<1>1. rows \in [LocalId -> LocalRow] /\ i # k
  BY DEF LInv, LocalTypeOK
<1>2. CASE submit
  <2> PICK m \in Place : /\ IsLastPlace(m)
                         /\ rows' = [rows EXCEPT ![last + 1] = NewRow("queued", m + 1)]
    BY <1>2 DEF submit
  <2>1. last + 1 \in LocalId /\ ~Present(last + 1)
    BY <1>2 DEF submit, LInv, LocalTypeOK, LocalId, NumbersNotReused, Present
  <2>2. i = last + 1 /\ k # last + 1
    BY <1>1, <2>1 DEF Waiting, Present
  <2>3. rows'[k] = rows[k] /\ rows'[i].queue_position = m + 1
    BY <1>1, <2>1, <2>2 DEF NewRow
  <2> QED BY <2>3, LastPlaceIsLast, PlaceIsInt DEF Precedes
<1>3. CASE \E chosen \in SUBSET LocalId : retry(chosen)
  <2> PICK chosen \in SUBSET LocalId : retry(chosen)
    BY <1>3
  <2> DEFINE Rank(j) == Cardinality({l \in chosen : Precedes(l, j) \/ l = j})
  <2>1. PICK m \in Place :
          /\ IsLastPlace(m)
          /\ rows' = [j \in LocalId |-> IF j \in chosen THEN NewRow("queued", m + Rank(j))
                                                        ELSE rows[j]]
    BY DEF retry
  <2>2. k \notin chosen
    BY DEF retry, HasFailed, Waiting
  <2>3. i \in chosen
    BY <2>1 DEF Waiting
  <2>4. Rank(i) \in Nat \ {0}
    BY <2>3, RankIsPositive
  <2> HIDE DEF Rank
  <2>5. rows'[k] = rows[k] /\ rows'[i].queue_position = m + Rank(i)
    BY <2>1, <2>2, <2>3 DEF NewRow
  <2> QED BY <2>1, <2>4, <2>5, LastPlaceIsLast, PlaceIsInt DEF Precedes
<1> QED BY <1>2, <1>3, WhatQueues

\* Submitted and retried jobs wait behind every job that was waiting, after any
\* sequence of urgent, swap, retry and deletion, and in every queue length.
THEOREM LocalFifoAlways == LocalSpec => LocalFifo
<1> DEFINE A == \A i, k \in LocalId :
                  ~Waiting(i) /\ Waiting(i)' /\ Waiting(k) /\ Waiting(k)' => Precedes(k, i)'
<1>1. LInv /\ [LocalNext]_localVars => [A]_localVars
  BY NewcomersWaitLast
<1> QED BY <1>1, LocalInvariance, PTL DEF LocalSpec, LocalFifo
=============================================================================
