------------------------ MODULE LocalQueueRefinement ------------------------
(***************************************************************************)
(* The local queue implements JobLifecycle, for both kinds of storage and  *)
(* every number of jobs.  Beside the invariant of LocalQueueProofs the     *)
(* argument needs two facts that outlive the daemon: at most one row is    *)
(* running, also between a crash and the recovery, and an unknown outcome  *)
(* is that of a failed job.                                                *)
(***************************************************************************)
EXTENDS LocalQueueProofs

UnknownFailed == \A i \in LocalId : rows[i].error = "unknown" => HasFailed(i)

OneRunning == \A i, k \in LocalId : IsRunning(i) /\ IsRunning(k) => i = k

\* The invariant of the refinement.
RInv == LInv /\ UnknownFailed /\ OneRunning

-----------------------------------------------------------------------------
(* What a step may do to one row.                                          *)

Kept(i) == rows'[i].status = rows[i].status /\ rows'[i].error = rows[i].error

Queued(i) == /\ rows[i].status \in {"absent", "failed"}
             /\ rows'[i].status = "queued" /\ rows'[i].error = ""

Claimed(i) == /\ Waiting(i) /\ \A k \in LocalId : ~IsRunning(k)
              /\ rows'[i].status = "running" /\ rows'[i].error = rows[i].error
              /\ \A k \in LocalId : IsRunning(k)' => k = i

Finished(i) == /\ IsRunning(i)
               /\ rows'[i].status \in {"succeeded", "failed"} /\ rows'[i].error # "unknown"

\* A run is given up, and a running row is deleted, only while the loop is not
\* there to hold it.
GivenUp(i) == /\ IsRunning(i) /\ ~Serving
              /\ rows'[i].status = "failed" /\ rows'[i].error = "unknown"

Deleted(i) == /\ ~IsRunning(i) \/ ~Serving
              /\ rows'[i].status = "absent" /\ rows'[i].error = ""

RowStep(i) == \/ Kept(i) \/ Queued(i) \/ Claimed(i)
              \/ Finished(i) \/ GivenUp(i) \/ Deleted(i)

USE LocalQueueConstants

-----------------------------------------------------------------------------
\* The columns of a row at its defaults.
LEMMA NewRowFields ==
  ASSUME NEW s \in {"absent", "queued"}, NEW p
  PROVE  NewRow(s, p).status = s /\ NewRow(s, p).error = ""
BY DEF NewRow

\* A row that is not there.
LEMMA AbsentFields == Absent.status = "absent" /\ Absent.error = ""
BY NewRowFields DEF Absent

\* Submissions and retries queue rows that are not there or have failed.
LEMMA QueueRowStep ==
  ASSUME LInv, submit \/ (\E chosen \in SUBSET LocalId : retry(chosen)), NEW i \in LocalId
  PROVE  RowStep(i)
<1>1. rows \in [LocalId -> LocalRow]
  BY DEF LInv, LocalTypeOK
<1>2. CASE submit
  <2> PICK m \in Place : rows' = [rows EXCEPT ![last + 1] = NewRow("queued", m + 1)]
    BY <1>2 DEF submit
  <2>1. last + 1 \in LocalId /\ ~Present(last + 1)
    BY <1>2 DEF submit, LInv, LocalTypeOK, LocalId, NumbersNotReused, Present
  <2>2. CASE i = last + 1
    BY <1>1, <2>1, <2>2, NewRowFields DEF RowStep, Queued, Present
  <2>3. CASE i # last + 1
    BY <1>1, <2>3 DEF RowStep, Kept
  <2> QED BY <2>2, <2>3
<1>3. CASE \E chosen \in SUBSET LocalId : retry(chosen)
  <2> PICK chosen \in SUBSET LocalId : retry(chosen)
    BY <1>3
  <2>1. i \in chosen => HasFailed(i) /\ \E p : rows'[i] = NewRow("queued", p)
    BY DEF retry
  <2>2. i \notin chosen => rows'[i] = rows[i]
    BY DEF retry
  <2> QED BY <2>1, <2>2, NewRowFields DEF RowStep, Queued, Kept, HasFailed
<1> QED BY <1>2, <1>3

\* Deletions spare the running row; a new database has no rows.
LEMMA DeleteRowStep ==
  ASSUME LInv, NEW i \in LocalId,
         removeAll \/ clear \/ start \/ \E k \in LocalId : remove(k)
  PROVE  RowStep(i)
<1>1. rows \in [LocalId -> LocalRow]
  BY DEF LInv, LocalTypeOK
<1>2. rows'[i] = rows[i] \/ (rows'[i] = Absent /\ (~IsRunning(i) \/ ~Serving))
  <2>1. CASE removeAll \/ clear
    BY <2>1 DEF removeAll, clear, IsRunning
  <2>2. CASE start
    BY <1>1, <2>2 DEF start, IsUp, Serving
  <2>3. CASE \E k \in LocalId : remove(k)
    BY <1>1, <2>3 DEF remove
  <2> QED BY <2>1, <2>2, <2>3
<1> QED BY <1>2, AbsentFields DEF RowStep, Kept, Deleted

\* Reordering and flagging keep status and error.
LEMMA EditRowStep ==
  ASSUME LInv, NEW i \in LocalId,
         \/ \E k \in LocalId : urgent(k) \/ requestCancel(k)
         \/ \E j, k \in LocalId : swap(j, k)
  PROVE  RowStep(i)
<1>1. rows \in [LocalId -> LocalRow] /\ rows[i] \in LocalRow
  BY DEF LInv, LocalTypeOK
<1>2. \/ rows'[i] = rows[i]
      \/ \E p : rows'[i] = [rows[i] EXCEPT !.queue_position = p]
      \/ rows'[i] = [rows[i] EXCEPT !.cancel_requested = 1]
  <2>1. CASE \E k \in LocalId : urgent(k)
    BY <1>1, <2>1 DEF urgent
  <2>2. CASE \E k \in LocalId : requestCancel(k)
    BY <1>1, <2>2 DEF requestCancel
  <2>3. CASE \E j, k \in LocalId : swap(j, k)
    <3> PICK j \in LocalId, k \in LocalId : swap(j, k)
      BY <2>3
    <3>1. CASE j = k
      <4>1. \/ rows'[i] = rows[i]
            \/ \E p : rows'[i] = [[rows[i] EXCEPT !.queue_position = p] EXCEPT !.queue_position = p]
        BY <1>1, <3>1 DEF swap
      <4>2. \A p : [[rows[i] EXCEPT !.queue_position = p] EXCEPT !.queue_position = p]
                     = [rows[i] EXCEPT !.queue_position = p]
        BY <1>1 DEF LocalRow
      <4> QED BY <4>1, <4>2
    <3>2. CASE j # k
      <4>1. \/ rows'[i] = [rows[i] EXCEPT !.queue_position = rows[k].queue_position]
            \/ rows'[i] = [rows[i] EXCEPT !.queue_position = rows[j].queue_position]
            \/ rows'[i] = rows[i]
        BY <1>1, <3>2 DEF swap
      <4> QED BY <4>1
    <3> QED BY <3>1, <3>2
  <2> QED BY <2>1, <2>2, <2>3
<1>3. Kept(i)
  BY <1>1, <1>2 DEF Kept, LocalRow
<1> QED BY <1>3 DEF RowStep

\* A claim starts the only run.
LEMMA ClaimRowStep ==
  ASSUME LInv, NEW k \in LocalId, claim(k), NEW i \in LocalId
  PROVE  RowStep(i)
<1>1. rows \in [LocalId -> LocalRow] /\ loop \in Loop
  BY DEF LInv, LocalTypeOK
<1>2. loop.phase = "idle" /\ loop.job = NoLocal /\ Waiting(k)
  BY DEF claim, LInv, LoopShape, ActivePhases
<1>3. \A j \in LocalId : ~IsRunning(j)
  BY <1>2 DEF LInv, LoopOwnsRunning, Serving, NoLocal, LocalId
<1>4. rows' = [rows EXCEPT ![k] = [rows[k] EXCEPT !.status = "running"]]
  BY DEF claim
<1>5. \A j \in LocalId : j # k => rows'[j] = rows[j]
  BY <1>1, <1>4
<1>6. rows'[k].status = "running" /\ rows'[k].error = rows[k].error
  <2>1. rows[k] \in LocalRow /\ rows'[k] = [rows[k] EXCEPT !.status = "running"]
    BY <1>1, <1>4
  <2> QED BY <2>1 DEF LocalRow
<1>7. \A j \in LocalId : IsRunning(j)' => j = k
  BY <1>3, <1>5 DEF IsRunning
<1>8. CASE i = k
  BY <1>2, <1>3, <1>6, <1>7, <1>8 DEF RowStep, Claimed
<1>9. CASE i # k
  BY <1>5, <1>9 DEF RowStep, Kept
<1> QED BY <1>8, <1>9

\* A report ends the run of the row the loop holds.
LEMMA FinishRowStep ==
  ASSUME LInv, finish, NEW i \in LocalId
  PROVE  RowStep(i)
<1>1. rows \in [LocalId -> LocalRow] /\ rows[i] \in LocalRow
  BY DEF LInv, LocalTypeOK
<1>2. CASE rows' = rows
  BY <1>2 DEF RowStep, Kept
<1>3. CASE IsRunning(loop.job)
  <2>1. loop.result \in {"succeeded", "failed"}
    BY DEF finish, LInv, LoopShape
  <2>2. PICK e \in {"reported", ""} :
          rows' = [rows EXCEPT ![loop.job] =
                     [rows[loop.job] EXCEPT !.status = loop.result, !.error = e]]
    BY <1>3 DEF finish
  <2>3. CASE i = loop.job
    <3>1. rows'[i] = [rows[i] EXCEPT !.status = loop.result, !.error = e]
      BY <1>1, <2>2, <2>3
    <3>2. rows'[i].status = loop.result /\ rows'[i].error = e
      BY <1>1, <3>1 DEF LocalRow
    <3> QED BY <1>3, <2>1, <2>3, <3>2 DEF RowStep, Finished
  <2>4. CASE i # loop.job
    BY <1>1, <2>2, <2>4 DEF RowStep, Kept
  <2> QED BY <2>3, <2>4
<1> QED BY <1>2, <1>3 DEF finish

\* The recovery gives up the runs of a daemon that is gone.
LEMMA RecoverRowStep ==
  ASSUME LInv, recover, NEW i \in LocalId
  PROVE  RowStep(i)
<1>1. rows[i] \in LocalRow
  BY DEF LInv, LocalTypeOK
<1>2. rows'[i] = Recovered[i] /\ ~Serving
  BY DEF recover, Serving
<1>3. CASE IsRunning(i)
  <2>1. rows'[i] = [rows[i] EXCEPT !.status = "failed", !.error = "unknown"]
    BY <1>2, <1>3 DEF Recovered
  <2>2. rows'[i].status = "failed" /\ rows'[i].error = "unknown"
    BY <1>1, <2>1 DEF LocalRow
  <2> QED BY <1>2, <1>3, <2>2 DEF RowStep, GivenUp
<1>4. CASE ~IsRunning(i)
  BY <1>2, <1>4 DEF Recovered, RowStep, Kept
<1> QED BY <1>3, <1>4

\* Every step does one of these to every row.
LEMMA EveryRowSteps ==
  ASSUME LInv, [LocalNext]_localVars, NEW i \in LocalId
  PROVE  RowStep(i)
<1>1. CASE UNCHANGED rows
  BY <1>1 DEF RowStep, Kept
<1>2. UNCHANGED rows \/ Socket \/ JobLoop
  BY DEF LocalNext, localVars, heartbeatCancel, callCancel, stop, end, crash, LoopStep
<1>3. CASE Socket
  <2>1. \A k \in LocalId : {k} \in SUBSET LocalId
    OBVIOUS
  <2>2. {k \in LocalId : HasFailed(k)} \in SUBSET LocalId
    OBVIOUS
  <2> QED BY <1>3, <2>1, <2>2, QueueRowStep, DeleteRowStep, EditRowStep DEF Socket, BatchJobs
<1>4. CASE JobLoop
  BY <1>1, <1>4, DeleteRowStep, RecoverRowStep, ClaimRowStep, FinishRowStep
    DEF JobLoop, serveRemote, activate, notStarted, launch, exit, interrupt, ends, LoopStep
<1> QED BY <1>1, <1>2, <1>3, <1>4

-----------------------------------------------------------------------------
(* The refinement.                                                         *)

\* The invariant of the refinement is inductive.
LEMMA NextRInv == ASSUME RInv, [LocalNext]_localVars PROVE RInv'
<1>1. LInv' /\ \A i \in LocalId : RowStep(i)
  BY NextLInv, EveryRowSteps DEF RInv
<1>2. UnknownFailed'
  BY <1>1 DEF RInv, UnknownFailed, HasFailed, RowStep, Kept, Queued, Claimed, Finished, GivenUp,
              Deleted, Waiting
<1>3. OneRunning'
  BY <1>1 DEF RInv, OneRunning, IsRunning, RowStep, Kept, Queued, Claimed, Finished, GivenUp,
              Deleted, Waiting
<1> QED BY <1>1, <1>2, <1>3 DEF RInv

\* The status of a job in JobLifecycle.
PhaseOf(i) == IF rows[i].error = "unknown" THEN "lost" ELSE rows[i].status

HolderOf(i) == IF rows[i].status \in {"absent", "queued"} THEN "none" ELSE "worker"

Silent == IF Serving THEN {} ELSE {"worker"}

\* The moves of JobLifecycle, in terms of the table.
LEMMA MovesOfRow ==
  ASSUME NEW i \in LocalId
  PROVE  /\ LocalLifecycle!Keep(i) <=> PhaseOf(i)' = PhaseOf(i) /\ HolderOf(i)' = HolderOf(i)
         /\ LocalLifecycle!Enqueue(i) <=> /\ PhaseOf(i) \in {"absent", "failed", "lost"}
                                          /\ PhaseOf(i)' = "queued" /\ HolderOf(i)' = "none"
         /\ LocalLifecycle!Assign(i) <=>
              /\ PhaseOf(i) = "queued" /\ PhaseOf(i)' = "running"
              /\ \E w \in {"worker"} :
                   /\ HolderOf(i)' = w
                   /\ \A k \in LocalId : ~(PhaseOf(k) = "running" /\ HolderOf(k) = w)
         /\ LocalLifecycle!End(i) <=> /\ PhaseOf(i) = "running"
                                      /\ PhaseOf(i)' \in {"succeeded", "failed"}
                                      /\ HolderOf(i)' = HolderOf(i)
         /\ LocalLifecycle!Lose(i) <=> /\ PhaseOf(i) = "running" /\ HolderOf(i) \in Silent
                                       /\ PhaseOf(i)' = "lost" /\ HolderOf(i)' = HolderOf(i)
         /\ LocalLifecycle!Delete(i) <=>
              /\ \/ PhaseOf(i) \in {"queued", "succeeded", "failed", "lost"}
                 \/ PhaseOf(i) = "running" /\ HolderOf(i) \in Silent
              /\ PhaseOf(i)' = "absent" /\ HolderOf(i)' = "none"
BY DEF PhaseOf, HolderOf, Silent, LocalLifecycle!Keep, LocalLifecycle!Enqueue,
       LocalLifecycle!Assign, LocalLifecycle!End, LocalLifecycle!Lose, LocalLifecycle!Delete,
       LocalLifecycle!Over, LocalLifecycle!Running

\* What may happen to a row is what may happen to a job.
LEMMA RowStepMoves ==
  ASSUME RInv, NEW i \in LocalId, RowStep(i)
  PROVE  \/ LocalLifecycle!Keep(i) \/ LocalLifecycle!Enqueue(i) \/ LocalLifecycle!Assign(i)
         \/ LocalLifecycle!End(i) \/ LocalLifecycle!Lose(i) \/ LocalLifecycle!Delete(i)
<1>1. rows[i].status \in {"absent", "queued", "running", "succeeded", "failed"}
  BY DEF RInv, LInv, LocalTypeOK, LocalRow
<1>2. rows[i].error = "unknown" => rows[i].status = "failed"
  BY DEF RInv, UnknownFailed, HasFailed
<1>3. CASE Kept(i)
  <2>1. PhaseOf(i)' = PhaseOf(i) /\ HolderOf(i)' = HolderOf(i)
    BY <1>3 DEF Kept, PhaseOf, HolderOf
  <2> QED BY <2>1, MovesOfRow
<1>4. CASE Queued(i)
  <2>1. PhaseOf(i) \in {"absent", "failed", "lost"} /\ PhaseOf(i)' = "queued" /\ HolderOf(i)' = "none"
    BY <1>4 DEF Queued, PhaseOf, HolderOf
  <2> QED BY <2>1, MovesOfRow
<1>5. CASE Claimed(i)
  <2>1. PhaseOf(i) = "queued" /\ PhaseOf(i)' = "running" /\ HolderOf(i)' = "worker"
    BY <1>2, <1>5 DEF Claimed, Waiting, PhaseOf, HolderOf
  <2>2. \A k \in LocalId : PhaseOf(k) # "running"
    BY <1>5 DEF Claimed, IsRunning, PhaseOf
  <2> QED BY <2>1, <2>2, MovesOfRow
<1>6. CASE Finished(i)
  <2>1. PhaseOf(i) = "running" /\ PhaseOf(i)' \in {"succeeded", "failed"}
        /\ HolderOf(i)' = HolderOf(i)
    BY <1>2, <1>6 DEF Finished, IsRunning, PhaseOf, HolderOf
  <2> QED BY <2>1, MovesOfRow
<1>7. CASE GivenUp(i)
  <2>1. PhaseOf(i) = "running" /\ HolderOf(i) \in Silent
        /\ PhaseOf(i)' = "lost" /\ HolderOf(i)' = HolderOf(i)
    BY <1>2, <1>7 DEF GivenUp, IsRunning, PhaseOf, HolderOf, Silent
  <2> QED BY <2>1, MovesOfRow
<1>8. CASE Deleted(i)
  <2>1. PhaseOf(i)' = "absent" /\ HolderOf(i)' = "none"
    BY <1>8 DEF Deleted, PhaseOf, HolderOf
  <2>2. CASE rows[i].status = "absent"
    <3>1. PhaseOf(i) = "absent" /\ HolderOf(i) = "none"
      BY <1>2, <2>2 DEF PhaseOf, HolderOf
    <3> QED BY <2>1, <3>1, MovesOfRow
  <2>3. CASE rows[i].status = "running"
    <3>1. PhaseOf(i) = "running" /\ HolderOf(i) \in Silent
      BY <1>2, <1>8, <2>3 DEF Deleted, IsRunning, PhaseOf, HolderOf, Silent
    <3> QED BY <2>1, <3>1, MovesOfRow
  <2>4. CASE rows[i].status \in {"queued", "succeeded", "failed"}
    <3>1. PhaseOf(i) \in {"queued", "succeeded", "failed", "lost"}
      BY <2>4 DEF PhaseOf
    <3> QED BY <2>1, <3>1, MovesOfRow
  <2> QED BY <1>1, <2>2, <2>3, <2>4
<1> QED BY <1>3, <1>4, <1>5, <1>6, <1>7, <1>8 DEF RowStep

\* Every step of the local queue is a step of the abstract specification.
LEMMA LocalStepRefines ==
  ASSUME RInv, RInv', [LocalNext]_localVars PROVE LocalLifecycle!Next
<1>1. \A i \in LocalId : /\ rows'[i].status \in {"absent", "queued", "running", "succeeded", "failed"}
                         /\ rows'[i].error = "unknown" => rows'[i].status = "failed"
  BY DEF RInv, LInv, LocalTypeOK, LocalRow, UnknownFailed, HasFailed
<1>2. [i \in LocalId |-> IF rows[i].error = "unknown" THEN "lost" ELSE rows[i].status]'
        \in [LocalId -> {"absent", "queued", "running"} \cup LocalLifecycle!Over]
  BY <1>1 DEF LocalLifecycle!Over
<1>3. [i \in LocalId |-> IF rows[i].status \in {"absent", "queued"} THEN "none" ELSE "worker"]'
        \in [LocalId -> {"worker"} \cup {"none"}]
  OBVIOUS
<1>4. (IF Serving THEN {} ELSE {"worker"})' \in SUBSET {"worker"}
  OBVIOUS
<1>5. \A i \in LocalId :
        \/ LocalLifecycle!Keep(i) \/ LocalLifecycle!Enqueue(i) \/ LocalLifecycle!Assign(i)
        \/ LocalLifecycle!End(i) \/ LocalLifecycle!Lose(i) \/ LocalLifecycle!Delete(i)
  BY EveryRowSteps, RowStepMoves DEF RInv
<1>6. LocalLifecycle!Exclusive'
  <2>1. \A i, k \in LocalId : rows'[i].status = "running" /\ rows'[k].status = "running" => i = k
    BY DEF RInv, OneRunning, IsRunning
  <2>2. \A i \in LocalId :
          (IF rows'[i].error = "unknown" THEN "lost" ELSE rows'[i].status) = "running"
            => rows'[i].status = "running"
    OBVIOUS
  <2> QED BY <2>1, <2>2 DEF LocalLifecycle!Exclusive, LocalLifecycle!Running
<1> QED BY <1>2, <1>3, <1>4, <1>5, <1>6 DEF LocalLifecycle!Next

\* A daemon that was never started has no jobs.
LEMMA LocalInitRefines == ASSUME LocalInit PROVE LocalLifecycle!Init /\ RInv
<1>1. \A i \in LocalId : rows[i] = Absent
  BY DEF LocalInit
<1>2. [i \in LocalId |-> IF rows[i].error = "unknown" THEN "lost" ELSE rows[i].status]
        = [i \in LocalId |-> "absent"]
  BY <1>1, AbsentFields
<1>3. [i \in LocalId |-> IF rows[i].status \in {"absent", "queued"} THEN "none" ELSE "worker"]
        = [i \in LocalId |-> "none"]
  BY <1>1, AbsentFields
<1>4. LocalLifecycle!Init
  BY <1>2, <1>3 DEF LocalLifecycle!Init
<1>5. RInv
  BY <1>1, AbsentFields, InitLInv DEF RInv, UnknownFailed, OneRunning, HasFailed, IsRunning
<1> QED BY <1>4, <1>5

\* The local queue implements the life of a job: no request, crash or restart
\* lets two jobs run at once or replaces a recorded outcome other than by retry
\* or deletion, and a run is given up only after the daemon went down.
THEOREM LocalQueueImplementsLifecycle == LocalSpec => LocalImplementsLifecycle
<1>1. LocalInit => LocalLifecycle!Init /\ RInv
  BY LocalInitRefines
<1>2. RInv /\ [LocalNext]_localVars => RInv'
  BY NextRInv
<1>3. RInv /\ RInv' /\ [LocalNext]_localVars => [LocalLifecycle!Next]_(LocalLifecycle!vars)
  BY LocalStepRefines
<1> QED BY <1>1, <1>2, <1>3, PTL DEF LocalSpec, LocalImplementsLifecycle, LocalLifecycle!Spec
=============================================================================
