---------------------------- MODULE JobLifecycle ----------------------------
(***************************************************************************)
(* What a queue of the controller promises about its jobs, without saying  *)
(* how the rows are stored, ordered or timed out.                          *)
(*                                                                         *)
(* A job is absent, queued, running on one worker, or over.  A job that is *)
(* over has succeeded, has failed, or is lost: its worker fell silent and  *)
(* nobody knows how the process ended.  A worker runs at most one job of   *)
(* the queue.  An outcome, once recorded, is replaced by nothing but an    *)
(* explicit retry, which forgets the earlier run, or a deletion.           *)
(*                                                                         *)
(* Several jobs may move in one step, because "retry all", "clear" and the *)
(* expiry of silent workers are single transactions.                       *)
(***************************************************************************)
CONSTANTS Job,      \* the identifiers a job may have
          Worker,   \* the workers of the queue
          None      \* the holder of a job that nobody holds

VARIABLES status,   \* status[j]: where job j is in its life
          holder,   \* holder[j]: the worker of the current or last run of j
          silent    \* the workers that have not been heard of for too long

vars == <<status, holder, silent>>

Over == {"succeeded", "failed", "lost"}

Running(j, w) == status[j] = "running" /\ holder[j] = w

Init == /\ status = [j \in Job |-> "absent"]
        /\ holder = [j \in Job |-> None]
        /\ silent \in SUBSET Worker

Keep(j) == status'[j] = status[j] /\ holder'[j] = holder[j]

\* A submission, or the retry of a job whose run failed or was lost.
Enqueue(j) == /\ status[j] \in {"absent", "failed", "lost"}
              /\ status'[j] = "queued"
              /\ holder'[j] = None

\* An assignment goes to a worker that runs nothing.
Assign(j) == /\ status[j] = "queued"
             /\ status'[j] = "running"
             /\ \E w \in Worker : /\ holder'[j] = w
                                  /\ \A k \in Job : ~Running(k, w)

\* A run ends where it took place: its holder is kept as a record.
End(j) == /\ status[j] = "running"
          /\ status'[j] \in {"succeeded", "failed"}
          /\ holder'[j] = holder[j]

\* Only the run of a silent worker is given up.
Lose(j) == /\ status[j] = "running"
           /\ holder[j] \in silent
           /\ status'[j] = "lost"
           /\ holder'[j] = holder[j]

\* A deletion takes the record of the run along.  A running job is deleted
\* only by a request that gives up its run first.
Delete(j) == /\ \/ status[j] \in {"queued"} \cup Over
                \/ status[j] = "running" /\ holder[j] \in silent
             /\ status'[j] = "absent"
             /\ holder'[j] = None

Exclusive == \A j, k \in Job : \A w \in Worker :
                Running(j, w) /\ Running(k, w) => j = k

Next == /\ status' \in [Job -> {"absent", "queued", "running"} \cup Over]
        /\ holder' \in [Job -> Worker \cup {None}]
        /\ silent' \in SUBSET Worker
        /\ \A j \in Job : \/ Keep(j) \/ Enqueue(j) \/ Assign(j)
                          \/ End(j) \/ Lose(j) \/ Delete(j)
        /\ Exclusive'

Spec == Init /\ [][Next]_vars
=============================================================================
