---------------------------- MODULE CommandLine ----------------------------
(***************************************************************************)
(* One invocation of jobd against a controller (cli/jobs.go, list.go,      *)
(* client.go, worker.go) while other clients and the workers go on.        *)
(*                                                                         *)
(* A request is a step of Scheduler.  An invocation is more: a listing     *)
(* reads one page after the other, a command without an id asks for the    *)
(* latest job and acts on the answer, a pause names a worker by a label    *)
(* that was printed earlier.  And an answer may get lost: http.Client      *)
(* gives up after a while, whatever the controller does with the request.  *)
(***************************************************************************)
EXTENDS Scheduler

SeqExt == INSTANCE SequencesExt

CONSTANTS PageSize,   \* jobs on a page: 100
          MinLabel    \* the shortest label of a worker: 8

\* A worker is named by its id, a sequence of characters (numbers here), all
\* of one length: the daemon makes UUIDs (worker/identity_linux.go).
ASSUME CommandLineConstants ==
  /\ PageSize \in Nat \ {0}
  /\ MinLabel \in Nat \ {0}
  /\ \A w \in Worker : w \in Seq(Nat)
  /\ \A w, v \in Worker : Len(w) = Len(v)

VARIABLES cli,      \* the invocation
          wire,     \* its last request that changes something, or the answer
          started,  \* jobs.started_at: 0 for NULL, else a rank in time
          since     \* history: what the invocation does not know

Ended == {"done", "failed", "unknown"}

cliVars == <<vars, cli, wire, started, since>>

\* A command that names its jobs is one request and no more than a step of
\* Scheduler; -retry stands here for retry --all.
Single  == {"submit", "-C", "remove-all", "-retry"}
Shorthand == {"-r", "-u", "-k"}
Actions == Single \cup Shorthand \cup {"-l", "pause"}

\* An invocation ends with the answer ("done"), without one to a request that
\* reads ("failed"), or without one to a request that changes something and
\* the hint that its outcome is unknown.
Cli == [action   : Actions \cup {None},
        phase    : {"idle", "start", "paging", "selected", "sent"} \cup Ended,
        listed   : Seq(JobId),               \* the jobs on the pages so far
        selected : JobId \cup {NoJob},       \* the answer of GET /jobs/latest
        worker   : Worker \cup {None},       \* the worker the user has in mind
        label    : Seq(Nat)]                 \* what was printed for it

Now(phase) == cli' = [cli EXCEPT !.phase = phase]

\* What others do before the first request counts as done before this.
Begin(action) ==
  /\ cli.phase = "idle"
  /\ cli' = [cli EXCEPT !.phase = "start", !.action = action]
  /\ UNCHANGED <<vars, wire>>

-----------------------------------------------------------------------------
(* Reading.  A request that reads and gets no answer ends the command.     *)

Rows(table) == {i \in JobId : table[i].status # "absent"}

Group(row) == CASE row.status = "running" -> 0 [] row.status = "queued" -> 1 [] OTHER -> 2

\* ORDER BY CASE status ..., queue_position, sequence
Earlier(table, i, k) ==
  \/ Group(table[i]) < Group(table[k])
  \/ /\ Group(table[i]) = Group(table[k])
     /\ \/ table[i].queue_position < table[k].queue_position
        \/ table[i].queue_position = table[k].queue_position /\ i < k

\* How many rows come before i.
Ahead(table, i) == Cardinality({k \in Rows(table) : Earlier(table, k, i)})

\* The rows of list, all of them.
Listing(table) ==
  [n \in 1..Cardinality(Rows(table)) |-> CHOOSE i \in Rows(table) : Ahead(table, i) = n - 1]

\* GET /jobs?limit=PageSize&offset=offset
Page(table, offset) ==
  LET all == Listing(table)
  IN  SubSeq(all, offset + 1, IF offset + PageSize < Len(all) THEN offset + PageSize ELSE Len(all))

\* Mutant: the offset counts from one.
OffsetFromOne ==
  /\ cli.action = "-l" /\ cli.phase \in {"start", "paging"}
  /\ List
  /\ LET page == Page(jobs', Len(cli.listed) + 1)
     IN  cli' = [cli EXCEPT !.listed = @ \o page,
                            !.phase = IF Len(page) < PageSize THEN "done" ELSE "paging"]
  /\ UNCHANGED wire

\* fetchJobs: the offset is the number of jobs so far, and a page that is not
\* full is the last.
FetchPage ==
  /\ cli.action = "-l" /\ cli.phase \in {"start", "paging"}
  /\ List
  /\ LET page == Page(jobs', Len(cli.listed))
     IN  cli' = [cli EXCEPT !.listed = @ \o page,
                            !.phase = IF Len(page) < PageSize THEN "done" ELSE "paging"]
  /\ UNCHANGED wire

\* GET /jobs/latest: the last row, or the last one started.
Latest(i) ==
  /\ Exists(i)
  /\ IF cli.action = "-k"
     THEN /\ started[i] # 0
          /\ \A k \in JobId : \/ started[k] < started[i]
                              \/ started[k] = started[i] /\ k <= i
     ELSE \A k \in JobId : Exists(k) => k <= i

SelectLatest(i) ==
  /\ cli.action \in Shorthand /\ cli.phase = "start"
  /\ Latest(i)
  /\ cli' = [cli EXCEPT !.phase = "selected", !.selected = i]
  /\ UNCHANGED <<vars, wire>>

\* Whether a worker is listed: its heartbeat is not too old.
Online(w) == Registered(w) /\ silence[w] < WorkerTimeout

\* The longest prefix that two ids share.
Common(w, v) == Len(SeqExt!LongestCommonPrefix({w, v}))

\* sort.Strings
Smaller(w, v) == LET n == Common(w, v) + 1 IN n <= Len(w) /\ n <= Len(v) /\ w[n] < v[n]

\* Mutant: only the neighbour before an id is looked at.
PreviousOnly(w, v, ids) ==
  Smaller(v, w) /\ ~\E u \in ids : Smaller(v, u) /\ Smaller(u, w)

\* v is next to w among the sorted ids.
Neighbour(w, v, ids) ==
  \/ Smaller(v, w) /\ ~\E u \in ids : Smaller(v, u) /\ Smaller(u, w)
  \/ Smaller(w, v) /\ ~\E u \in ids : Smaller(w, u) /\ Smaller(u, v)

\* workerLabels: one character more than the neighbours have in common.
Label(w, ids) ==
  LET lengths == {MinLabel} \cup {Common(w, v) + 1 : v \in {u \in ids : Neighbour(w, u, ids)}}
      length  == CHOOSE n \in lengths : \A m \in lengths : m <= n
  IN  SubSeq(w, 1, IF length < Len(w) THEN length ELSE Len(w))

\* listWorkers prints the labels, and the user picks a worker.
ListWorkers(w) ==
  /\ cli.action = "pause" /\ cli.phase = "start"
  /\ Online(w)
  /\ cli' = [cli EXCEPT !.phase = "selected", !.worker = w,
                        !.label = Label(w, {v \in Worker : Online(v)})]
  /\ UNCHANGED <<vars, wire>>

\* No latest job (404), no worker, or no answer to a read request.
ReadFails ==
  /\ cli.phase \in {"start", "paging"}
  /\ cli.action \notin Single
  /\ cli' = [cli EXCEPT !.phase = "failed", !.listed = <<>>]
  /\ UNCHANGED <<vars, wire>>

-----------------------------------------------------------------------------
(* Requests that change something.                                         *)

Send ==
  /\ \/ cli.phase = "selected"
     \/ cli.phase = "start" /\ cli.action \in Single
  /\ Now("sent")
  /\ wire' = "request"
  /\ UNCHANGED vars

\* setWorkerPaused: the id itself, or the only one that begins like this.
Resolves(w) ==
  \/ w = cli.label
  \/ SeqExt!IsPrefix(cli.label, w) /\ \A v \in Worker :
       Registered(v) /\ SeqExt!IsPrefix(cli.label, v) => v = w

\* What the controller does with the request.
Perform ==
  CASE cli.action = "submit"     -> Submit
    [] cli.action = "-C"         -> Clear
    [] cli.action = "remove-all" -> RemoveAll
    [] cli.action = "-retry"     -> RetryAll
    [] cli.action = "-u"         -> Urgent(<<cli.selected>>)
    [] cli.action = "-r"         -> Remove({cli.selected})
    [] cli.action = "-k"         -> Cancel(cli.selected)
    [] cli.action = "pause"      -> \E w \in Worker : Resolves(w) /\ SetWorkerPaused(w, 1)

\* Whether it has nothing to do or refuses (404, 409).
Refused ==
  CASE cli.action = "-retry" -> \A i \in JobId : ~Failed(i)
    [] cli.action = "-u"     -> ~Queued(cli.selected)
    [] cli.action = "-k"     -> ~Running(cli.selected)
    [] cli.action = "pause"  -> ~\E w \in Worker : Registered(w) /\ Resolves(w)
    [] OTHER                 -> FALSE

\* The controller handles a request that has reached it, also when the client
\* has given up, or the request is lost on its way.
Handle ==
  /\ wire = "request"
  /\ IF Refused THEN UNCHANGED vars ELSE Perform
  /\ wire' = "answer"
  /\ UNCHANGED cli

Lose ==
  /\ wire \in {"request", "answer"}
  /\ wire' = "none"
  /\ UNCHANGED <<vars, cli>>

Answer ==
  /\ cli.phase = "sent" /\ wire = "answer"
  /\ Now("done")
  /\ wire' = "none"
  /\ UNCHANGED vars

\* Mutant: the request is sent again.
SendAgain ==
  /\ cli.phase = "sent"
  /\ wire' = "request"
  /\ UNCHANGED <<vars, cli>>

\* Do fails: the error says that the outcome may be unknown, and the request
\* is not repeated.
GiveUp ==
  /\ cli.phase = "sent"
  /\ Now("unknown")
  /\ UNCHANGED <<vars, wire>>

-----------------------------------------------------------------------------
(* Everybody else.  What happens after the end is not observed.            *)

Elsewhere ==
  /\ cli.phase \in {"idle", "paging", "selected", "sent"} \/ wire = "request"
  /\ \/ Submit \/ Clear \/ RemoveAll \/ RetryAll \/ Tick
     \/ \E i \in JobId : Remove({i}) \/ Urgent(<<i>>)
     \/ \E w \in Worker : \/ Register(w)
                          \/ \E i \in JobId : ClaimNext(w, i) \/ FinishRunning(i, w, "failed")
  /\ UNCHANGED <<cli, wire>>

CliStep ==
  \/ \E action \in Actions : Begin(action)
  \/ FetchPage \/ ReadFails \/ Send \/ Handle \/ Lose \/ Answer \/ GiveUp
  \/ \E i \in JobId : SelectLatest(i)
  \/ \E w \in Worker : ListWorkers(w)

\* A claim writes started_at, possibly in the millisecond of the claim before;
\* retry and deletion take it away.  Only the order of the values matters.
Stamp ==
  \E later \in {0, 1} :
    LET last == CHOOSE m \in 0..MaxSequence :
                  /\ \A i \in JobId : started[i] <= m
                  /\ m = 0 \/ \E i \in JobId : started[i] = m
        raw  == [i \in JobId |->
                   IF jobs'[i].status \in {"absent", "queued"} THEN 0
                   ELSE IF Queued(i) THEN (IF last = 0 THEN 1 ELSE last + later)
                   ELSE started[i]]
    IN  started' = [i \in JobId |-> Cardinality({raw[k] : k \in JobId} \cap 1..raw[i])]

\* What a listing cannot know: the jobs submitted since its first page, whether
\* a row was removed and whether two rows changed places.  What a shorthand
\* cannot know: whether, since it asked for the latest job, that id was given to
\* a new job or claimed, and whether the job was retried or no job was left.
\* And how often the request of the invocation was handled.
Unseen  == [fresh : SUBSET JobId, handled : 0..2,
            changes : SUBSET {"removed", "moved", "claimed", "retried", "emptied"}]
Nothing == [fresh |-> {}, handled |-> 0, changes |-> {}]

Changes ==
  LET Happened(c) ==
        CASE c = "removed" -> \E i \in JobId : Exists(i) /\ ~Exists(i)'
          [] c = "moved"   -> \E i, k \in Rows(jobs) \cap Rows(jobs') :
                                Earlier(jobs, i, k) /\ Earlier(jobs', k, i)
          [] c = "claimed" -> Queued(cli.selected) /\ Running(cli.selected)'
          [] c = "retried" -> Failed(cli.selected) /\ Queued(cli.selected)'
          [] c = "emptied" -> \A i \in JobId : ~Exists(i)'
  IN  {c \in IF cli.action = "-l" THEN {"removed", "moved"}
             ELSE IF cli.selected # NoJob THEN {"claimed", "retried", "emptied"} ELSE {} :
         jobs' # jobs /\ Happened(c)}

Watch ==
  since' =
    IF cli.phase \in {"idle", "start"} THEN Nothing
    ELSE [fresh   |-> since.fresh \cup
                        {i \in IF cli.action = "-l" THEN JobId ELSE {cli.selected} \ {NoJob} :
                           ~Exists(i) /\ Exists(i)'},
          handled |-> since.handled + IF wire = "request" /\ wire' = "answer" THEN 1 ELSE 0,
          changes |-> since.changes \cup Changes]

CliNext == (CliStep \/ Elsewhere) /\ Stamp /\ Watch

CliInit ==
  /\ Init
  /\ cli = [action |-> None, phase |-> "idle", listed |-> <<>>, selected |-> NoJob,
            worker |-> None, label |-> <<>>]
  /\ wire = "none"
  /\ started = [i \in JobId |-> 0]
  /\ since = Nothing

CliSpec == CliInit /\ [][CliNext]_cliVars

-----------------------------------------------------------------------------
(* What an invocation may rely on.                                         *)

CliTypeOK ==
  /\ cli \in Cli
  /\ wire \in {"none", "request", "answer"}
  /\ started \in [JobId -> 0..MaxSequence]
  /\ since \in Unseen
  /\ \A i \in JobId : started[i] # 0 <=> Exists(i) /\ ~Queued(i)

LastPage == cli.phase \in {"start", "paging"} /\ cli'.phase = "done"

\* As long as no row is removed and none changes its place, a listing leaves
\* out no job that was there all the time, however many are submitted between
\* its pages.
MissesNothing ==
  since'.changes \cap {"removed", "moved"} = {} =>
    \A i \in JobId : Exists(i)' /\ i \notin since'.fresh =>
      \E n \in DOMAIN cli'.listed : cli'.listed[n] = i

\* As long as none is submitted and none changes its place, a listing shows no
\* job twice, however many are removed between its pages.
RepeatsNothing ==
  since'.fresh = {} /\ "moved" \notin since'.changes =>
    \A m, n \in DOMAIN cli'.listed : cli'.listed[m] = cli'.listed[n] => m = n

\* A listing of several pages is wrong about the jobs in no other case.
ListingIsFaithful == [][LastPage => MissesNothing /\ RepeatsNothing]_cliVars

\* -r, -u and -k without an id change no row but that of the job that was the
\* latest when they asked.  The id names another submission by then only if
\* the queue was without jobs meanwhile, and -k meets another run of the job
\* only if it was retried.
ActsOnSelected ==
  [][wire = "request" /\ wire' = "answer" /\ cli.selected # NoJob =>
       /\ \A i \in JobId : i # cli.selected => jobs'[i] \in {jobs[i], ExpiredJobs[i]}
       /\ cli.selected \in since.fresh => "emptied" \in since.changes
       /\ cli.action = "-k" /\ "claimed" \in since.changes
            => since.changes \cap {"emptied", "retried"} # {}]_cliVars

\* An invocation changes the queue at most once, whatever gets lost, and has
\* changed it when it says so (client.go: "Never retry mutations
\* automatically").
HandledOnce ==
  /\ since.handled <= 1
  /\ cli.phase = "done" /\ cli.action # "-l" => since.handled = 1

\* The workers of one listing have different labels, none the beginning of the
\* id of another (list.go: "Sorted neighbors are enough").
LabelsTellApart ==
  cli.action = "pause" /\ cli.phase = "start" =>
    LET ids == {w \in Worker : Online(w)}
    IN  \A w, v \in ids : w # v => ~SeqExt!IsPrefix(Label(w, ids), v)

\* A label pauses the worker that it was printed for or none, also when others
\* have registered since or were not listed because they are offline.
PausesItsWorker ==
  \A w \in Worker : workers[w].paused # workers'[w].paused => w = cli.worker

\* A label stands for one worker, when it is printed and when it is used.
LabelsAreSafe == [][LabelsTellApart /\ PausesItsWorker]_cliVars
=============================================================================
