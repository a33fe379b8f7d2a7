---------------------------- MODULE QueueAccess ----------------------------
(***************************************************************************)
(* Requests on their way to the tables of one queue: the gateway           *)
(* (controller/src/api/queues.ts), worker tokens (api/worker-tokens.ts),   *)
(* the encrypted environment of the queue (secrets.ts) and the routes of   *)
(* api/router.ts that await between two looks at the tables.               *)
(*                                                                         *)
(* Scheduler takes every request as one step.  Two are not: setting a      *)
(* variable awaits the encryption before it writes, and a claim awaits the *)
(* decryption before it assigns.  Here they take their steps one by one,   *)
(* and time passes between the gateway and the Durable Object.  What is    *)
(* atomic is still a step of Scheduler.                                    *)
(*                                                                         *)
(* A request that is refused (400, 401, 403, 404, 409, 503) leaves nothing *)
(* behind, so it ends by freeing its place or, at the gateway, is no step. *)
(***************************************************************************)
EXTENDS Scheduler

CONSTANTS Request,       \* bound: the places for requests under way
          Name,          \* names of variables
          MaxVariables,  \* maxVariables: 64
          Key,           \* master keys the controller may be deployed with
          EncryptionKey, \* those that decode to 32 bytes
          MaxSeconds,    \* maxWorkerTokenSeconds
          MaxTokens,     \* bound: the tokens issued
          MaxTime        \* bound: the clock

ASSUME QueueAccessConstants ==
  /\ None \notin Name \cup Key \cup Request
  /\ MaxVariables \in Nat /\ MaxSeconds \in Nat \ {0} /\ MaxTime \in Nat /\ MaxTokens \in Nat
  /\ EncryptionKey \subseteq Key

VARIABLES secrets,    \* table queue_secrets
          masterKey,  \* JOBD_MASTER_KEY of the deployment
          tokens,     \* every worker token issued
          now,        \* the clock, in seconds
          observed,   \* workers.token_expired_time, 0 for NULL
          request,    \* the requests under way
          seen        \* history: the environments of the queue during a claim

tables   == <<vars, secrets, masterKey, tokens, now, observed>>
allVars  == <<tables, request, seen>>

Time == 0..(MaxTime + MaxSeconds)

\* A ciphertext: the key that made it and the value, which is named by the
\* place of the request that set it, or None when it is older.
Secret   == [key : Key \cup {None}, value : Request \cup {None}]
NoSecret == [key |-> None, value |-> None]
NoRows   == [n \in Name |-> NoSecret]

\* A signed token.  The duration asked for is history; the token has iat and exp.
Token == [key : Key, queue : {"this", "other"}, iat : Time, exp : Time, seconds : 1..MaxSeconds]

\* A request for a variable, a worker or a new token.  expiry is the header
\* X-Jobd-Token-Expires-At, 0 if it is not there; a client may invent one.
Message == UNION {[route : {"setEnv", "removeEnv"}, target : Name, https : BOOLEAN, expiry : {0}],
                  [route : {"claim"}, target : Worker, https : BOOLEAN, expiry : {0}],
                  [route : {"heartbeat"}, target : Worker, https : {TRUE}, expiry : {0, MaxTime + MaxSeconds}],
                  [route : {"issueToken"}, target : {None}, https : BOOLEAN, expiry : {0}]}

Place == [phase : {"free", "forwarded", "encrypted", "decrypting", "answered"},
          msg   : {None} \cup [route : {"setEnv", "removeEnv", "claim", "heartbeat", "issueToken"},
                               target : Name \cup Worker \cup {None},
                               https : BOOLEAN, expiry : Time],
          rows  : [Name -> Secret],
          until : Time]  \* history: see Entitled
Free  == [phase |-> "free", msg |-> None, rows |-> NoRows, until |-> 0]

\* The environment that rows stand for: the variables and their values.
Environment(rows) == [n \in {m \in Name : rows[m] # NoSecret} |-> rows[n].value]

Names == {n \in Name : secrets[n] # NoSecret}

At(r, route)      == request[r].phase = "forwarded" /\ request[r].msg.route = route
Continue(r, step) == request' = [request EXCEPT ![r].phase = step]
End(r)            == request' = [request EXCEPT ![r] = Free]

-----------------------------------------------------------------------------
(* The gateway.                                                            *)

\* Mutant: a token is good at the second of its expiry.
VerifiedOneMore(t) ==
  /\ t.key = masterKey
  /\ t.iat <= now /\ now <= t.exp
  /\ t.exp - t.iat \in 1..MaxSeconds

\* verifyWorkerToken
Verified(t) ==
  /\ t.key = masterKey
  /\ t.iat <= now /\ now < t.exp
  /\ t.exp - t.iat \in 1..MaxSeconds

\* workerRouteAllowed, for the routes of this module.
workerRouteAllowed(route) == route \in {"claim", "heartbeat"}

\* History: how long the token that a request comes with entitles its bearer,
\* and 0 when it does not, being of another queue, of another key or too old.
Entitled(t) ==
  IF t.queue = "this" /\ t.key = masterKey /\ now - t.iat < t.seconds
  THEN t.iat + t.seconds ELSE 0

Forwarded(msg, until) ==
  [Free EXCEPT !.phase = "forwarded", !.msg = msg, !.until = until]

\* The master key opens every route; the client's header is deleted.
ForwardAdmin(r, msg) ==
  /\ request[r].phase = "free"
  /\ request' = [request EXCEPT ![r] = Forwarded([msg EXCEPT !.expiry = 0], 0)]
  /\ UNCHANGED tables

\* A token opens the routes of a worker of its queue; a heartbeat takes the
\* expiry of the token along (other routes do not look at it).
ForwardWorker(r, msg, t) ==
  /\ request[r].phase = "free"
  /\ Verified(t) /\ t.queue = "this" /\ workerRouteAllowed(msg.route)
  /\ request' = [request EXCEPT ![r] = Forwarded(
                   [msg EXCEPT !.expiry = IF msg.route = "heartbeat" THEN t.exp ELSE 0], Entitled(t))]
  /\ UNCHANGED tables

\* Mutant: the lifetime is counted from the next second.
IssueLonger(r, seconds) ==
  /\ At(r, "issueToken") /\ request[r].msg.https
  /\ tokens' = tokens \cup {[key |-> masterKey, queue |-> "this", iat |-> now,
                             exp |-> now + seconds + 1, seconds |-> seconds]}
  /\ End(r)
  /\ UNCHANGED <<vars, secrets, masterKey, now, observed>>

\* POST /auth/worker-token, for the duration in its body.
IssueToken(r, seconds) ==
  /\ At(r, "issueToken") /\ request[r].msg.https
  /\ Cardinality(tokens) < MaxTokens
  /\ tokens' = tokens \cup {[key |-> masterKey, queue |-> "this", iat |-> now,
                             exp |-> now + seconds, seconds |-> seconds]}
  /\ End(r)
  /\ UNCHANGED <<vars, secrets, masterKey, now, observed>>

-----------------------------------------------------------------------------
(* The environment of the queue.                                           *)

\* QueueSecrets.set imports the key and encrypts ...
Encrypt(r) ==
  /\ At(r, "setEnv") /\ request[r].msg.https /\ masterKey \in EncryptionKey
  /\ Continue(r, "encrypted")
  /\ UNCHANGED tables

\* Mutant: the transaction does not check the limit.
StoreAnyway(r) ==
  /\ request[r].phase = "encrypted"
  /\ secrets' = [secrets EXCEPT ![request[r].msg.target] = [key |-> masterKey, value |-> r]]
  /\ End(r)
  /\ UNCHANGED <<vars, masterKey, tokens, now, observed>>

\* ... and then, in one transaction, checks the limit and writes.
Store(r) ==
  LET name == request[r].msg.target
  IN  /\ request[r].phase = "encrypted"
      /\ name \in Names \/ Cardinality(Names) < MaxVariables
      /\ secrets' = [secrets EXCEPT ![name] = [key |-> masterKey, value |-> r]]
      /\ End(r)
      /\ UNCHANGED <<vars, masterKey, tokens, now, observed>>

RemoveEnv(r) ==
  /\ At(r, "removeEnv") /\ request[r].msg.https
  /\ secrets' = [secrets EXCEPT ![request[r].msg.target] = NoSecret]
  /\ End(r)
  /\ UNCHANGED <<vars, masterKey, tokens, now, observed>>

-----------------------------------------------------------------------------
(* Requests of a worker.                                                   *)

\* Mutant: without COALESCE.
BeatOverwrites(r) ==
  LET msg == request[r].msg
  IN  /\ At(r, "heartbeat") /\ Heartbeat(msg.target)
      /\ observed' = [observed EXCEPT ![msg.target] = msg.expiry]
      /\ End(r)
      /\ UNCHANGED <<secrets, masterKey, tokens, now>>

\* heartbeat, with token_expired_time = COALESCE(?, token_expired_time)
Beat(r) ==
  LET msg == request[r].msg
  IN  /\ At(r, "heartbeat") /\ Heartbeat(msg.target)
      /\ observed' = IF msg.expiry = 0 THEN observed
                     ELSE [observed EXCEPT ![msg.target] = msg.expiry]
      /\ End(r)
      /\ UNCHANGED <<secrets, masterKey, tokens, now>>

\* Mutant: the job is claimed before the environment is decrypted.
ReadAndClaim(r) ==
  /\ At(r, "claim") /\ Claim(request[r].msg.target)
  /\ Names = {} \/ request[r].msg.https
  /\ request' = [request EXCEPT ![r] = [@ EXCEPT !.phase = "decrypting", !.rows = secrets]]
  /\ UNCHANGED <<secrets, masterKey, tokens, now, observed>>

\* A claim checks the worker and the protocol and reads the rows, ...
ReadRows(r) ==
  /\ At(r, "claim") /\ Registered(request[r].msg.target)
  /\ Names = {} \/ request[r].msg.https
  /\ request' = [request EXCEPT ![r] = [@ EXCEPT !.phase = "decrypting", !.rows = secrets]]
  /\ UNCHANGED tables

\* Whether environment() returns: there is nothing to decrypt, or the key is
\* one to decrypt with and is the one that encrypted every row.
Decrypts(rows) ==
  \A n \in Name : rows[n] # NoSecret =>
    masterKey \in EncryptionKey /\ rows[n].key = masterKey

\* Mutant: rows that come into being during the decryption are read, too.
CursorRows(r) ==
  [n \in Name |-> IF request[r].rows[n] = NoSecret THEN secrets[n] ELSE request[r].rows[n]]

\* The rows a claim decrypts: toArray() has read them before the first await.
FetchedRows(r) == request[r].rows

HasJob(table, w) == table[w].current_job_id # NoJob

\* ... awaits the decryption, claims, and answers with the job, if there is one,
\* and then with the environment.
ClaimJob(r) ==
  /\ request[r].phase = "decrypting"
  /\ Decrypts(FetchedRows(r)) /\ Claim(request[r].msg.target)
  /\ request' = [request EXCEPT ![r] = [@ EXCEPT !.phase = "answered",
                   !.rows = IF HasJob(workers', request[r].msg.target) THEN FetchedRows(r) ELSE NoRows]]
  /\ UNCHANGED <<secrets, masterKey, tokens, now, observed>>

\* Plain HTTP (400), an unknown worker (404), an unusable key (503), a full
\* table (409) or a row that this key does not decrypt (503).
Refused(r) ==
  LET msg == request[r].msg
  IN  CASE request[r].phase = "forwarded" ->
             \/ ~msg.https /\ msg.route \in {"setEnv", "removeEnv", "issueToken"}
             \/ ~msg.https /\ msg.route = "claim" /\ Names # {}
             \/ msg.route \in {"claim", "heartbeat"} /\ ~Registered(msg.target)
             \/ msg.route = "setEnv" /\ masterKey \notin EncryptionKey
        [] request[r].phase = "encrypted" ->
             msg.target \notin Names /\ Cardinality(Names) >= MaxVariables
        [] request[r].phase = "decrypting" -> ~Decrypts(FetchedRows(r))
        [] OTHER -> FALSE

\* A request ends with an error, or its answer has been sent.
Leave(r) ==
  /\ Refused(r) \/ request[r].phase = "answered"
  /\ End(r)
  /\ UNCHANGED tables

-----------------------------------------------------------------------------
\* Requests that Scheduler takes whole.
Elsewhere ==
  /\ \/ Submit
     \/ \E w \in Worker : Register(w) \/ \E i \in JobId : FinishRunning(i, w, "failed")
  /\ UNCHANGED <<secrets, masterKey, tokens, now, observed, request>>

\* A deployment with another key ends the requests under way.
Deploy(k) ==
  /\ k # masterKey
  /\ masterKey' = k
  /\ request' = [r \in Request |-> Free]
  /\ UNCHANGED <<vars, secrets, tokens, now, observed>>

Clock ==
  /\ now < MaxTime
  /\ now' = now + 1
  /\ UNCHANGED <<vars, secrets, masterKey, tokens, observed, request>>

RequestStep(r) ==
  \/ \E msg \in Message : ForwardAdmin(r, msg) \/ \E t \in tokens : ForwardWorker(r, msg, t)
  \/ \E seconds \in 1..MaxSeconds : IssueToken(r, seconds)
  \/ Encrypt(r) \/ Store(r) \/ RemoveEnv(r)
  \/ Beat(r) \/ ReadRows(r) \/ ClaimJob(r) \/ Leave(r)

\* Keeps what a claim under way could have read.
Watch ==
  seen' = [r \in Request |->
    IF request'[r].phase \in {"forwarded", "decrypting"} /\ request'[r].msg.route = "claim"
    THEN seen[r] \cup {Environment(secrets')} ELSE {}]

AccessNext ==
  /\ \/ \E r \in Request : RequestStep(r)
     \/ Elsewhere \/ Clock \/ \E k \in Key : Deploy(k)
  /\ Watch

\* A queue as it was created, and a token for another queue.
AccessInit ==
  /\ Init
  /\ masterKey \in EncryptionKey
  /\ secrets = NoRows
  /\ tokens = {[key |-> masterKey, queue |-> "other", iat |-> 0, exp |-> 1, seconds |-> 1]}
  /\ now = 0
  /\ observed = [w \in Worker |-> 0]
  /\ request = [r \in Request |-> Free]
  /\ seen = [r \in Request |-> {}]

AccessSpec == AccessInit /\ [][AccessNext]_allVars

-----------------------------------------------------------------------------
(* What must hold of the requests and of what they leave behind.           *)

AccessTypeOK ==
  /\ secrets \in [Name -> Secret]
  /\ masterKey \in Key
  /\ tokens \subseteq Token
  /\ now \in 0..MaxTime
  /\ observed \in [Worker -> Time]
  /\ request \in [Request -> Place]

\* Requests that set variables at the same time do not pass the limit together.
LimitKept == Cardinality(Names) <= MaxVariables

\* The environment a claim is answered with was that of the queue, all of it at
\* one moment between the arrival and the answer: no value from before the
\* request, no mixture of before and after a change.
EnvironmentIsSnapshot ==
  [][\A r \in Request :
       /\ request[r].phase = "decrypting" /\ request'[r].phase = "answered"
       /\ HasJob(workers', request[r].msg.target)
       => Environment(request'[r].rows) \in seen[r]]_allVars

\* A job is assigned in the step that answers a claim, with an environment that
\* could be decrypted: a wrong key or a damaged row leaves every job in the
\* queue (router.ts: "configuration/ciphertext failures must not assign a job").
AssignedWithEnvironment ==
  [][(\E i \in JobId : Queued(i) /\ Running(i)')
       => \E r \in Request : /\ request[r].phase = "decrypting"
                             /\ request'[r].phase = "answered"
                             /\ Decrypts(request'[r].rows)]_allVars

\* No variable leaves the controller over plain HTTP, also when the first one
\* is set while a claim is under way.
ValuesOnlyOverHttps ==
  \A r \in Request :
    request[r].phase = "answered" /\ request[r].rows # NoRows => request[r].msg.https

\* A token is accepted from its issue for exactly the seconds that were asked
\* for, as long as the controller keeps the master key that signed it.
TokensLastAsAsked ==
  \A t \in tokens : Verified(t) <=> t.key = masterKey /\ now - t.iat < t.seconds

\* A heartbeat of worker w is carried out: it is neither refused nor ended by a
\* deployment.
Beats(r, w) ==
  /\ At(r, "heartbeat") /\ request[r].msg.target = w /\ Registered(w)
  /\ request'[r].phase = "free" /\ masterKey' = masterKey

\* The expiry shown for a worker is that of the last heartbeat of it that came
\* with a token, and that token was good for this queue when it came.  Nothing
\* else touches the column: no header of the client, no token that the gateway
\* should have refused, and no heartbeat with the master key, which leaves the
\* expiry as it is.
ObservedExpiryIsReal ==
  [][\A w \in Worker :
       \/ /\ observed'[w] = observed[w]
          /\ \A r \in Request : Beats(r, w) => request[r].until \in {0, observed[w]}
       \/ \E r \in Request :
            Beats(r, w) /\ request[r].until # 0 /\ observed'[w] = request[r].until]_allVars
=============================================================================
