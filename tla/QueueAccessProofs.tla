------------------------- MODULE QueueAccessProofs -------------------------
(***************************************************************************)
(* Proofs about requests on their way to a queue, for every number of      *)
(* requests under way, every set of variables, keys and workers and every  *)
(* limit.  A request that awaits finds tables that others have changed, so *)
(* the argument says what a request still knows of them at each place.     *)
(***************************************************************************)
EXTENDS QueueAccess, SchedulerProofs

USE SchedulerConstants, QueueAccessConstants

-----------------------------------------------------------------------------
(* The inductive invariant.                                                *)

\* What the gateway passes on: a request for something that its route is about.
Passed == {m \in [route : {"setEnv", "removeEnv", "claim", "heartbeat", "issueToken"},
                  target : Name \cup Worker \cup {None}, https : BOOLEAN, expiry : Time] :
             /\ m.route \in {"setEnv", "removeEnv"} => m.target \in Name
             /\ m.route \in {"claim", "heartbeat"} => m.target \in Worker}

\* What holds of a request under way, wherever it is: it is at a place of its
\* route, a heartbeat brings the expiry that its token entitled it to when it
\* came, and a claim has read rows only over https or when there were none.
Sound(p) ==
  /\ p \in Place
  /\ p.phase # "free" => /\ p.msg \in Passed
                         /\ p.msg.route = "heartbeat" => p.msg.expiry = p.until
  /\ p.phase = "encrypted" => p.msg.route = "setEnv"
  /\ p.phase \in {"decrypting", "answered"} =>
       p.msg.route = "claim" /\ (p.rows # NoRows => p.msg.https)

\* A token says when it was issued and for how long.
TokenOK(t) == t \in Token /\ t.iat <= now /\ t.exp = t.iat + t.seconds

\* The rows that a claim decrypts stand for an environment the queue has had
\* since the claim arrived.
RowsWereThere ==
  \A r \in Request : request[r].phase = "decrypting" => Environment(request[r].rows) \in seen[r]

StoreInv ==
  /\ secrets \in [Name -> Secret] /\ masterKey \in Key
  /\ now \in 0..MaxTime
  /\ \A t \in tokens : TokenOK(t)
  /\ IsFiniteSet(Names) /\ LimitKept

ObservedInv == observed \in [Worker -> Time]

RequestInv ==
  /\ request \in [Request -> Place]
  /\ \A r \in Request : Sound(request[r])

AccessInv == StoreInv /\ ObservedInv /\ RequestInv /\ RowsWereThere

-----------------------------------------------------------------------------
(* Lemmas about places, messages and rows.                                 *)

\* No variable is set in a queue that has none.
LEMMA NoRowsType ==
  /\ NoRows \in [Name -> Secret]
  /\ \A n \in Name : NoRows[n] = NoSecret
  /\ NoSecret \in Secret
BY DEF NoRows, NoSecret, Secret

\* A place that is free is a sound one.
LEMMA FreeSound == Free \in Place /\ Free.phase = "free" /\ Sound(Free)
BY NoRowsType DEF Free, Place, Sound, Time

\* A message with another expiry is still about the same thing.
LEMMA MessagePassed ==
  ASSUME NEW msg \in Message, NEW e \in Time
  PROVE  /\ [msg EXCEPT !.expiry = e] \in Passed
         /\ [msg EXCEPT !.expiry = e].expiry = e
         /\ [msg EXCEPT !.expiry = e].route = msg.route
<1> DEFINE Any == [route : {"setEnv", "removeEnv", "claim", "heartbeat", "issueToken"},
                   target : Name \cup Worker \cup {None}, https : BOOLEAN, expiry : Time]
<1>1. 0 \in Time /\ MaxTime + MaxSeconds \in Time
  BY DEF Time
<1>2. /\ msg \in Any
      /\ msg.route \in {"setEnv", "removeEnv"} => msg.target \in Name
      /\ msg.route \in {"claim", "heartbeat"} => msg.target \in Worker
  <2>1. CASE msg \in [route : {"setEnv", "removeEnv"}, target : Name, https : BOOLEAN, expiry : {0}]
    BY <1>1, <2>1
  <2>2. CASE msg \in [route : {"claim"}, target : Worker, https : BOOLEAN, expiry : {0}]
    BY <1>1, <2>2
  <2>3. CASE msg \in [route : {"heartbeat"}, target : Worker, https : {TRUE},
                      expiry : {0, MaxTime + MaxSeconds}]
    BY <1>1, <2>3
  <2>4. CASE msg \in [route : {"issueToken"}, target : {None}, https : BOOLEAN, expiry : {0}]
    BY <1>1, <2>4
  <2> QED BY <2>1, <2>2, <2>3, <2>4 DEF Message
<1>3. /\ [msg EXCEPT !.expiry = e] \in Any
      /\ [msg EXCEPT !.expiry = e].expiry = e
      /\ [msg EXCEPT !.expiry = e].route = msg.route
      /\ [msg EXCEPT !.expiry = e].target = msg.target
  BY <1>2
<1> QED BY <1>2, <1>3 DEF Passed

\* What the gateway forwards is sound when the expiry of a heartbeat is what it
\* is entitled to.
LEMMA ForwardedSound ==
  ASSUME NEW msg \in Message, NEW e \in Time, NEW u \in Time, msg.route = "heartbeat" => e = u
  PROVE  /\ Sound(Forwarded([msg EXCEPT !.expiry = e], u))
         /\ Forwarded([msg EXCEPT !.expiry = e], u).phase = "forwarded"
<1> DEFINE m == [msg EXCEPT !.expiry = e]
<1>1. m \in Passed /\ m.expiry = e /\ m.route = msg.route
  BY MessagePassed
<1> HIDE DEF m
<1>2. Free.rows = NoRows
  BY DEF Free
<1>3. /\ Forwarded(m, u) \in Place /\ Forwarded(m, u).phase = "forwarded"
      /\ Forwarded(m, u).msg = m /\ Forwarded(m, u).until = u
  BY <1>1, <1>2, FreeSound, NoRowsType DEF Forwarded, Place, Passed
<1>4. Sound(Forwarded(m, u)) /\ Forwarded(m, u).phase = "forwarded"
  BY <1>1, <1>2, <1>3 DEF Sound
<1> QED BY <1>4 DEF m

\* The rows of a queue without variables are no rows.
LEMMA NoNamesNoRows ==
  ASSUME secrets \in [Name -> Secret], Names = {} PROVE secrets = NoRows
BY DEF Names, NoRows

-----------------------------------------------------------------------------
(* What a step makes of the place of its request.                          *)

\* Request r is at place q after the step, and knows what it should know there.
Moves(r, q) ==
  /\ request' = [request EXCEPT ![r] = q]
  /\ Sound(q)
  /\ q.phase = "decrypting" => q.rows = secrets'

\* A request under way, in full.
LEMMA RequestOnItsWay ==
  ASSUME RequestInv, NEW r \in Request
  PROVE  /\ request[r] \in Place /\ Sound(request[r])
         /\ request[r].phase # "free" => request[r].msg \in Passed
         /\ \A route : At(r, route) => request[r].phase # "free" /\ request[r].msg.route = route
BY DEF RequestInv, Sound, At

\* The end of a request frees its place.
LEMMA EndMoves ==
  ASSUME NEW r \in Request, End(r) PROVE Moves(r, Free)
<1>1. Sound(Free)
  BY NoRowsType DEF Free, Place, Sound, Time
<1> QED BY <1>1, FreeSound DEF End, Moves

\* A token that the gateway accepts entitles its bearer until it expires.
LEMMA VerifiedEntitles ==
  ASSUME StoreInv, NEW t \in tokens, Verified(t), t.queue = "this"
  PROVE  Entitled(t) = t.exp /\ t.exp \in Time
<1>1. /\ now \in Int /\ t.iat \in Int /\ t.exp \in Time /\ t.seconds \in Int
      /\ t.exp = t.iat + t.seconds
  BY DEF StoreInv, TokenOK, Token, Time
<1>2. t.key = masterKey /\ now < t.exp
  BY DEF Verified
<1>3. now - t.iat < t.seconds
  BY <1>1, <1>2 DEF Time
<1> QED BY <1>1, <1>2, <1>3 DEF Entitled

\* The gateway lets a request in.
LEMMA ForwardMoves ==
  ASSUME AccessInv, NEW r \in Request, NEW msg \in Message,
         ForwardAdmin(r, msg) \/ \E t \in tokens : ForwardWorker(r, msg, t)
  PROVE  \E q : Moves(r, q)
<1> DEFINE F(e, u) == Forwarded([msg EXCEPT !.expiry = e], u)
<1>1. \E e, u \in Time : /\ msg.route = "heartbeat" => e = u
                         /\ request' = [request EXCEPT ![r] = F(e, u)]
  <2>1. 0 \in Time
    BY DEF Time
  <2>2. CASE ForwardAdmin(r, msg)
    BY <2>1, <2>2 DEF ForwardAdmin
  <2>3. CASE \E t \in tokens : ForwardWorker(r, msg, t)
    <3> PICK t \in tokens : ForwardWorker(r, msg, t)
      BY <2>3
    <3> DEFINE e == IF msg.route = "heartbeat" THEN t.exp ELSE 0
               u == Entitled(t)
    <3>1. u = t.exp /\ t.exp \in Time
      BY VerifiedEntitles DEF AccessInv, ForwardWorker
    <3>2. request' = [request EXCEPT ![r] = F(e, u)]
      BY DEF ForwardWorker
    <3> QED BY <2>1, <3>1, <3>2
  <2> QED BY <2>2, <2>3
<1>2. PICK e \in Time, u \in Time : /\ msg.route = "heartbeat" => e = u
                                   /\ request' = [request EXCEPT ![r] = F(e, u)]
  BY <1>1
<1>3. Sound(F(e, u)) /\ F(e, u).phase = "forwarded"
  BY <1>2, ForwardedSound
<1> HIDE DEF F
<1>4. Moves(r, F(e, u))
  BY <1>2, <1>3 DEF Moves
<1> QED BY <1>4

\* The value is encrypted.
LEMMA EncryptMoves ==
  ASSUME AccessInv, NEW r \in Request, Encrypt(r)
  PROVE  \E q : Moves(r, q)
<1> DEFINE p == request[r]
           q == [p EXCEPT !.phase = "encrypted"]
<1>1. p \in Place /\ Sound(p) /\ p.phase = "forwarded" /\ p.msg.route = "setEnv"
  BY RequestOnItsWay DEF AccessInv, Encrypt, At
<1>2. request' = [request EXCEPT ![r] = q]
  BY DEF Encrypt, Continue
<1>3. /\ q \in Place /\ q.phase = "encrypted" /\ q.msg = p.msg /\ q.rows = p.rows
      /\ q.until = p.until
  BY <1>1 DEF Place
<1>4. Sound(q)
  BY <1>1, <1>3 DEF Sound
<1> HIDE DEF q
<1>5. Moves(r, q)
  BY <1>2, <1>3, <1>4 DEF Moves
<1> QED BY <1>5

\* The rows are read: over https, or there are none.
LEMMA ReadRowsMoves ==
  ASSUME AccessInv, NEW r \in Request, ReadRows(r)
  PROVE  \E q : Moves(r, q)
<1> DEFINE p == request[r]
           q == [p EXCEPT !.phase = "decrypting", !.rows = secrets]
<1>1. p \in Place /\ Sound(p) /\ p.phase = "forwarded" /\ p.msg.route = "claim"
  BY RequestOnItsWay DEF AccessInv, ReadRows, At
<1>2. secrets' = secrets /\ request' = [request EXCEPT ![r] = q]
  BY DEF ReadRows, tables
<1>3. /\ q \in Place /\ q.phase = "decrypting" /\ q.msg = p.msg /\ q.rows = secrets
      /\ q.until = p.until
  BY <1>1 DEF Place, AccessInv, StoreInv
<1>4. secrets # NoRows => p.msg.https
  BY NoNamesNoRows DEF ReadRows, AccessInv, StoreInv
<1>5. Sound(q)
  BY <1>1, <1>3, <1>4 DEF Sound
<1> HIDE DEF q
<1>6. Moves(r, q)
  BY <1>2, <1>3, <1>5 DEF Moves
<1> QED BY <1>6

\* The claim is answered, with the rows it has read or with none.
LEMMA ClaimJobMoves ==
  ASSUME AccessInv, NEW r \in Request, ClaimJob(r)
  PROVE  \E q : Moves(r, q)
<1> DEFINE p == request[r]
           rows == IF HasJob(workers', p.msg.target) THEN FetchedRows(r) ELSE NoRows
           q == [p EXCEPT !.phase = "answered", !.rows = rows]
<1>1. p \in Place /\ Sound(p) /\ p.phase = "decrypting"
  BY RequestOnItsWay DEF AccessInv, ClaimJob
<1>2. request' = [request EXCEPT ![r] = q]
  BY DEF ClaimJob
<1>3. rows \in {p.rows, NoRows}
  BY DEF FetchedRows
<1> HIDE DEF rows
<1>4. /\ q \in Place /\ q.phase = "answered" /\ q.msg = p.msg /\ q.rows \in {p.rows, NoRows}
      /\ q.until = p.until
  BY <1>1, <1>3, NoRowsType DEF Place
<1>5. Sound(q)
  BY <1>1, <1>4 DEF Sound
<1> HIDE DEF q
<1>6. Moves(r, q)
  BY <1>2, <1>4, <1>5 DEF Moves
<1> QED BY <1>6

\* Every step of a request leaves it sound.
LEMMA RequestMoves ==
  ASSUME AccessInv, NEW r \in Request, RequestStep(r)
  PROVE  \E q : Moves(r, q)
<1>1. CASE \E msg \in Message : ForwardAdmin(r, msg) \/ \E t \in tokens : ForwardWorker(r, msg, t)
  BY <1>1, ForwardMoves
<1>2. CASE Encrypt(r)
  BY <1>2, EncryptMoves
<1>3. CASE ReadRows(r)
  BY <1>3, ReadRowsMoves
<1>4. CASE ClaimJob(r)
  BY <1>4, ClaimJobMoves
<1>5. CASE End(r)
  BY <1>5, EndMoves
<1> QED BY <1>1, <1>2, <1>3, <1>4, <1>5 DEF RequestStep, IssueToken, Store, RemoveEnv, Beat, Leave

-----------------------------------------------------------------------------
(* The inductive step, one part of the invariant after the other.          *)

\* What a step makes of the requests: one of them moves, all of them end with
\* a deployment, or all of them stay where they are.
LEMMA RequestsMove ==
  ASSUME AccessInv, AccessNext
  PROVE  \/ \E r \in Request : \E q : Moves(r, q)
         \/ request' = [r \in Request |-> Free]
         \/ request' = request
<1>1. CASE \E r \in Request : RequestStep(r)
  BY <1>1, RequestMoves
<1> QED BY <1>1 DEF AccessNext, Elsewhere, Clock, Deploy

\* Every request stays sound.
LEMMA RequestInvStep == ASSUME AccessInv, AccessNext PROVE RequestInv'
<1>1. /\ request \in [Request -> Place]
      /\ \A r \in Request : Sound(request[r])
  BY DEF AccessInv, RequestInv
<1>2. CASE \E r \in Request : \E q : Moves(r, q)
  <2>0. PICK r \in Request : \E q : Moves(r, q)
    BY <1>2
  <2> PICK q : Moves(r, q)
    BY <2>0
  <2>1. q \in Place /\ Sound(q) /\ request' = [request EXCEPT ![r] = q]
    BY DEF Moves, Sound
  <2>2. request' \in [Request -> Place]
    BY <1>1, <2>1
  <2>3. \A s \in Request : request'[s] = IF s = r THEN q ELSE request[s]
    BY <1>1, <2>1
  <2>4. \A s \in Request : Sound(request'[s])
    BY <1>1, <2>1, <2>3
  <2> QED BY <2>2, <2>4 DEF RequestInv
<1>3. CASE request' = [r \in Request |-> Free]
  <2>1. Free \in Place /\ Sound(Free)
    BY NoRowsType DEF Free, Place, Sound, Time
  <2> QED BY <1>3, <2>1 DEF RequestInv
<1>4. CASE request' = request
  BY <1>1, <1>4 DEF RequestInv
<1> QED BY <1>2, <1>3, <1>4, RequestsMove

\* A claim that decrypts is in sight of the history all the time.
LEMMA RowsStep == ASSUME AccessInv, AccessNext PROVE RowsWereThere'
<1> SUFFICES ASSUME NEW r \in Request, request'[r].phase = "decrypting"
             PROVE  Environment(request'[r].rows) \in seen'[r]
  BY DEF RowsWereThere
<1>1. request'[r].msg.route = "claim"
  BY RequestInvStep DEF RequestInv, Sound
<1>2. seen'[r] = seen[r] \cup {Environment(secrets')}
  BY <1>1 DEF AccessNext, Watch
<1>3. request \in [Request -> Place]
  BY DEF AccessInv, RequestInv
<1>4. CASE request'[r] = request[r]
  BY <1>2, <1>4 DEF AccessInv, RowsWereThere
<1>5. CASE request'[r] # request[r]
  <2>1. \E q : Moves(r, q)
    <3>1. request' # [s \in Request |-> Free]
      BY FreeSound
    <3>2. PICK s \in Request : \E q : Moves(s, q)
      BY <1>5, <3>1, RequestsMove
    <3>3. s = r
      BY <1>3, <1>5, <3>2 DEF Moves
    <3> QED BY <3>2, <3>3
  <2>2. request'[r].rows = secrets'
    BY <1>3, <2>1 DEF Moves
  <2> QED BY <1>2, <2>2
<1> QED BY <1>4, <1>5

\* The limit is checked in the transaction that writes: it is kept however
\* many requests were encrypting at the time.
LEMMA StoreKeepsLimit ==
  ASSUME StoreInv, RequestInv, NEW r \in Request, Store(r)
  PROVE  secrets' \in [Name -> Secret] /\ IsFiniteSet(Names)' /\ LimitKept'
<1> DEFINE name == request[r].msg.target
           new  == [key |-> masterKey, value |-> r]
<1>1. name \in Name
  BY DEF RequestInv, Sound, Passed, Store
<1>2. new \in Secret /\ new # NoSecret
  BY DEF StoreInv, Secret, NoSecret
<1>3. secrets' = [secrets EXCEPT ![name] = new]
  BY DEF Store
<1> HIDE DEF name, new
<1>4. secrets' \in [Name -> Secret]
  BY <1>1, <1>2, <1>3 DEF StoreInv
<1>5. Names' = Names \cup {name}
  BY <1>1, <1>2, <1>3 DEF StoreInv, Names
<1>6. IsFiniteSet(Names)
  BY DEF StoreInv
<1>7. IsFiniteSet(Names')
  BY <1>5, <1>6, FS_AddElement
<1>8. Cardinality(Names') <= MaxVariables
  <2>1. CASE name \in Names
    BY <1>5, <2>1 DEF StoreInv, LimitKept
  <2>2. CASE name \notin Names
    <3>1. Cardinality(Names) \in Nat /\ Cardinality(Names) < MaxVariables
      BY <1>6, <2>2, FS_CardinalityType DEF Store, name
    <3>2. Cardinality(Names') = Cardinality(Names) + 1
      BY <1>5, <1>6, <2>2, FS_AddElement
    <3> QED BY <3>1, <3>2
  <2> QED BY <2>1, <2>2
<1> QED BY <1>4, <1>7, <1>8 DEF LimitKept

\* A deletion makes room.
LEMMA RemoveKeepsLimit ==
  ASSUME StoreInv, NEW r \in Request, RemoveEnv(r)
  PROVE  secrets' \in [Name -> Secret] /\ IsFiniteSet(Names)' /\ LimitKept'
<1>1. secrets' \in [Name -> Secret]
  BY NoRowsType DEF RemoveEnv, StoreInv
<1>2. Names' \subseteq Names
  BY DEF RemoveEnv, StoreInv, Names
<1>3. IsFiniteSet(Names) /\ Cardinality(Names) <= MaxVariables
  BY DEF StoreInv, LimitKept
<1>4. IsFiniteSet(Names') /\ Cardinality(Names') <= Cardinality(Names)
  BY <1>2, <1>3, FS_Subset
<1>5. Cardinality(Names) \in Nat /\ Cardinality(Names') \in Nat
  BY <1>3, <1>4, FS_CardinalityType
<1> QED BY <1>1, <1>3, <1>4, <1>5 DEF LimitKept

\* The limit is kept while nobody touches the rows.
LEMMA SameRowsKeepLimit ==
  ASSUME StoreInv, secrets' = secrets
  PROVE  secrets' \in [Name -> Secret] /\ IsFiniteSet(Names)' /\ LimitKept'
BY DEF StoreInv, LimitKept, Names

\* Tokens stay as they were issued, and the clock does not run backwards.
LEMMA TokensStep ==
  ASSUME StoreInv, AccessNext
  PROVE  now' \in 0..MaxTime /\ \A t \in tokens' : TokenOK(t)'
<1>1. now \in 0..MaxTime /\ \A t \in tokens : TokenOK(t)
  BY DEF StoreInv
<1>2. now' \in 0..MaxTime /\ now' >= now
  <2>1. now' = now \/ Clock
    BY DEF AccessNext, RequestStep, ForwardAdmin, ForwardWorker, IssueToken, Encrypt, Store,
           RemoveEnv, Beat, ReadRows, ClaimJob, Leave, Elsewhere, Deploy, tables
  <2> QED BY <1>1, <2>1 DEF Clock
<1>3. \A t \in tokens : TokenOK(t)'
  BY <1>1, <1>2 DEF TokenOK, Token, Time
<1>4. CASE tokens' = tokens
  BY <1>2, <1>3, <1>4
<1>5. CASE \E r \in Request, seconds \in 1..MaxSeconds : IssueToken(r, seconds)
  <2> PICK r \in Request, seconds \in 1..MaxSeconds : IssueToken(r, seconds)
    BY <1>5
  <2> DEFINE t == [key |-> masterKey, queue |-> "this", iat |-> now, exp |-> now + seconds,
                   seconds |-> seconds]
  <2>1. tokens' = tokens \cup {t} /\ now' = now
    BY DEF IssueToken
  <2>2. now \in Time /\ now + seconds \in Time /\ masterKey \in Key
    BY <1>1 DEF Time, StoreInv
  <2>3. t \in Token /\ t.iat = now /\ t.exp = t.iat + t.seconds
    BY <2>2 DEF Token
  <2> HIDE DEF t
  <2>4. \A u \in tokens' : u \in tokens \/ u = t
    BY <2>1
  <2>5. \A u \in tokens' : u \in Token /\ u.iat <= now' /\ u.exp = u.iat + u.seconds
    BY <1>1, <2>1, <2>3, <2>4 DEF TokenOK
  <2> QED BY <1>2, <2>5 DEF TokenOK
<1> QED BY <1>4, <1>5 DEF AccessNext, RequestStep, ForwardAdmin, ForwardWorker, Encrypt, Store,
       RemoveEnv, Beat, ReadRows, ClaimJob, Leave, Elsewhere, Clock, Deploy, tables

\* The tables of secrets and tokens.
LEMMA StoreInvStep == ASSUME AccessInv, AccessNext PROVE StoreInv'
<1>1. masterKey' \in Key
  BY DEF AccessInv, StoreInv, AccessNext, RequestStep, ForwardAdmin, ForwardWorker, IssueToken,
       Encrypt, Store, RemoveEnv, Beat, ReadRows, ClaimJob, Leave, Elsewhere, Clock, Deploy, tables
<1>2. secrets' \in [Name -> Secret] /\ IsFiniteSet(Names)' /\ LimitKept'
  <2>1. CASE \E r \in Request : Store(r)
    BY <2>1, StoreKeepsLimit DEF AccessInv
  <2>2. CASE \E r \in Request : RemoveEnv(r)
    BY <2>2, RemoveKeepsLimit DEF AccessInv
  <2>3. CASE secrets' = secrets
    BY <2>3, SameRowsKeepLimit DEF AccessInv
  <2> QED BY <2>1, <2>2, <2>3 DEF AccessNext, RequestStep, ForwardAdmin, ForwardWorker, IssueToken,
       Encrypt, Beat, ReadRows, ClaimJob, Leave, Elsewhere, Clock, Deploy, tables
<1> QED BY <1>1, <1>2, TokensStep DEF StoreInv, AccessInv

\* A heartbeat records the expiry it has brought.
LEMMA ObservedInvStep == ASSUME AccessInv, AccessNext PROVE ObservedInv'
<1>1. observed \in [Worker -> Time]
  BY DEF AccessInv, ObservedInv
<1>2. CASE observed' = observed
  BY <1>1, <1>2 DEF ObservedInv
<1>3. CASE \E r \in Request : Beat(r)
  <2> PICK r \in Request : Beat(r)
    BY <1>3
  <2>1. request[r].msg \in Passed /\ request[r].msg.route = "heartbeat"
    BY RequestOnItsWay DEF AccessInv, Beat
  <2>2. request[r].msg.expiry \in Time
    BY <2>1 DEF Passed
  <2> QED BY <1>1, <2>2 DEF Beat, ObservedInv
<1> QED BY <1>2, <1>3 DEF AccessNext, RequestStep, ForwardAdmin, ForwardWorker, IssueToken, Encrypt,
       Store, RemoveEnv, ReadRows, ClaimJob, Leave, Elsewhere, Clock, Deploy, tables

\* A queue as it was created.
LEMMA AccessInitInv == ASSUME AccessInit PROVE AccessInv
<1>1. Names = {}
  BY NoRowsType DEF AccessInit, Names
<1>2. IsFiniteSet(Names) /\ LimitKept
  BY <1>1, FS_EmptySet DEF LimitKept
<1>3. 0 \in Time /\ 1 \in Time
  BY DEF Time
<1>4. \A t \in tokens : TokenOK(t)
  <2> DEFINE t == [key |-> masterKey, queue |-> "other", iat |-> 0, exp |-> 1, seconds |-> 1]
  <2>1. tokens = {t} /\ masterKey \in Key /\ now = 0
    BY DEF AccessInit
  <2>2. t \in Token /\ t.iat = 0 /\ t.exp = 1 /\ t.seconds = 1
    BY <1>3, <2>1 DEF Token
  <2> HIDE DEF t
  <2>3. TokenOK(t)
    BY <2>1, <2>2 DEF TokenOK
  <2> QED BY <2>1, <2>3
<1>5. StoreInv
  BY <1>2, <1>4, NoRowsType DEF AccessInit, StoreInv
<1>6. ObservedInv
  BY <1>3 DEF AccessInit, ObservedInv
<1>7. RequestInv /\ RowsWereThere
  BY FreeSound DEF AccessInit, RequestInv, RowsWereThere
<1> QED BY <1>5, <1>6, <1>7 DEF AccessInv

\* Nothing changes while nothing happens.
LEMMA AccessStutter == ASSUME AccessInv, UNCHANGED allVars PROVE AccessInv'
BY DEF AccessInv, StoreInv, ObservedInv, RequestInv, RowsWereThere, TokenOK, LimitKept, Names,
       allVars, tables

\* The inductive invariant holds of every state of every behaviour.
THEOREM AccessInvariance == AccessSpec => []AccessInv
<1>1. AccessInit => AccessInv
  BY AccessInitInv
<1>2. AccessInv /\ [AccessNext]_allVars => AccessInv'
  BY StoreInvStep, ObservedInvStep, RequestInvStep, RowsStep, AccessStutter DEF AccessInv
<1> QED BY <1>1, <1>2, PTL DEF AccessSpec

\* Every variable of the requests under way keeps to its values.
THEOREM AccessTypeCorrect == AccessSpec => []AccessTypeOK
<1>1. AccessInv => AccessTypeOK
  BY DEF AccessInv, StoreInv, ObservedInv, RequestInv, TokenOK, AccessTypeOK
<1> QED BY <1>1, AccessInvariance, PTL

\* Requests that set variables at the same time do not pass the limit together:
\* QueueSecrets.set counts the rows in the transaction that writes.
THEOREM LimitAlwaysKept == AccessSpec => []LimitKept
<1>1. AccessInv => LimitKept
  BY DEF AccessInv, StoreInv
<1> QED BY <1>1, AccessInvariance, PTL

\* No variable leaves the controller over plain HTTP, also when the first one
\* is set while a claim is under way.
THEOREM ValuesAlwaysOverHttps == AccessSpec => []ValuesOnlyOverHttps
<1>1. AccessInv => ValuesOnlyOverHttps
  BY DEF AccessInv, RequestInv, Sound, ValuesOnlyOverHttps
<1> QED BY <1>1, AccessInvariance, PTL

\* A token is accepted from its issue for exactly the seconds that were asked
\* for, as long as the controller keeps the master key that signed it.
THEOREM TokensAlwaysLastAsAsked == AccessSpec => []TokensLastAsAsked
<1>1. AccessInv => TokensLastAsAsked
  <2> SUFFICES ASSUME AccessInv, NEW t \in tokens
               PROVE  Verified(t) <=> t.key = masterKey /\ now - t.iat < t.seconds
    BY DEF TokensLastAsAsked
  <2>1. /\ now \in Int /\ t.iat \in Int /\ t.exp \in Int /\ t.seconds \in 1..MaxSeconds
        /\ t.iat <= now /\ t.exp = t.iat + t.seconds
    BY DEF AccessInv, StoreInv, TokenOK, Token, Time
  <2>2. t.exp - t.iat \in 1..MaxSeconds
    BY <2>1
  <2>3. now < t.exp <=> now - t.iat < t.seconds
    BY <2>1
  <2> QED BY <2>1, <2>2, <2>3 DEF Verified
<1> QED BY <1>1, AccessInvariance, PTL

-----------------------------------------------------------------------------
(* What the steps may do.                                                  *)

\* Only the answer to a claim moves a request from decrypting to answered.
LEMMA AnswersAreClaims ==
  ASSUME AccessInv, AccessNext, NEW r \in Request,
         request[r].phase = "decrypting", request'[r].phase = "answered"
  PROVE  ClaimJob(r)
<1>1. request \in [Request -> Place]
  BY DEF AccessInv, RequestInv
<1>2. PICK s \in Request : RequestStep(s)
  BY FreeSound DEF AccessNext, Elsewhere, Clock, Deploy
<1>3. \E q : request' = [request EXCEPT ![s] = q]
  BY <1>2, RequestMoves DEF Moves
<1>4. s = r
  BY <1>1, <1>3
<1> QED BY <1>1, <1>2, <1>4, FreeSound
    DEF RequestStep, ForwardAdmin, ForwardWorker, IssueToken, Encrypt, Store, RemoveEnv, Beat,
        ReadRows, Leave, At, End

\* The environment a claim is answered with was that of the queue, all of it at
\* one moment between the arrival and the answer.
THEOREM EnvironmentAlwaysSnapshot == AccessSpec => EnvironmentIsSnapshot
<1>1. AccessInv /\ [AccessNext]_allVars =>
        [\A r \in Request :
           /\ request[r].phase = "decrypting" /\ request'[r].phase = "answered"
           /\ HasJob(workers', request[r].msg.target)
           => Environment(request'[r].rows) \in seen[r]]_allVars
  <2> SUFFICES ASSUME AccessInv, AccessNext, NEW r \in Request,
                      request[r].phase = "decrypting", request'[r].phase = "answered",
                      HasJob(workers', request[r].msg.target)
               PROVE  Environment(request'[r].rows) \in seen[r]
    OBVIOUS
  <2>1. ClaimJob(r) /\ request \in [Request -> Place]
    BY AnswersAreClaims DEF AccessInv, RequestInv
  <2>2. request'[r] = [request[r] EXCEPT !.phase = "answered", !.rows = request[r].rows]
    BY <2>1 DEF ClaimJob, FetchedRows
  <2>3. request'[r].rows = request[r].rows
    BY <2>1, <2>2 DEF Place
  <2> QED BY <2>3 DEF AccessInv, RowsWereThere
<1> QED BY <1>1, AccessInvariance, PTL DEF AccessSpec, EnvironmentIsSnapshot

\* Only Beat carries out a heartbeat, and it ends that request and no other.
LEMMA BeatsAreBeat ==
  ASSUME AccessInv, AccessNext, NEW r \in Request, NEW w \in Worker, Beats(r, w)
  PROVE  Beat(r) /\ \A s \in Request : Beat(s) => s = r
<1>1. request \in [Request -> Place] /\ request'[r] # request[r]
  BY DEF AccessInv, RequestInv, Beats, At
<1>2. PICK s \in Request : RequestStep(s)
  BY <1>1 DEF AccessNext, Elsewhere, Clock, Deploy, Beats
<1>3. \E q : request' = [request EXCEPT ![s] = q]
  BY <1>2, RequestMoves DEF Moves
<1>4. s = r
  BY <1>1, <1>3
<1>5. ~Refused(r)
  BY DEF Beats, At, Refused
<1>6. Beat(r)
  BY <1>2, <1>4, <1>5 DEF RequestStep, ForwardAdmin, ForwardWorker, IssueToken, Encrypt, Store,
     RemoveEnv, ReadRows, ClaimJob, Leave, Beats, At
<1>7. \A u \in Request : Beat(u) => request' = [request EXCEPT ![u] = Free]
  BY DEF Beat, End
<1> QED BY <1>1, <1>6, <1>7

\* The expiry shown for a worker is that of the last heartbeat of it that came
\* with a token, and that token was good for this queue when it came; no header
\* and no heartbeat with the master key touches it (scheduler.ts, heartbeat).
THEOREM ObservedExpiryAlwaysReal == AccessSpec => ObservedExpiryIsReal
<1>1. AccessInv /\ [AccessNext]_allVars =>
        [\A w \in Worker :
           \/ /\ observed'[w] = observed[w]
              /\ \A r \in Request : Beats(r, w) => request[r].until \in {0, observed[w]}
           \/ \E r \in Request :
                Beats(r, w) /\ request[r].until # 0 /\ observed'[w] = request[r].until]_allVars
  <2> SUFFICES ASSUME AccessInv, AccessNext, NEW w \in Worker
               PROVE  \/ /\ observed'[w] = observed[w]
                         /\ \A r \in Request : Beats(r, w) => request[r].until \in {0, observed[w]}
                      \/ \E r \in Request : /\ Beats(r, w) /\ request[r].until # 0
                                             /\ observed'[w] = request[r].until
    OBVIOUS
  <2>1. CASE \E r \in Request : Beat(r)
    <3> PICK r \in Request : Beat(r)
      BY <2>1
    <3> DEFINE v == request[r].msg.target
    <3>1. /\ request[r].msg.expiry = request[r].until /\ v \in Worker
          /\ request \in [Request -> Place] /\ observed \in [Worker -> Time]
      BY RequestOnItsWay DEF AccessInv, Beat, Sound, Passed, RequestInv, ObservedInv
    <3>2. /\ At(r, "heartbeat") /\ Registered(v) /\ request'[r] = Free /\ masterKey' = masterKey
          /\ observed' = IF request[r].until = 0 THEN observed
                         ELSE [observed EXCEPT ![v] = request[r].until]
      BY <3>1 DEF Beat, Heartbeat, End
    <3>3. Beats(r, v)
      BY <3>2, FreeSound DEF Beats
    <3>4. \A s \in Request, u \in Worker : Beats(s, u) => s = r /\ u = v
      BY BeatsAreBeat DEF Beats
    <3> HIDE DEF v
    <3>5. CASE request[r].until = 0
      BY <3>2, <3>4, <3>5
    <3>6. CASE request[r].until # 0 /\ w = v
      BY <3>1, <3>2, <3>3, <3>6
    <3>7. CASE request[r].until # 0 /\ w # v
      BY <3>1, <3>2, <3>4, <3>7
    <3> QED BY <3>5, <3>6, <3>7
  <2>2. CASE ~\E r \in Request : Beat(r)
    <3>1. observed' = observed
      BY <2>2 DEF AccessNext, RequestStep, ForwardAdmin, ForwardWorker, IssueToken, Encrypt, Store,
         RemoveEnv, ReadRows, ClaimJob, Leave, Elsewhere, Clock, Deploy, tables
    <3> QED BY <2>2, <3>1, BeatsAreBeat
  <2> QED BY <2>1, <2>2
<1> QED BY <1>1, AccessInvariance, PTL DEF AccessSpec, ObservedExpiryIsReal

\* Only a claim assigns a job.
LEMMA AssignmentsAreClaims ==
  ASSUME Inv, AccessInv, AccessNext, NEW i \in JobId, Queued(i), Running(i)'
  PROVE  \E r \in Request : ClaimJob(r)
<1>1. jobs'[i] # jobs[i] /\ jobs \in [JobId -> JobRow]
  BY DEF Queued, Running, Inv, TypeOK
<1>2. ~Submit
  BY <1>1, RowType DEF Submit, Running, Inv, TypeOK
<1>3. ~\E w \in Worker, k \in JobId : FinishRunning(k, w, "failed")
  <2> SUFFICES ASSUME NEW w \in Worker, NEW k \in JobId, FinishRunning(k, w, "failed")
               PROVE  FALSE
    OBVIOUS
  <2>1. i = k
    BY <1>1 DEF FinishRunning
  <2> QED BY <2>1 DEF FinishRunning, Queued, Running
<1>4. ~Elsewhere
  BY <1>1, <1>2, <1>3 DEF Elsewhere, Register
<1>5. PICK r \in Request : RequestStep(r)
  BY <1>1, <1>4 DEF AccessNext, Clock, Deploy, vars
<1> QED BY <1>1, <1>5 DEF RequestStep, ForwardAdmin, ForwardWorker, IssueToken, Encrypt, Store,
        RemoveEnv, Beat, Heartbeat, ReadRows, Leave, tables, vars

\* The rows a claim is answered with are rows that the key decrypts.
LEMMA AnswersDecrypt ==
  ASSUME AccessInv, NEW r \in Request, ClaimJob(r)
  PROVE  /\ request[r].phase = "decrypting"
         /\ request'[r].phase = "answered"
         /\ Decrypts(request'[r].rows)
<1> DEFINE rows == IF HasJob(workers', request[r].msg.target) THEN FetchedRows(r) ELSE NoRows
<1>1. request \in [Request -> Place]
  BY DEF AccessInv, RequestInv
<1>2. /\ request[r].phase = "decrypting"
      /\ request'[r] = [request[r] EXCEPT !.phase = "answered", !.rows = rows]
  BY <1>1 DEF ClaimJob
<1>3. Decrypts(rows)
  BY NoRowsType DEF ClaimJob, Decrypts
<1> HIDE DEF rows
<1> QED BY <1>1, <1>2, <1>3 DEF Place

\* What goes through the gateway is, for the tables, what Scheduler takes whole.
LEMMA AccessSteps == ASSUME AccessInv, [AccessNext]_allVars PROVE [Next]_vars
<1>1. CASE UNCHANGED vars
  BY <1>1
<1>2. CASE \E r \in Request : Beat(r) \/ ClaimJob(r)
  <2> PICK r \in Request : Beat(r) \/ ClaimJob(r)
    BY <1>2
  <2>1. request[r].msg.target \in Worker
    BY DEF AccessInv, RequestInv, Sound, Passed, Beat, ClaimJob, At
  <2>2. Heartbeat(request[r].msg.target) \/ Claim(request[r].msg.target)
    BY DEF Beat, ClaimJob
  <2> QED BY <2>1, <2>2 DEF Next, WorkerStep
<1>3. CASE Elsewhere
  <2>1. CASE Submit
    BY <2>1 DEF Next, AdminStep
  <2>2. CASE \E w \in Worker : Register(w)
    BY <2>2 DEF Next, WorkerStep
  <2>3. CASE \E w \in Worker, i \in JobId : FinishRunning(i, w, "failed")
    BY <2>3 DEF Next, WorkerStep, Finish
  <2> QED BY <1>3, <2>1, <2>2, <2>3 DEF Elsewhere
<1> QED BY <1>1, <1>2, <1>3
    DEF AccessNext, RequestStep, ForwardAdmin, ForwardWorker, IssueToken, Encrypt, Store,
        RemoveEnv, ReadRows, Leave, Clock, Deploy, tables, allVars

\* Splitting the requests that await into their steps adds no behaviour to the
\* tables: everything proved of Scheduler holds behind the gateway, too.
THEOREM AccessImplementsScheduler == AccessSpec => Spec
<1>1. AccessInit => Init
  BY DEF AccessInit
<1>2. AccessInv /\ [AccessNext]_allVars => [Next]_vars
  BY AccessSteps
<1> QED BY <1>1, <1>2, AccessInvariance, PTL DEF AccessSpec, Spec

\* A job is assigned in the step that answers a claim, with an environment that
\* could be decrypted: a wrong key or a damaged row leaves every job queued.
THEOREM AlwaysAssignedWithEnvironment == AccessSpec => AssignedWithEnvironment
<1>1. Inv /\ AccessInv /\ [AccessNext]_allVars =>
        [(\E i \in JobId : Queued(i) /\ Running(i)')
           => \E r \in Request : /\ request[r].phase = "decrypting"
                                 /\ request'[r].phase = "answered"
                                 /\ Decrypts(request'[r].rows)]_allVars
  BY AssignmentsAreClaims, AnswersDecrypt
<1>2. AccessSpec => []Inv
  BY AccessImplementsScheduler, Invariance, PTL
<1> QED BY <1>1, <1>2, AccessInvariance, PTL DEF AccessSpec, AssignedWithEnvironment
=============================================================================
