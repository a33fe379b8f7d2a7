------------------------- MODULE CommandLineProofs -------------------------
(***************************************************************************)
(* Proofs about one invocation of the command line, for every number of    *)
(* jobs and workers and every page size.                                   *)
(***************************************************************************)
EXTENDS CommandLine, SchedulerRefinement, SequenceTheorems

-----------------------------------------------------------------------------
(* Least and greatest.                                                     *)

\* Every set of numbers that is not empty has a least one, ...
LEMMA LeastNumber == ASSUME NEW T \in SUBSET Nat, T # {} PROVE \E x \in T : \A y \in T : x <= y
<1>1. \E x \in T : \A y \in T : ~(<<y, x>> \in OpToRel(<, Nat))
  BY NatLessThanWellFounded, WFMin
<1>2. PICK x \in T : \A y \in T : ~(<<y, x>> \in OpToRel(<, Nat))
  BY <1>1
<1>3. \A y \in T : ~(y < x)
  BY <1>2 DEF OpToRel
<1> QED BY <1>3

\* ... and a greatest one if it is bounded.
LEMMA GreatestNumber ==
  ASSUME NEW T \in SUBSET Nat, T # {}, NEW b \in Nat, \A x \in T : x <= b
  PROVE  \E x \in T : \A y \in T : y <= x
<1> DEFINE U == {y \in Nat : \E x \in T : y = b - x}
<1>1. U \in SUBSET Nat /\ U # {}
  <2>1. PICK x \in T : TRUE
    OBVIOUS
  <2>2. b - x \in U
    OBVIOUS
  <2> QED BY <2>2
<1>2. PICK u \in U : \A y \in U : u <= y
  BY <1>1, LeastNumber
<1>3. PICK x \in T : u = b - x
  BY <1>2
<1>4. ASSUME NEW y \in T PROVE y <= x
  <2>1. b - y \in U
    OBVIOUS
  <2>2. b - x <= b - y
    BY <1>2, <1>3, <2>1
  <2> QED BY <2>2
<1> QED BY <1>4

\* A finite set has a first element in every strict order.
LEMMA FirstElement ==
  ASSUME NEW B, IsFiniteSet(B), B # {}, NEW R,
         \A x \in B : <<x, x>> \notin R,
         \A x, y, z \in B : <<x, y>> \in R /\ <<y, z>> \in R => <<x, z>> \in R
  PROVE  \E u \in B : \A y \in B : <<y, u>> \notin R
<1> DEFINE Below(u) == {x \in B : <<x, u>> \in R}
           T == {n \in Nat : \E u \in B : n = Cardinality(Below(u))}
<1>1. \A u \in B : IsFiniteSet(Below(u)) /\ Cardinality(Below(u)) \in Nat
  <2> TAKE u \in B
  <2>1. Below(u) \in SUBSET B
    OBVIOUS
  <2> QED BY <2>1, FS_Subset, FS_CardinalityType
<1> HIDE DEF Below
<1>2. T \in SUBSET Nat /\ T # {}
  <2>1. PICK u \in B : TRUE
    OBVIOUS
  <2>2. Cardinality(Below(u)) \in T
    BY <1>1
  <2> QED BY <2>2
<1>3. PICK t \in T : \A s \in T : t <= s
  BY <1>2, LeastNumber
<1>4. PICK u \in B : t = Cardinality(Below(u))
  BY <1>3
<1>5. ASSUME NEW y \in B, <<y, u>> \in R PROVE FALSE
  <2>1. Below(y) \in SUBSET Below(u)
    BY <1>5 DEF Below
  <2>2. y \in Below(u) /\ y \notin Below(y)
    BY <1>5 DEF Below
  <2>3. /\ Cardinality(Below(y)) <= Cardinality(Below(u))
        /\ Cardinality(Below(u)) = Cardinality(Below(y)) => Below(u) = Below(y)
    BY <1>1, <2>1, FS_Subset
  <2>4. Cardinality(Below(u)) <= Cardinality(Below(y))
    BY <1>1, <1>3, <1>4
  <2>5. Cardinality(Below(u)) = Cardinality(Below(y))
    BY <1>1, <2>3, <2>4
  <2> QED BY <2>2, <2>3, <2>5
<1> QED BY <1>5

-----------------------------------------------------------------------------
(* The order of the ids.                                                   *)

\* The characters of an id are numbers.
LEMMA Characters ==
  ASSUME NEW w \in Seq(Nat)
  PROVE  Len(w) \in Nat /\ \A k \in 1..Len(w) : w[k] \in Nat
BY ElementOfSeq

\* The ids of workers have one length.
LEMMA WorkerIds ==
  ASSUME NEW w \in Worker, NEW v \in Worker
  PROVE  w \in Seq(Nat) /\ v \in Seq(Nat) /\ Len(v) = Len(w) /\ Len(w) \in Nat
BY CommandLineConstants

\* A prefix agrees with the whole as far as it goes.
LEMMA PrefixAgrees ==
  ASSUME NEW q \in Seq(Nat), NEW w \in Seq(Nat)
  PROVE  SeqExt!IsPrefix(q, w) <=> Len(q) <= Len(w) /\ \A k \in 1..Len(q) : q[k] = w[k]
<1>1. ASSUME SeqExt!IsPrefix(q, w), NEW k \in 1..Len(q) PROVE q[k] = w[k]
  <2>1. Len(q) <= Len(w) /\ SubSeq(q, 1, Len(q)) = SubSeq(w, 1, Len(q))
    BY <1>1 DEF SeqExt!IsPrefix
  <2>2. SubSeq(q, 1, Len(q))[k] = q[k] /\ SubSeq(w, 1, Len(q))[k] = w[k]
    BY <1>1, <2>1
  <2> QED BY <2>1, <2>2
<1>2. ASSUME Len(q) <= Len(w), \A k \in 1..Len(q) : q[k] = w[k] PROVE SeqExt!IsPrefix(q, w)
  <2>1. SubSeq(q, 1, Len(q)) = SubSeq(w, 1, Len(q))
    BY <1>2
  <2> QED BY <1>2, <2>1 DEF SeqExt!IsPrefix
<1>3. SeqExt!IsPrefix(q, w) => Len(q) <= Len(w)
  BY DEF SeqExt!IsPrefix
<1> QED BY <1>1, <1>2, <1>3

\* The part that two ids share ends before the first difference.
LEMMA CommonIs ==
  ASSUME NEW w \in Seq(Nat), NEW v \in Seq(Nat), Len(w) = Len(v), NEW n \in 0..Len(w),
         \A k \in 1..n : w[k] = v[k], n = Len(w) \/ w[n + 1] # v[n + 1]
  PROVE  Common(w, v) = n
<1> DEFINE C == SeqExt!CommonPrefixes({w, v})
           p == SubSeq(w, 1, n)
<1>1. C = {q \in UNION {SeqExt!Prefixes(x) : x \in {w, v}} : \A x \in {w, v} : SeqExt!IsPrefix(q, x)}
  BY DEF SeqExt!CommonPrefixes
<1>2. \A x \in {w, v} : SeqExt!Prefixes(x) = {SubSeq(x, 1, l) : l \in 0..Len(x)}
  BY DEF SeqExt!Prefixes
<1> HIDE DEF C
<1>3. p \in Seq(Nat) /\ Len(p) = n /\ \A k \in 1..n : p[k] = w[k]
  OBVIOUS
<1>4. p \in C
  <2>2. p \in SeqExt!Prefixes(w)
    BY <1>2
  <2> HIDE DEF p
  <2>1. SeqExt!IsPrefix(p, w) /\ SeqExt!IsPrefix(p, v)
    <3>1. n <= Len(w) /\ n <= Len(v)
      OBVIOUS
    <3>2. \A k \in 1..n : p[k] = w[k] /\ p[k] = v[k]
      BY <1>3
    <3>3. /\ p \in Seq(Nat) /\ Len(p) <= Len(w) /\ Len(p) <= Len(v)
          /\ \A k \in 1..Len(p) : p[k] = w[k] /\ p[k] = v[k]
      BY <1>3, <3>1, <3>2
    <3> QED BY <3>3, PrefixAgrees
  <2> QED BY <1>1, <2>1, <2>2
<1> HIDE DEF p
<1>5. ASSUME NEW q \in C PROVE Len(q) \in Nat /\ Len(q) <= n
  <2>1. PICK x \in {w, v} : q \in SeqExt!Prefixes(x)
    BY <1>1
  <2>2. PICK l \in 0..Len(x) : q = SubSeq(x, 1, l)
    BY <1>2, <2>1
  <2>3. q \in Seq(Nat) /\ Len(q) \in Nat
    <3>1. x \in Seq(Nat) /\ Len(x) \in Nat
      OBVIOUS
    <3>3. \A k \in 1..l : x[k] \in Nat
      BY <3>1, Characters
    <3>2. q \in Seq(Nat)
      BY <2>2, <3>1, <3>3, SubSeqProperties
    <3> QED BY <3>2
  <2>4. SeqExt!IsPrefix(q, w) /\ SeqExt!IsPrefix(q, v)
    BY <1>1
  <2>5. Len(q) <= Len(w) /\ \A k \in 1..Len(q) : q[k] = w[k] /\ q[k] = v[k]
    BY <2>3, <2>4, PrefixAgrees
  <2>6. ASSUME n < Len(q) PROVE FALSE
    <3>1. n + 1 \in 1..Len(q) /\ n # Len(w)
      <4>1. n \in Nat /\ Len(w) \in Nat /\ Len(q) \in Nat /\ Len(q) <= Len(w)
        BY <2>3, <2>5
      <4>2. n # Len(w)
        BY <2>6, <4>1
      <4>3. n + 1 \in 1..Len(q)
        BY <2>6, <4>1
      <4> QED BY <4>2, <4>3
    <3> QED BY <2>5, <3>1
  <2> QED BY <2>3, <2>6
<1>6. \E longest \in C : \A other \in C : Len(other) <= Len(longest)
  BY <1>3, <1>4, <1>5
<1> DEFINE longest == SeqExt!LongestCommonPrefix({w, v})
<1>7. longest \in C /\ \A other \in C : Len(other) <= Len(longest)
  BY <1>6 DEF SeqExt!LongestCommonPrefix, C
<1>8. Len(longest) = n
  <2> HIDE DEF longest
  <2> QED BY <1>3, <1>4, <1>5, <1>7
<1> QED BY <1>8 DEF Common

\* It is the same from both sides.
LEMMA CommonAgrees ==
  ASSUME NEW w \in Worker, NEW v \in Worker
  PROVE  /\ Common(w, v) \in 0..Len(w) /\ Common(v, w) = Common(w, v)
         /\ \A k \in 1..Common(w, v) : w[k] = v[k]
         /\ w # v => Common(w, v) < Len(w) /\ w[Common(w, v) + 1] # v[Common(w, v) + 1]
<1>1. w \in Seq(Nat) /\ v \in Seq(Nat) /\ Len(w) = Len(v) /\ Len(w) \in Nat
  BY WorkerIds
<1> DEFINE D == {k \in 1..Len(w) : w[k] # v[k]}
<1>2. CASE D = {}
  <2>1. \A k \in 1..Len(w) : w[k] = v[k]
    BY <1>2
  <2>2. Common(w, v) = Len(w) /\ Common(v, w) = Len(w)
    <3>1. Len(w) \in 0..Len(w) /\ \A k \in 1..Len(w) : v[k] = w[k]
      BY <1>1, <2>1
    <3>2. Common(w, v) = Len(w)
      BY <1>1, <2>1, <3>1, CommonIs
    <3>3. Common(v, w) = Len(w)
      BY <1>1, <3>1, CommonIs
    <3> QED BY <3>2, <3>3
  <2>3. w = v
    BY <1>1, <2>1, SeqEqual
  <2> QED BY <1>1, <2>1, <2>2, <2>3
<1>3. CASE D # {}
  <2>1. PICK d \in D : \A k \in D : d <= k
    <3>1. D \in SUBSET Nat
      BY <1>1
    <3> QED BY <1>3, <3>1, LeastNumber
  <2> DEFINE n == d - 1
  <2>2. n \in 0..Len(w) /\ n < Len(w) /\ w[n + 1] # v[n + 1] /\ n + 1 = d
    BY <1>1, <2>1
  <2>3. \A k \in 1..n : w[k] = v[k]
    BY <1>1, <2>1
  <2>4. Common(w, v) = n /\ Common(v, w) = n
    <3> HIDE DEF n
    <3> QED BY <1>1, <2>2, <2>3, CommonIs
  <2> QED BY <1>1, <2>2, <2>3, <2>4
<1> QED BY <1>2, <1>3

\* The ids are ordered.
LEMMA SmallerIsOrder ==
  ASSUME NEW w \in Worker, NEW v \in Worker
  PROVE  /\ ~(Smaller(w, v) /\ Smaller(v, w))
         /\ w # v => Smaller(w, v) \/ Smaller(v, w)
<1> DEFINE n == Common(w, v)
<1>1. /\ w \in Seq(Nat) /\ v \in Seq(Nat) /\ Len(w) = Len(v) /\ Len(w) \in Nat
      /\ n \in 0..Len(w) /\ Common(v, w) = n
      /\ w # v => n < Len(w) /\ w[n + 1] # v[n + 1]
  BY CommonAgrees, WorkerIds
<1> HIDE DEF n
<1>2. n + 1 <= Len(w) => w[n + 1] \in Nat /\ v[n + 1] \in Nat
  BY <1>1
<1>3. /\ Smaller(w, v) <=> n + 1 <= Len(w) /\ n + 1 <= Len(v) /\ w[n + 1] < v[n + 1]
      /\ Smaller(v, w) <=> n + 1 <= Len(v) /\ n + 1 <= Len(w) /\ v[n + 1] < w[n + 1]
  BY <1>1 DEF Smaller, n
<1> QED BY <1>1, <1>2, <1>3

\* An id between two others shares at least as much with each of them as
\* they share.
LEMMA SharedBetween ==
  ASSUME NEW a \in Worker, NEW b \in Worker, NEW c \in Worker, Smaller(a, b), Smaller(b, c)
  PROVE  Smaller(a, c) /\ Common(a, c) <= Common(a, b) /\ Common(a, c) <= Common(b, c)
<1> DEFINE m == Common(a, b)
           n == Common(b, c)
<1>1. /\ a \in Seq(Nat) /\ b \in Seq(Nat) /\ c \in Seq(Nat)
      /\ Len(a) \in Nat /\ Len(b) = Len(a) /\ Len(c) = Len(a)
  BY WorkerIds
<1>2. /\ m \in 0..Len(a) /\ n \in 0..Len(a)
      /\ \A k \in 1..m : a[k] = b[k]
      /\ \A k \in 1..n : b[k] = c[k]
  BY <1>1, CommonAgrees
<1>3. /\ m + 1 <= Len(a) /\ a[m + 1] < b[m + 1]
      /\ n + 1 <= Len(a) /\ b[n + 1] < c[n + 1]
  BY <1>1 DEF Smaller
<1> HIDE DEF m, n
<1> DEFINE l == IF m < n THEN m ELSE n
<1>4. l \in 0..Len(a) /\ l <= m /\ l <= n /\ l + 1 \in 1..Len(a)
  BY <1>1, <1>2, <1>3
<1>5. \A k \in 1..l : a[k] = c[k]
  BY <1>1, <1>2, <1>4
<1>6. a[l + 1] < c[l + 1]
  <2>1. a[l + 1] \in Nat /\ b[l + 1] \in Nat /\ c[l + 1] \in Nat
    <3> HIDE DEF l
    <3> QED BY <1>1, <1>4, Characters
  <2>2. CASE m < n
    <3>1. l = m /\ m + 1 \in 1..n
      BY <1>1, <1>2, <2>2
    <3>2. b[m + 1] = c[m + 1]
      BY <1>2, <3>1
    <3> QED BY <1>3, <2>1, <3>1, <3>2
  <2>3. CASE n < m
    <3>1. l = n /\ n + 1 \in 1..m
      BY <1>1, <1>2, <2>3
    <3>2. a[n + 1] = b[n + 1]
      BY <1>2, <3>1
    <3> QED BY <1>3, <2>1, <3>1, <3>2
  <2>4. CASE m = n
    <3>1. l = n /\ l = m
      BY <2>4
    <3> QED BY <1>3, <2>1, <3>1
  <2> QED BY <1>2, <2>2, <2>3, <2>4
<1>7. Common(a, c) = l
  <2>1. a[l + 1] # c[l + 1]
    BY <1>1, <1>4, <1>6
  <2> HIDE DEF l
  <2> QED BY <1>1, <1>4, <1>5, <2>1, CommonIs
<1>8. Smaller(a, c)
  <2> HIDE DEF l
  <2> QED BY <1>1, <1>4, <1>6, <1>7 DEF Smaller
<1> QED BY <1>4, <1>7, <1>8 DEF m, n

-----------------------------------------------------------------------------
(* Labels.                                                                 *)

\* Among finitely many ids, one next to w shares with it at least as much as v.
LEMMA NearestNeighbour ==
  ASSUME NEW ids \in SUBSET Worker, IsFiniteSet(ids), NEW w \in ids, NEW v \in ids, w # v
  PROVE  \E u \in ids : Neighbour(w, u, ids) /\ Common(w, v) <= Common(w, u)
<1>1. \A x, y \in ids : ~(Smaller(x, y) /\ Smaller(y, x)) /\ (x # y => Smaller(x, y) \/ Smaller(y, x))
  BY SmallerIsOrder
<1>2. \A x, y, z \in ids :
        Smaller(x, y) /\ Smaller(y, z)
          => Smaller(x, z) /\ Common(x, z) <= Common(x, y) /\ Common(x, z) <= Common(y, z)
  BY SharedBetween
<1>3. \A x, y \in ids : Common(x, y) = Common(y, x) /\ Common(x, y) \in Int
  BY CommonAgrees, WorkerIds
<1>4. CASE Smaller(w, v)
  <2> DEFINE B == {u \in ids : Smaller(w, u) /\ (u = v \/ Smaller(u, v))}
             R == {e \in B \X B : Smaller(e[1], e[2])}
  <2>1. B \in SUBSET ids /\ v \in B
    BY <1>4
  <2>2. IsFiniteSet(B)
    BY <2>1, FS_Subset
  <2>3. \A x, y \in B : <<x, y>> \in R <=> Smaller(x, y)
    OBVIOUS
  <2> HIDE DEF R
  <2>4. /\ \A x \in B : <<x, x>> \notin R
        /\ \A x, y, z \in B : <<x, y>> \in R /\ <<y, z>> \in R => <<x, z>> \in R
    BY <1>1, <1>2, <2>1, <2>3
  <2>5. PICK u \in B : \A y \in B : <<y, u>> \notin R
    <3>1. B # {}
      BY <2>1
    <3> HIDE DEF B
    <3> QED BY <2>2, <2>4, <3>1, FirstElement
  <2>6. ~\E x \in ids : Smaller(w, x) /\ Smaller(x, u)
    <3> SUFFICES ASSUME NEW x \in ids, Smaller(w, x), Smaller(x, u) PROVE FALSE
      OBVIOUS
    <3>1. x \in B
      BY <1>2, <2>1
    <3> QED BY <2>3, <2>5, <3>1
  <2>7. Common(w, v) <= Common(w, u)
    <3>1. CASE u = v
      BY <1>3, <3>1
    <3>2. CASE Smaller(w, u) /\ Smaller(u, v)
      <4>1. Common(w, v) <= Common(w, u)
        BY <1>2, <2>1, <3>2
      <4> QED BY <1>3, <2>1, <4>1
    <3> QED BY <3>1, <3>2
  <2> QED BY <2>1, <2>6, <2>7 DEF Neighbour
<1>5. CASE Smaller(v, w)
  <2> DEFINE B == {u \in ids : Smaller(u, w) /\ (u = v \/ Smaller(v, u))}
             R == {e \in B \X B : Smaller(e[2], e[1])}
  <2>1. B \in SUBSET ids /\ v \in B
    BY <1>5
  <2>2. IsFiniteSet(B)
    BY <2>1, FS_Subset
  <2>3. \A x, y \in B : <<x, y>> \in R <=> Smaller(y, x)
    OBVIOUS
  <2> HIDE DEF R
  <2>4. /\ \A x \in B : <<x, x>> \notin R
        /\ \A x, y, z \in B : <<x, y>> \in R /\ <<y, z>> \in R => <<x, z>> \in R
    BY <1>1, <1>2, <2>1, <2>3
  <2>5. PICK u \in B : \A y \in B : <<y, u>> \notin R
    <3>1. B # {}
      BY <2>1
    <3> HIDE DEF B
    <3> QED BY <2>2, <2>4, <3>1, FirstElement
  <2>6. ~\E x \in ids : Smaller(u, x) /\ Smaller(x, w)
    <3> SUFFICES ASSUME NEW x \in ids, Smaller(u, x), Smaller(x, w) PROVE FALSE
      OBVIOUS
    <3>1. x \in B
      BY <1>2, <2>1
    <3> QED BY <2>3, <2>5, <3>1
  <2>7. Common(w, v) <= Common(w, u)
    <3>1. CASE u = v
      BY <1>3, <3>1
    <3>2. CASE Smaller(v, u) /\ Smaller(u, w)
      <4>1. Common(v, w) <= Common(u, w)
        BY <1>2, <2>1, <3>2
      <4> QED BY <1>3, <2>1, <4>1
    <3> QED BY <3>1, <3>2
  <2> QED BY <2>1, <2>6, <2>7 DEF Neighbour
<1> QED BY <1>1, <1>4, <1>5

\* A label is a prefix of its id, longer than what the id shares with any
\* neighbour.
LEMMA LabelIsPrefix ==
  ASSUME NEW ids \in SUBSET Worker, NEW w \in ids
  PROVE  \E n \in 0..Len(w) :
           /\ Label(w, ids) = SubSeq(w, 1, n)
           /\ \A u \in ids : Neighbour(w, u, ids) => n = Len(w) \/ Common(w, u) < n
<1> DEFINE near == {u \in ids : Neighbour(w, u, ids)}
           lengths == {MinLabel} \cup {Common(w, u) + 1 : u \in near}
           length == CHOOSE n \in lengths : \A m \in lengths : m <= n
           n == IF length < Len(w) THEN length ELSE Len(w)
<1>1. w \in Seq(Nat) /\ Len(w) \in Nat /\ MinLabel \in Nat
  BY WorkerIds, CommandLineConstants
<1>2. \A u \in near : Common(w, u) \in 0..Len(w)
  BY CommonAgrees
<1>3. lengths \in SUBSET Nat /\ \A m \in lengths : m <= MinLabel + Len(w) + 1
  BY <1>1, <1>2
<1>4. MinLabel \in lengths /\ \A u \in near : Common(w, u) + 1 \in lengths
  OBVIOUS
<1>5. Label(w, ids) = SubSeq(w, 1, n)
  BY DEF Label
<1> HIDE DEF lengths
<1>6. \E m \in lengths : \A k \in lengths : k <= m
  <2>1. MinLabel + Len(w) + 1 \in Nat /\ lengths # {}
    BY <1>1, <1>4
  <2> QED BY <1>3, <2>1, GreatestNumber
<1>7. length \in lengths /\ \A m \in lengths : m <= length
  BY <1>6
<1> HIDE DEF length
<1>8. n \in 0..Len(w)
  BY <1>1, <1>3, <1>7
<1>9. ASSUME NEW u \in ids, Neighbour(w, u, ids) PROVE n = Len(w) \/ Common(w, u) < n
  <2>1. Common(w, u) + 1 <= length /\ Common(w, u) \in Nat /\ length \in Nat
    BY <1>2, <1>3, <1>4, <1>7, <1>9
  <2> QED BY <1>1, <2>1
<1> HIDE DEF n
<1> QED BY <1>5, <1>8, <1>9

\* No label is the beginning of the id of another worker.
LEMMA LabelsDiffer ==
  ASSUME NEW ids \in SUBSET Worker, IsFiniteSet(ids), NEW w \in ids, NEW v \in ids, w # v
  PROVE  ~SeqExt!IsPrefix(Label(w, ids), v)
<1> DEFINE c == Common(w, v)
<1>1. PICK n \in 0..Len(w) :
        /\ Label(w, ids) = SubSeq(w, 1, n)
        /\ \A u \in ids : Neighbour(w, u, ids) => n = Len(w) \/ Common(w, u) < n
  BY LabelIsPrefix
<1>2. PICK u \in ids : Neighbour(w, u, ids) /\ Common(w, v) <= Common(w, u)
  BY NearestNeighbour
<1>3. /\ w \in Seq(Nat) /\ v \in Seq(Nat) /\ Len(w) \in Nat
      /\ c \in Nat /\ c < Len(w) /\ w[c + 1] # v[c + 1]
  BY CommonAgrees, WorkerIds
<1>4. Common(w, u) \in Nat
  BY CommonAgrees, WorkerIds
<1> HIDE DEF c
<1>5. c < n
  <2>1. c <= Common(w, u)
    BY <1>2 DEF c
  <2>2. n = Len(w) \/ Common(w, u) < n
    BY <1>1, <1>2
  <2> QED BY <1>3, <1>4, <2>1, <2>2
<1> DEFINE q == SubSeq(w, 1, n)
<1>6. q \in Seq(Nat) /\ Len(q) = n /\ \A k \in 1..n : q[k] = w[k]
  BY <1>3
<1> HIDE DEF q
<1>7. c + 1 \in 1..n
  BY <1>3, <1>5
<1>8. ASSUME SeqExt!IsPrefix(q, v) PROVE FALSE
  <2>1. q[c + 1] = v[c + 1]
    BY <1>3, <1>6, <1>7, <1>8, PrefixAgrees
  <2>2. q[c + 1] = w[c + 1]
    BY <1>6, <1>7
  <2> QED BY <1>3, <2>1, <2>2
<1> QED BY <1>1, <1>8 DEF q

-----------------------------------------------------------------------------
(* The inductive invariant.                                                *)

USE SchedulerConstants, CommandLineConstants

CliFields == cli = [action |-> cli.action, phase |-> cli.phase, listed |-> cli.listed,
                    selected |-> cli.selected, worker |-> cli.worker, label |-> cli.label]

\* The request of an invocation, and how often it has been handled.
CallInv ==
  /\ wire \in {"none", "request", "answer"}
  /\ cli.phase \in {"idle", "start", "paging", "selected", "sent"} \cup Ended
  /\ cli.phase \in {"idle", "start", "paging", "selected", "failed"}
       => wire = "none" /\ since.handled = 0
  /\ cli.phase = "done" => wire = "none" /\ since.handled = IF cli.action = "-l" THEN 0 ELSE 1
  /\ since.handled \in {0, 1}
  /\ wire = "request" => since.handled = 0
  /\ wire = "answer" => since.handled = 1

\* The phases that a command goes through.
PhaseInv ==
  /\ cli.phase # "idle" => cli.action \in Actions
  /\ cli.phase = "paging" => cli.action = "-l"
  /\ cli.phase = "selected" => cli.action \in Shorthand \cup {"pause"}
  /\ cli.phase \in {"sent", "unknown"} => cli.action # "-l"
  /\ cli.phase \in {"idle", "start", "paging"} => cli.selected = NoJob
  /\ cli.phase \in {"selected", "sent", "unknown"} /\ cli.action \in Shorthand
       => cli.selected # NoJob
  /\ cli.selected # NoJob => cli.selected \in JobId /\ cli.action \in Shorthand

\* The id that was selected is not given out again before the queue is empty.
SelectedInv ==
  cli.selected # NoJob /\ "emptied" \notin since.changes =>
    /\ \E i \in JobId : Exists(i)
    /\ cli.selected <= sequence
    /\ cli.selected \notin since.fresh

\* A job that has been started is not claimed before it is retried.
ClaimedInv ==
  cli.selected # NoJob /\ cli.action = "-k" /\ since.changes \cap {"emptied", "retried"} = {}
    => ~Queued(cli.selected) /\ "claimed" \notin since.changes

\* Only a job that is over or running has a start.
StartedInv == \A i \in JobId : started[i] # 0 => Exists(i) /\ ~Queued(i)

CliInv == Inv /\ CliFields /\ CallInv /\ PhaseInv /\ SelectedInv /\ ClaimedInv /\ StartedInv

-----------------------------------------------------------------------------
(* The steps of the invocation and of the others are steps of Scheduler.   *)

\* Names of actions are told apart.
LEMMA ActionNames ==
  /\ Single = {"submit", "-C", "remove-all", "-retry"}
  /\ Shorthand = {"-r", "-u", "-k"}
  /\ Actions = {"submit", "-C", "remove-all", "-retry", "-r", "-u", "-k", "-l", "pause"}
BY DEF Single, Shorthand, Actions

\* What the controller does with the request of an invocation.
LEMMA PerformIsNext ==
  ASSUME CliInv, wire = "request", Perform
  PROVE  /\ Next
         /\ cli.selected # NoJob =>
              \/ Urgent(<<cli.selected>>) \/ Remove({cli.selected}) \/ Cancel(cli.selected)
<1>1. cli.phase \in {"sent", "unknown"}
  BY DEF CliInv, CallInv, Ended
<1>2. cli.action \in Actions \ {"-l"}
  BY <1>1 DEF CliInv, PhaseInv
<1>3. CASE cli.action \in Shorthand
  <2>1. cli.selected \in JobId
    BY <1>1, <1>3 DEF CliInv, PhaseInv
  <2>2. Urgent(<<cli.selected>>) \/ Remove({cli.selected}) \/ Cancel(cli.selected)
    BY <1>3, ActionNames DEF Perform
  <2>3. {cli.selected} \in (SUBSET JobId) \ {{}} /\ <<cli.selected>> \in Batches
    BY <2>1, BatchOfOne
  <2>4. Next
    BY <2>1, <2>2, <2>3 DEF Next, AdminStep
  <2> QED BY <2>2, <2>4
<1>4. CASE cli.action \notin Shorthand
  <2>1. cli.selected = NoJob
    BY <1>4 DEF CliInv, PhaseInv
  <2>2. \/ Submit \/ Clear \/ RemoveAll \/ RetryAll
        \/ \E w \in Worker : SetWorkerPaused(w, 1)
    BY <1>2, <1>4, ActionNames DEF Perform
  <2>3. Next
    BY <2>2 DEF Next, AdminStep
  <2> QED BY <2>1, <2>3
<1> QED BY <1>3, <1>4

\* Everybody else.
LEMMA ElsewhereIsNext == ASSUME Elsewhere PROVE Next
<1>1. CASE \E i \in JobId : Remove({i}) \/ Urgent(<<i>>)
  <2> PICK i \in JobId : Remove({i}) \/ Urgent(<<i>>)
    BY <1>1
  <2>1. {i} \in (SUBSET JobId) \ {{}} /\ <<i>> \in Batches
    BY BatchOfOne
  <2> QED BY <2>1 DEF Next, AdminStep
<1>2. CASE \E w \in Worker : \/ Register(w)
                             \/ \E i \in JobId : ClaimNext(w, i) \/ FinishRunning(i, w, "failed")
  BY <1>2 DEF Next, WorkerStep, Claim, Finish
<1> QED BY <1>1, <1>2 DEF Elsewhere, Next, AdminStep

\* Every step.
LEMMA CliIsNext == ASSUME CliInv, [CliNext]_cliVars PROVE [Next]_vars
<1>1. CASE Elsewhere
  BY <1>1, ElsewhereIsNext
<1>2. CASE Handle
  BY <1>2, PerformIsNext DEF Handle
<1>3. CASE FetchPage
  BY <1>3 DEF FetchPage, Next, AdminStep
<1> QED BY <1>1, <1>2, <1>3
     DEF CliNext, CliStep, cliVars, Begin, ReadFails, Send, Lose, Answer, GiveUp, SelectLatest,
         ListWorkers

-----------------------------------------------------------------------------
(* How rows appear, and how the numbering starts again.                    *)

\* A row that was not there is that of the next number.
LEMMA AppearsAtEnd ==
  ASSUME Inv, [Next]_vars, NEW i \in JobId, ~Exists(i), Exists(i)'
  PROVE  i = sequence + 1
<1>1. jobs \in [JobId -> JobRow] /\ jobs[i] \in JobRow /\ ~UNCHANGED jobs
  BY DEF Inv, TypeOK, Exists
<1>2. CASE Submit
  BY <1>1, <1>2 DEF Submit, Exists
<1>3. ASSUME \/ RetryAll \/ \E ids \in Batches : Retry(ids) \/ Urgent(ids)
             \/ \E a, b \in JobId : Swap(a, b)
      PROVE  FALSE
  <2>1. jobs'[i] = jobs[i] \/ Queued(i) \/ Failed(i)
    BY <1>3, RetryAllRows, RetryRows, UrgentRows, SwapRows
  <2> QED BY <2>1 DEF Exists, Queued, Failed
<1>4. ASSUME \/ List \/ Clear \/ RemoveAll
             \/ \E targets \in (SUBSET JobId) \ {{}} : Remove(targets)
      PROVE  FALSE
  <2>1. jobs'[i] = ExpiredJobs[i] \/ jobs'[i] = AbsentJob
    BY <1>4 DEF List, Clear, RemoveAll, Remove
  <2>2. ExpiredJobs[i] = jobs[i]
    BY DEF ExpiredJobs, Abandoned, Running, Exists
  <2> QED BY <2>1, <2>2, AbsentJobType DEF Exists
<1>5. ASSUME NEW k \in JobId, NEW w \in Worker, NEW s \in {"succeeded", "failed"},
             Cancel(k) \/ ClaimNext(w, k) \/ Output(k, w) \/ FinishRunning(k, w, s)
      PROVE  FALSE
  <2>1. Exists(k)
    BY <1>5 DEF Cancel, ClaimNext, Output, FinishRunning, Running, Queued, Owned, Exists
  <2>2. jobs'[i] = jobs[i]
    BY <1>1, <1>5, <2>1 DEF Cancel, ClaimNext, Output, FinishRunning
  <2> QED BY <2>2 DEF Exists
<1>6. CASE AdminStep
  <2>1. CASE \E k \in JobId : Cancel(k)
    BY <1>1, <2>1 DEF Cancel, Running, Exists
  <2> QED BY <1>1, <1>2, <1>3, <1>4, <1>6, <2>1 DEF AdminStep, SetWorkerPaused
<1>7. CASE WorkerStep
  BY <1>1, <1>5, <1>7 DEF WorkerStep, Register, Heartbeat, Claim, ClaimHeld, ClaimNothing, Finish,
                          FinishAgain, vars
<1> QED BY <1>1, <1>6, <1>7 DEF Next, Tick, vars

\* The numbering starts again only when no row is left.
LEMMA NumberingGoesOn ==
  ASSUME Inv, [Next]_vars, \E i \in JobId : Exists(i)'
  PROVE  sequence' \in {sequence, sequence + 1}
<1>1. CASE Clear
  BY <1>1 DEF Clear, Exists
<1> QED BY <1>1 DEF Next, vars, AdminStep, WorkerStep, Tick, Submit, List, RemoveAll, RetryAll, Remove,
       Retry, Urgent, Swap, Cancel, SetWorkerPaused, Register, Heartbeat, Claim, ClaimHeld,
       ClaimNothing, ClaimNext, Output, Finish, FinishAgain, FinishRunning

\* A job begins to wait when it is submitted or after it has failed.
LEMMA QueuedAgain ==
  ASSUME Inv, [Next]_vars, NEW i \in JobId, ~Queued(i), Queued(i)'
  PROVE  ~Exists(i) \/ Failed(i)
<1>1. Inv'
  BY NextInv
<1>2. Move(i)
  BY <1>1, EveryJobMoves
<1>3. Phase(i) # "queued" /\ Phase(i)' = "queued"
  <2>1. Phase(i) # "queued"
    BY PhaseOfStatus
  <2>2. jobs'[i].error # "disconnected"
    BY <1>1 DEF Inv, RunDetailsMatch, DetailsMatch, Queued, Failed
  <2> QED BY <2>1, <2>2 DEF Phase, Queued
<1>4. Phase(i) \in {"absent", "failed", "lost"}
  BY <1>2, <1>3, MovesOfRows DEF Move
<1> QED BY <1>4, PhaseOfStatus

-----------------------------------------------------------------------------
(* What is remembered beside the invocation.                               *)

\* The history of a step, while the invocation is under way.
LEMMA WatchOn ==
  ASSUME Watch, cli.phase \notin {"idle", "start"}
  PROVE  /\ since'.handled = since.handled + (IF wire = "request" /\ wire' = "answer" THEN 1 ELSE 0)
         /\ since'.changes = since.changes \cup Changes
         /\ \A i : i \in since'.fresh => i \in since.fresh \/ (~Exists(i) /\ Exists(i)')
BY DEF Watch

\* Before that there is none.
LEMMA WatchOff ==
  ASSUME Watch, cli.phase \in {"idle", "start"}
  PROVE  since'.handled = 0 /\ since'.changes = {} /\ since'.fresh = {}
BY DEF Watch, Nothing

\* The changes that concern a selected job.
LEMMA ChangesOfSelected ==
  ASSUME cli.selected # NoJob, cli.action # "-l", jobs' # jobs
  PROVE  /\ (\A i \in JobId : ~Exists(i)') => "emptied" \in Changes
         /\ Failed(cli.selected) /\ Queued(cli.selected)' => "retried" \in Changes
         /\ "claimed" \in Changes => Queued(cli.selected)
BY DEF Changes

-----------------------------------------------------------------------------
(* The invariant is inductive.                                             *)

\* A start is taken away with the row and when the job waits again.
LEMMA StampKeepsStarted == ASSUME Stamp PROVE StartedInv'
<1> SUFFICES ASSUME NEW i \in JobId, ~(Exists(i)' /\ ~Queued(i)')
             PROVE  started'[i] = 0
  BY DEF StartedInv
<1>1. jobs'[i].status \in {"absent", "queued"}
  BY DEF Exists, Queued
<1>2. PICK raw : /\ raw[i] = 0
                 /\ started'[i] = Cardinality({raw[k] : k \in JobId} \cap 1..raw[i])
  BY <1>1 DEF Stamp
<1>3. {raw[k] : k \in JobId} \cap 1..raw[i] = {}
  BY <1>2
<1> QED BY <1>2, <1>3, FS_EmptySet

\* An invocation that has selected a job keeps to it.
LEMMA SelectionStays ==
  ASSUME CliInv, CliNext, cli'.selected # NoJob
  PROVE  \/ \E i \in JobId : SelectLatest(i)
         \/ cli'.selected = cli.selected /\ cli'.action = cli.action
<1>1. ASSUME NEW action \in Actions, Begin(action) PROVE FALSE
  BY <1>1 DEF CliInv, CliFields, PhaseInv, Begin
<1> QED BY <1>1 DEF CliNext, CliStep, Elsewhere, FetchPage, ReadFails, Send, Handle, Lose, Answer,
                    GiveUp, ListWorkers, Now, CliInv, CliFields

\* What is known about the selected job stays true, whatever the others do.
LEMMA SelectedKept ==
  ASSUME CliInv, [Next]_vars, Watch, cli.selected # NoJob, cli'.selected = cli.selected,
         cli'.action = cli.action
  PROVE  SelectedInv' /\ ClaimedInv'
<1> DEFINE s == cli.selected
<1>0. /\ s \in JobId /\ cli.action \in Shorthand /\ cli.action # "-l"
      /\ cli.phase \notin {"idle", "start"}
  BY ActionNames DEF CliInv, PhaseInv
<1>1. /\ since'.changes = since.changes \cup Changes
      /\ \A i : i \in since'.fresh => i \in since.fresh \/ (~Exists(i) /\ Exists(i)')
  BY <1>0, WatchOn
<1>2. sequence \in Nat /\ Inv
  BY DEF CliInv, Inv, TypeOK
<1>3. ASSUME "emptied" \notin since'.changes
      PROVE  /\ \E i \in JobId : Exists(i)'
             /\ s <= sequence /\ s <= sequence'
             /\ s \notin since'.fresh
             /\ Exists(s)' => Exists(s)
  <2>1. /\ \E i \in JobId : Exists(i)
        /\ s <= sequence /\ s \notin since.fresh
    BY <1>1, <1>3 DEF CliInv, SelectedInv
  <2>2. \E i \in JobId : Exists(i)'
    <3>1. CASE jobs' = jobs
      BY <2>1, <3>1 DEF Exists
    <3>2. CASE jobs' # jobs
      BY <1>0, <1>1, <1>3, <3>2, ChangesOfSelected
    <3> QED BY <3>1, <3>2
  <2>3. sequence' \in {sequence, sequence + 1}
    BY <1>2, <2>2, NumberingGoesOn
  <2>4. ~Exists(s) /\ Exists(s)' => s = sequence + 1
    <3>1. ASSUME NEW i \in JobId, ~Exists(i), Exists(i)' PROVE i = sequence + 1
      BY <1>2, <3>1, AppearsAtEnd
    <3>2. Exists(s)' => jobs'[s].status # "absent"
      BY DEF Exists
    <3> QED BY <1>0, <3>1, <3>2 DEF Exists
  <2>5. s <= sequence' /\ ~(s = sequence + 1)
    BY <1>0, <1>2, <2>1, <2>3 DEF JobId
  <2> QED BY <1>1, <2>1, <2>2, <2>4, <2>5
<1>4. SelectedInv'
  BY <1>3 DEF SelectedInv
<1>5. ClaimedInv'
  <2> SUFFICES ASSUME cli.action = "-k", since'.changes \cap {"emptied", "retried"} = {}
               PROVE  ~Queued(s)' /\ "claimed" \notin since'.changes
    BY DEF ClaimedInv, Queued
  <2>1. ~Queued(s) /\ "claimed" \notin since.changes
    BY <1>1 DEF CliInv, ClaimedInv
  <2>2. "claimed" \notin Changes
    <3>1. CASE jobs' = jobs
      BY <3>1 DEF Changes
    <3>2. CASE jobs' # jobs
      BY <1>0, <2>1, <3>2, ChangesOfSelected
    <3> QED BY <3>1, <3>2
  <2>3. ASSUME Queued(s)' PROVE FALSE
    <3>1. jobs'[s].status = "queued"
      BY <2>3 DEF Queued
    <3>2. ASSUME NEW i \in JobId, i = s PROVE ~Exists(i) \/ Failed(i)
      BY <1>2, <2>1, <3>1, <3>2, QueuedAgain DEF Queued
    <3>3. Exists(s)
      BY <1>1, <1>3, <3>1 DEF Exists
    <3>4. Failed(s)
      BY <1>0, <3>2, <3>3
    <3>5. jobs' # jobs
      BY <2>1, <3>1 DEF Queued
    <3>6. "retried" \in Changes
      BY <1>0, <2>3, <3>4, <3>5, ChangesOfSelected
    <3> QED BY <1>1, <3>6
  <2> QED BY <1>1, <2>1, <2>2, <2>3
<1> QED BY <1>4, <1>5

\* When the latest job is selected it exists, and one to be cancelled was started.
LEMMA SelectionIsGood ==
  ASSUME CliInv, Watch, NEW i \in JobId, SelectLatest(i)
  PROVE  SelectedInv' /\ ClaimedInv'
<1>1. /\ since'.changes = {} /\ since'.fresh = {}
  BY WatchOff DEF SelectLatest
<1>2. /\ jobs' = jobs /\ sequence' = sequence
      /\ cli'.selected = i /\ cli'.action = cli.action
  BY DEF SelectLatest, vars, CliInv, CliFields
<1>3. Exists(i) /\ i <= sequence
  BY DEF SelectLatest, Latest, CliInv, Inv, IdsBelowSequence
<1>4. cli.action = "-k" => ~Queued(i)
  BY DEF SelectLatest, Latest, CliInv, StartedInv
<1>5. SelectedInv'
  BY <1>1, <1>2, <1>3 DEF SelectedInv, Exists
<1>6. ClaimedInv'
  BY <1>1, <1>2, <1>4 DEF ClaimedInv, Queued
<1> QED BY <1>5, <1>6

\* The request is handled once, and the phases follow each other.
LEMMA CallGoesOn == ASSUME CliInv, CliNext PROVE CliFields' /\ CallInv' /\ PhaseInv'
<1> USE ActionNames DEF CliInv, CliFields, CallInv, PhaseInv, Ended
<1>0. Watch
  BY DEF CliNext
<1>1. \/ since'.handled = 0 /\ cli.phase \in {"idle", "start"}
      \/ /\ since'.handled = since.handled + (IF wire = "request" /\ wire' = "answer" THEN 1 ELSE 0)
         /\ cli.phase \notin {"idle", "start"}
  BY <1>0, WatchOn, WatchOff
<1>2. ASSUME NEW action \in Actions, Begin(action) PROVE CliFields' /\ CallInv' /\ PhaseInv'
  BY <1>1, <1>2 DEF Begin
<1>3. CASE FetchPage
  <2>1. /\ cli.action = "-l" /\ cli.phase \in {"start", "paging"} /\ wire' = wire
        /\ \E listed, phase : /\ phase \in {"paging", "done"}
                             /\ cli' = [cli EXCEPT !.listed = listed, !.phase = phase]
    BY <1>3 DEF FetchPage
  <2>2. /\ CliFields' /\ cli'.phase \in {"paging", "done"} /\ cli'.action = "-l"
        /\ cli'.selected = cli.selected
    BY <2>1
  <2>3. CallInv'
    BY <1>1, <2>1, <2>2
  <2>4. PhaseInv'
    BY <2>1, <2>2
  <2> QED BY <2>2, <2>3, <2>4
<1>4. CASE ReadFails
  <2>1. /\ cli.phase \in {"start", "paging"} /\ wire' = wire
        /\ cli' = [cli EXCEPT !.phase = "failed", !.listed = <<>>]
    BY <1>4 DEF ReadFails
  <2>2. /\ CliFields' /\ cli'.phase = "failed" /\ cli'.action = cli.action
        /\ cli'.selected = cli.selected
    BY <2>1
  <2>3. CallInv'
    BY <1>1, <2>1, <2>2
  <2>4. PhaseInv'
    BY <2>1, <2>2
  <2> QED BY <2>2, <2>3, <2>4
<1>5. CASE Send
  BY <1>1, <1>5 DEF Send, Now
<1>6. CASE Handle
  BY <1>1, <1>6 DEF Handle
<1>7. CASE Lose
  BY <1>1, <1>7 DEF Lose
<1>8. CASE Answer
  BY <1>1, <1>8 DEF Answer, Now
<1>9. CASE GiveUp
  BY <1>1, <1>9 DEF GiveUp, Now
<1>10. ASSUME NEW i \in JobId, SelectLatest(i) PROVE CliFields' /\ CallInv' /\ PhaseInv'
  <2>1. /\ cli.action \in Shorthand /\ cli.phase = "start" /\ wire' = wire
        /\ cli' = [cli EXCEPT !.phase = "selected", !.selected = i]
    BY <1>10 DEF SelectLatest
  <2>2. /\ CliFields' /\ cli'.phase = "selected" /\ cli'.action = cli.action
        /\ cli'.selected = i
    BY <2>1
  <2>3. CallInv'
    BY <1>1, <2>1, <2>2
  <2>4. i # NoJob
    BY DEF JobId, NoJob
  <2>5. PhaseInv'
    BY <2>1, <2>2, <2>4
  <2> QED BY <2>2, <2>3, <2>5
<1>11. ASSUME NEW w \in Worker, ListWorkers(w) PROVE CliFields' /\ CallInv' /\ PhaseInv'
  BY <1>1, <1>11 DEF ListWorkers
<1>12. CASE Elsewhere
  BY <1>1, <1>12 DEF Elsewhere
<1> QED BY <1>2, <1>3, <1>4, <1>5, <1>6, <1>7, <1>8, <1>9, <1>10, <1>11, <1>12 DEF CliNext, CliStep

\* The invariant holds from the start ...
LEMMA CliInitInv == ASSUME CliInit PROVE CliInv
<1>1. Inv
  BY InitInv DEF CliInit
<1> QED BY <1>1 DEF CliInit, CliInv, CliFields, CallInv, PhaseInv, SelectedInv, ClaimedInv, StartedInv,
                    Nothing, Ended

\* ... and is kept by every step.
LEMMA CliNextInv == ASSUME CliInv, [CliNext]_cliVars PROVE CliInv'
<1>1. [Next]_vars
  BY CliIsNext
<1>2. Inv'
  BY <1>1, NextInv DEF CliInv
<1>3. CASE CliNext
  <2>1. Stamp /\ Watch
    BY <1>3 DEF CliNext
  <2>2. CliFields' /\ CallInv' /\ PhaseInv'
    BY <1>3, CallGoesOn
  <2>3. StartedInv'
    BY <2>1, StampKeepsStarted
  <2>4. SelectedInv' /\ ClaimedInv'
    <3>1. CASE cli'.selected = NoJob
      BY <3>1 DEF SelectedInv, ClaimedInv
    <3>2. CASE cli'.selected # NoJob
      BY <1>1, <1>3, <2>1, <3>2, SelectionStays, SelectedKept, SelectionIsGood
    <3> QED BY <3>1, <3>2
  <2> QED BY <1>2, <2>2, <2>3, <2>4 DEF CliInv
<1>4. CASE UNCHANGED cliVars
  BY <1>2, <1>4 DEF cliVars, vars, CliInv, CliFields, CallInv, PhaseInv, SelectedInv, ClaimedInv,
                    StartedInv, Exists, Queued
<1> QED BY <1>3, <1>4

\* What an invocation knows about its request and its selected job holds in
\* every state, whatever the other clients and the workers do meanwhile.
THEOREM CliInvariance == CliSpec => []CliInv
<1>1. CliInit => CliInv
  BY CliInitInv
<1>2. CliInv /\ [CliNext]_cliVars => CliInv'
  BY CliNextInv
<1> QED BY <1>1, <1>2, PTL DEF CliSpec

-----------------------------------------------------------------------------
(* What follows.                                                           *)

\* An invocation changes the queue at most once, whatever gets lost, and has
\* changed it when it says so.
THEOREM HandledAtMostOnce == CliSpec => []HandledOnce
<1>1. CliInv => HandledOnce
  BY DEF CliInv, CallInv, HandledOnce
<1> QED BY <1>1, CliInvariance, PTL

\* The invocation and its surroundings are steps of the queue, so everything
\* proved about Scheduler holds here too.
THEOREM CommandLineImplementsScheduler == CliSpec => Spec
<1>1. CliInit => Init
  BY DEF CliInit
<1>2. CliInv /\ [CliNext]_cliVars => [Next]_vars
  BY CliIsNext
<1> QED BY <1>1, <1>2, CliInvariance, PTL DEF CliSpec, Spec

\* The request of a shorthand changes the row of the selected job and no other.
LEMMA OtherRowsKept ==
  ASSUME CliInv, Handle, cli.selected # NoJob, NEW i \in JobId, i # cli.selected
  PROVE  jobs'[i] \in {jobs[i], ExpiredJobs[i]}
<1>1. CASE Refused
  BY <1>1 DEF Handle, vars
<1>2. CASE ~Refused
  <2>1. Urgent(<<cli.selected>>) \/ Remove({cli.selected}) \/ Cancel(cli.selected)
    BY <1>2, PerformIsNext DEF Handle
  <2>2. CASE Urgent(<<cli.selected>>)
    BY <2>2 DEF Urgent
  <2>3. CASE Remove({cli.selected})
    BY <2>3 DEF Remove
  <2>4. CASE Cancel(cli.selected)
    BY <2>4 DEF Cancel, CliInv, Inv, TypeOK
  <2> QED BY <2>1, <2>2, <2>3, <2>4
<1> QED BY <1>1, <1>2

\* -r, -u and -k without an id act on the job that was the latest when they
\* asked, and on another submission or run of it only after a clear or retry.
THEOREM ActsOnSelectedAlways == CliSpec => ActsOnSelected
<1>1. ASSUME CliInv, [CliNext]_cliVars, wire = "request", wire' = "answer", cli.selected # NoJob
      PROVE  /\ \A i \in JobId : i # cli.selected => jobs'[i] \in {jobs[i], ExpiredJobs[i]}
             /\ cli.selected \in since.fresh => "emptied" \in since.changes
             /\ cli.action = "-k" /\ "claimed" \in since.changes
                  => since.changes \cap {"emptied", "retried"} # {}
  <2>1. Handle
    BY <1>1 DEF cliVars, CliNext, CliStep, Begin, FetchPage, ReadFails, Send, Lose, Answer, GiveUp,
                SelectLatest, ListWorkers, Elsewhere
  <2>2. \A i \in JobId : i # cli.selected => jobs'[i] \in {jobs[i], ExpiredJobs[i]}
    BY <1>1, <2>1, OtherRowsKept
  <2>3. cli.selected \in since.fresh => "emptied" \in since.changes
    BY <1>1 DEF CliInv, SelectedInv
  <2>4. cli.action = "-k" /\ "claimed" \in since.changes
          => since.changes \cap {"emptied", "retried"} # {}
    BY <1>1 DEF CliInv, ClaimedInv
  <2> QED BY <2>2, <2>3, <2>4
<1> QED BY <1>1, CliInvariance, PTL DEF CliSpec, ActsOnSelected

-----------------------------------------------------------------------------
(* The order of a listing.                                                 *)

\* The rows come in a total order.
LEMMA EarlierIsOrder ==
  ASSUME NEW table \in [JobId -> JobRow], NEW i \in JobId, NEW k \in JobId
  PROVE  /\ ~(Earlier(table, i, k) /\ Earlier(table, k, i))
         /\ i # k => Earlier(table, i, k) \/ Earlier(table, k, i)
         /\ \A j \in JobId : Earlier(table, i, k) /\ Earlier(table, k, j) => Earlier(table, i, j)
<1>1. \A j \in JobId : j \in Int /\ Group(table[j]) \in Int /\ table[j].queue_position \in Int
  BY DEF Group, JobRow, JobId
<1> QED BY <1>1 DEF Earlier

\* There are finitely many.
LEMMA RowsAreFinite ==
  ASSUME NEW table
  PROVE  /\ Rows(table) \subseteq JobId /\ IsFiniteSet(Rows(table))
         /\ Cardinality(Rows(table)) \in Nat
         /\ \A S \in SUBSET Rows(table) : IsFiniteSet(S) /\ Cardinality(S) \in Nat
<1>1. IsFiniteSet(JobId)
  BY FS_Interval DEF JobId
<1>2. Rows(table) \in SUBSET JobId
  BY DEF Rows
<1>3. IsFiniteSet(Rows(table))
  BY <1>1, <1>2, FS_Subset
<1> QED BY <1>2, <1>3, FS_Subset, FS_CardinalityType

\* What is ahead of a row is less than what is ahead of a later one ...
LEMMA AheadGrows ==
  ASSUME NEW table \in [JobId -> JobRow], NEW i \in Rows(table), NEW k \in Rows(table),
         Earlier(table, i, k)
  PROVE  Ahead(table, i) < Ahead(table, k)
<1> DEFINE I == {j \in Rows(table) : Earlier(table, j, i)}
           K == {j \in Rows(table) : Earlier(table, j, k)}
<1>1. Rows(table) \subseteq JobId /\ IsFiniteSet(K) /\ Cardinality(I) \in Nat /\ Cardinality(K) \in Nat
  BY RowsAreFinite
<1>2. I \in SUBSET K
  BY <1>1, EarlierIsOrder
<1>3. i \in K /\ i \notin I
  BY <1>1, EarlierIsOrder
<1>4. Cardinality(I) <= Cardinality(K) /\ (Cardinality(K) = Cardinality(I) => K = I)
  BY <1>1, <1>2, FS_Subset
<1> QED BY <1>1, <1>3, <1>4 DEF Ahead

\* ... and less than the number of rows.
LEMMA AheadIsBounded ==
  ASSUME NEW table \in [JobId -> JobRow], NEW i \in Rows(table)
  PROVE  Ahead(table, i) \in Nat /\ Ahead(table, i) < Cardinality(Rows(table))
<1> DEFINE R == Rows(table)
           I == {j \in R : Earlier(table, j, i)}
<1>1. R \subseteq JobId /\ IsFiniteSet(R) /\ Cardinality(I) \in Nat /\ Cardinality(R) \in Nat
  BY RowsAreFinite
<1>2. I \in SUBSET R /\ i \in R /\ i \notin I
  BY <1>1, EarlierIsOrder
<1>3. Cardinality(I) <= Cardinality(R) /\ (Cardinality(R) = Cardinality(I) => R = I)
  BY <1>1, <1>2, FS_Subset
<1> QED BY <1>1, <1>2, <1>3 DEF Ahead

\* Every place in the listing is that of one row.
LEMMA PlacesAreTaken ==
  ASSUME NEW table \in [JobId -> JobRow], NEW n \in 1..Cardinality(Rows(table))
  PROVE  \E i \in Rows(table) : Ahead(table, i) = n - 1
<1> DEFINE R == Rows(table)
           N == Cardinality(R)
           f == [i \in R |-> Ahead(table, i) + 1]
<1>1. R \subseteq JobId /\ N \in Nat
  BY RowsAreFinite
<1>2. \A i \in R : Ahead(table, i) \in Nat /\ Ahead(table, i) < N
  BY AheadIsBounded
<1>3. f \in [R -> 1..N]
  BY <1>1, <1>2
<1>4. \A i, k \in R : f[i] = f[k] => i = k
  <2> SUFFICES ASSUME NEW i \in R, NEW k \in R, i # k PROVE f[i] # f[k]
    OBVIOUS
  <2>1. Earlier(table, i, k) \/ Earlier(table, k, i)
    BY <1>1, EarlierIsOrder
  <2>2. Ahead(table, i) < Ahead(table, k) \/ Ahead(table, k) < Ahead(table, i)
    BY <2>1, AheadGrows
  <2> QED BY <1>2, <2>2
<1>5. f \in Injection(R, 1..N)
  BY <1>3, <1>4 DEF Injection, IsInjective
<1>6. IsFiniteSet(1..N) /\ Cardinality(1..N) = N
  BY <1>1, FS_Interval
<1>7. f \in Surjection(R, 1..N)
  BY <1>5, <1>6, FS_Injection
<1>8. PICK i \in R : f[i] = n
  BY <1>7 DEF Surjection
<1>9. Ahead(table, i) = n - 1
  BY <1>2, <1>8
<1> QED BY <1>9

\* The listing holds every row once, in order.
LEMMA ListingPlaces ==
  ASSUME NEW table \in [JobId -> JobRow]
  PROVE  /\ Listing(table) \in Seq(JobId) /\ Len(Listing(table)) = Cardinality(Rows(table))
         /\ Cardinality(Rows(table)) \in Nat
         /\ \A n \in 1..Cardinality(Rows(table)) :
              Listing(table)[n] \in Rows(table) /\ Ahead(table, Listing(table)[n]) = n - 1
         /\ \A i \in Rows(table) : /\ Ahead(table, i) + 1 \in 1..Cardinality(Rows(table))
                                   /\ Listing(table)[Ahead(table, i) + 1] = i
<1> DEFINE R == Rows(table)
           N == Cardinality(R)
           all == Listing(table)
<1>1. R \subseteq JobId /\ N \in Nat
  BY RowsAreFinite
<1>2. all = [n \in 1..N |-> CHOOSE i \in R : Ahead(table, i) = n - 1]
  BY DEF Listing
<1> HIDE DEF all
<1>3. ASSUME NEW n \in 1..N PROVE all[n] \in R /\ Ahead(table, all[n]) = n - 1
  <2>1. \E i \in R : Ahead(table, i) = n - 1
    BY PlacesAreTaken
  <2>2. all[n] = CHOOSE i \in R : Ahead(table, i) = n - 1
    BY <1>2
  <2> QED BY <2>1, <2>2
<1>4. all \in [1..N -> JobId]
  BY <1>1, <1>2, <1>3
<1>5. all \in Seq(JobId) /\ Len(all) = N
  BY <1>1, <1>4
<1>6. ASSUME NEW i \in R PROVE Ahead(table, i) + 1 \in 1..N /\ all[Ahead(table, i) + 1] = i
  <2> DEFINE k == all[Ahead(table, i) + 1]
  <2>1. Ahead(table, i) \in Nat /\ Ahead(table, i) + 1 \in 1..N
    BY <1>1, AheadIsBounded
  <2>2. k \in R /\ Ahead(table, k) = Ahead(table, i)
    BY <1>3, <2>1
  <2>3. i # k => Earlier(table, i, k) \/ Earlier(table, k, i)
    BY <1>1, <2>2, EarlierIsOrder
  <2>4. i = k
    BY <2>1, <2>2, <2>3, AheadGrows
  <2> QED BY <2>1, <2>4
<1> QED BY <1>1, <1>3, <1>5, <1>6 DEF all

\* A page holds the rows from its offset on, and all of them unless it is full.
LEMMA PagePlaces ==
  ASSUME NEW table \in [JobId -> JobRow], NEW offset \in Nat
  PROVE  /\ Page(table, offset) \in Seq(JobId)
         /\ \A n \in 1..Len(Page(table, offset)) :
              /\ Page(table, offset)[n] \in Rows(table)
              /\ Ahead(table, Page(table, offset)[n]) = offset + n - 1
         /\ \A i \in Rows(table) :
              offset <= Ahead(table, i) /\ Ahead(table, i) < offset + Len(Page(table, offset))
                => Page(table, offset)[Ahead(table, i) - offset + 1] = i
         /\ Len(Page(table, offset)) < PageSize =>
              \A i \in Rows(table) : Ahead(table, i) < offset + Len(Page(table, offset))
<1> DEFINE all == Listing(table)
           N   == Cardinality(Rows(table))
           m   == IF offset + PageSize < N THEN offset + PageSize ELSE N
           p   == Page(table, offset)
<1>1. /\ all \in Seq(JobId) /\ Len(all) = N /\ N \in Nat
      /\ \A n \in 1..N : all[n] \in Rows(table) /\ Ahead(table, all[n]) = n - 1
      /\ \A i \in Rows(table) : Ahead(table, i) + 1 \in 1..N /\ all[Ahead(table, i) + 1] = i
  BY ListingPlaces
<1>2. \A i \in Rows(table) : Ahead(table, i) \in Nat
  BY AheadIsBounded
<1>3. p = SubSeq(all, offset + 1, m)
  BY <1>1 DEF Page
<1> HIDE DEF all, p
<1>4. m \in Nat /\ m <= N /\ m <= offset + PageSize /\ (m < offset + PageSize => m = N)
  BY <1>1
<1> HIDE DEF m, N
<1>5. /\ p \in Seq(JobId)
      /\ Len(p) = IF offset < m THEN m - offset ELSE 0
      /\ \A n \in 1..Len(p) : p[n] = all[offset + n]
  <2>1. ASSUME NEW n \in (offset + 1)..m PROVE all[n] \in JobId
    BY <1>1, <1>4, <2>1
  <2>2. /\ Len(p) = IF offset + 1 <= m THEN m - (offset + 1) + 1 ELSE 0
        /\ \A n \in 1..Len(p) : p[n] = all[offset + 1 + n - 1]
        /\ p \in Seq(JobId)
    BY <1>1, <1>3, <1>4, <2>1, SubSeqProperties
  <2> QED BY <1>4, <2>2
<1>6. ASSUME NEW n \in 1..Len(p) PROVE p[n] \in Rows(table) /\ Ahead(table, p[n]) = offset + n - 1
  <2>1. offset + n \in 1..N
    BY <1>1, <1>4, <1>5
  <2> QED BY <1>1, <1>5, <2>1
<1>7. ASSUME NEW i \in Rows(table), offset <= Ahead(table, i), Ahead(table, i) < offset + Len(p)
      PROVE  p[Ahead(table, i) - offset + 1] = i
  <2>1. Ahead(table, i) - offset + 1 \in 1..Len(p)
    BY <1>2, <1>4, <1>5, <1>7
  <2>2. p[Ahead(table, i) - offset + 1] = all[offset + (Ahead(table, i) - offset + 1)]
    BY <1>5, <2>1
  <2>3. offset + (Ahead(table, i) - offset + 1) = Ahead(table, i) + 1
    BY <1>2
  <2> QED BY <1>1, <2>2, <2>3
<1>8. ASSUME Len(p) < PageSize, NEW i \in Rows(table) PROVE Ahead(table, i) < offset + Len(p)
  <2>1. PageSize \in Nat /\ PageSize > 0 /\ N \in Nat
    BY <1>1
  <2>2. m = N
    BY <1>4, <1>5, <1>8, <2>1
  <2>3. Ahead(table, i) \in Nat /\ Ahead(table, i) < N
    BY <1>1, <1>2, <1>8
  <2> QED BY <1>5, <2>1, <2>2, <2>3
<1> QED BY <1>5, <1>6, <1>7, <1>8 DEF p

-----------------------------------------------------------------------------
(* What a listing of several pages shows.                                  *)

\* A job that has not been seen is not among those ahead of the next page.
Covers ==
  since.changes \cap {"removed", "moved"} = {} =>
    \A i \in Rows(jobs) : i \notin since.fresh /\ Ahead(jobs, i) < Len(cli.listed) =>
      \E n \in DOMAIN cli.listed : cli.listed[n] = i

\* A job that has been seen is, and was seen once.
Distinct ==
  since.fresh = {} /\ "moved" \notin since.changes =>
    /\ \A n \in DOMAIN cli.listed :
         cli.listed[n] \in Rows(jobs) => Ahead(jobs, cli.listed[n]) < Len(cli.listed)
    /\ \A m, n \in DOMAIN cli.listed : cli.listed[m] = cli.listed[n] => m = n

ListInv ==
  /\ cli.listed \in Seq(JobId)
  /\ cli.phase \in {"idle", "start"} => cli.listed = <<>>
  /\ cli.phase = "paging" => Covers /\ Distinct

\* Without removals and moves, nothing that is ahead of a row goes away.
LEMMA AheadRises ==
  ASSUME NEW a \in [JobId -> JobRow], NEW b \in [JobId -> JobRow], Rows(a) \subseteq Rows(b),
         \A i, k \in Rows(a) \cap Rows(b) : ~(Earlier(a, i, k) /\ Earlier(b, k, i)),
         NEW i \in Rows(a)
  PROVE  Ahead(a, i) <= Ahead(b, i)
<1> DEFINE A == {k \in Rows(a) : Earlier(a, k, i)}
           B == {k \in Rows(b) : Earlier(b, k, i)}
<1>1. Rows(a) \subseteq JobId /\ IsFiniteSet(B)
  BY RowsAreFinite
<1>2. ASSUME NEW k \in A PROVE k \in B
  <2>1. k \in Rows(a) \cap Rows(b) /\ i \in Rows(a) \cap Rows(b) /\ Earlier(a, k, i)
    OBVIOUS
  <2>2. k # i
    BY <1>1, <2>1, EarlierIsOrder
  <2>3. ~Earlier(b, i, k)
    BY <2>1
  <2>4. Earlier(b, k, i)
    BY <1>1, <2>1, <2>2, <2>3, EarlierIsOrder
  <2> QED BY <2>1, <2>4
<1>3. A \in SUBSET B
  BY <1>2
<1> QED BY <1>1, <1>3, FS_Subset DEF Ahead

\* What is remembered of a step between two pages.
LEMMA ListingWatched ==
  ASSUME Inv, Inv', Watch, cli.phase = "paging", cli.action = "-l"
  PROVE  /\ since'.fresh = since.fresh \cup {i \in JobId : i \notin Rows(jobs) /\ i \in Rows(jobs')}
         /\ since.changes \subseteq since'.changes
         /\ "removed" \notin since'.changes => Rows(jobs) \subseteq Rows(jobs')
         /\ "moved" \notin since'.changes =>
              \A i, k \in Rows(jobs) \cap Rows(jobs') :
                ~(Earlier(jobs, i, k) /\ Earlier(jobs', k, i))
<1>1. /\ since'.fresh = since.fresh \cup {i \in JobId : ~Exists(i) /\ Exists(i)'}
      /\ since'.changes = since.changes \cup Changes
  BY DEF Watch
<1>2. \A i \in JobId : (Exists(i) <=> i \in Rows(jobs)) /\ (Exists(i)' <=> i \in Rows(jobs'))
  BY DEF Exists, Rows
<1>3. jobs \in [JobId -> JobRow]
  BY DEF Inv, TypeOK
<1>4. CASE jobs' = jobs
  <2>1. \A i, k \in Rows(jobs) : ~(Earlier(jobs, i, k) /\ Earlier(jobs, k, i))
    BY <1>3, EarlierIsOrder DEF Rows
  <2> QED BY <1>1, <1>2, <1>4, <2>1
<1>5. CASE jobs' # jobs
  <2>1. "removed" \notin Changes => \A i \in JobId : ~(Exists(i) /\ ~Exists(i)')
    BY <1>5 DEF Changes
  <2>2. "moved" \notin Changes =>
          \A i, k \in Rows(jobs) \cap Rows(jobs') : ~(Earlier(jobs, i, k) /\ Earlier(jobs', k, i))
    BY <1>5 DEF Changes
  <2>3. "removed" \notin Changes => Rows(jobs) \subseteq Rows(jobs')
    BY <1>2, <2>1 DEF Rows
  <2> QED BY <1>1, <1>2, <2>2, <2>3
<1> QED BY <1>4, <1>5

\* What the pages so far show stays right between the requests.
LEMMA PagesStayRight ==
  ASSUME Inv, Inv', Watch, cli.phase = "paging", cli.action = "-l", ListInv
  PROVE  /\ since'.changes \cap {"removed", "moved"} = {} =>
              \A i \in Rows(jobs') : i \notin since'.fresh /\ Ahead(jobs', i) < Len(cli.listed) =>
                \E n \in DOMAIN cli.listed : cli.listed[n] = i
         /\ since'.fresh = {} /\ "moved" \notin since'.changes =>
              /\ \A n \in DOMAIN cli.listed :
                   cli.listed[n] \in Rows(jobs') => Ahead(jobs', cli.listed[n]) < Len(cli.listed)
              /\ \A m, n \in DOMAIN cli.listed : cli.listed[m] = cli.listed[n] => m = n
<1>1. /\ since'.fresh = since.fresh \cup {i \in JobId : i \notin Rows(jobs) /\ i \in Rows(jobs')}
      /\ since.changes \subseteq since'.changes
      /\ "removed" \notin since'.changes => Rows(jobs) \subseteq Rows(jobs')
      /\ "moved" \notin since'.changes =>
           \A i, k \in Rows(jobs) \cap Rows(jobs') : ~(Earlier(jobs, i, k) /\ Earlier(jobs', k, i))
  BY ListingWatched
<1>2. /\ jobs \in [JobId -> JobRow] /\ jobs' \in [JobId -> JobRow]
      /\ Rows(jobs) \subseteq JobId /\ Rows(jobs') \subseteq JobId
      /\ cli.listed \in Seq(JobId) /\ Len(cli.listed) \in Nat /\ Covers /\ Distinct
  BY DEF Inv, TypeOK, Rows, ListInv
<1>3. /\ \A i \in Rows(jobs) : Ahead(jobs, i) \in Nat
      /\ \A i \in Rows(jobs') : Ahead(jobs', i) \in Nat
  BY <1>2, AheadIsBounded
<1>4. ASSUME since'.changes \cap {"removed", "moved"} = {}, NEW i \in Rows(jobs'),
             i \notin since'.fresh, Ahead(jobs', i) < Len(cli.listed)
      PROVE  \E n \in DOMAIN cli.listed : cli.listed[n] = i
  <2>1. i \in Rows(jobs) /\ i \notin since.fresh
    BY <1>1, <1>2, <1>4
  <2>2. Ahead(jobs, i) <= Ahead(jobs', i)
    BY <1>1, <1>2, <1>4, <2>1, AheadRises
  <2>3. Ahead(jobs, i) < Len(cli.listed)
    BY <1>2, <1>3, <1>4, <2>1, <2>2
  <2> QED BY <1>1, <1>2, <1>4, <2>1, <2>3 DEF Covers
<1>5. ASSUME since'.fresh = {}, "moved" \notin since'.changes
      PROVE  /\ \A n \in DOMAIN cli.listed :
                  cli.listed[n] \in Rows(jobs') => Ahead(jobs', cli.listed[n]) < Len(cli.listed)
             /\ \A m, n \in DOMAIN cli.listed : cli.listed[m] = cli.listed[n] => m = n
  <2>1. /\ \A n \in DOMAIN cli.listed :
             cli.listed[n] \in Rows(jobs) => Ahead(jobs, cli.listed[n]) < Len(cli.listed)
        /\ \A m, n \in DOMAIN cli.listed : cli.listed[m] = cli.listed[n] => m = n
    BY <1>1, <1>2, <1>5 DEF Distinct
  <2>2. Rows(jobs') \subseteq Rows(jobs)
    BY <1>1, <1>2, <1>5
  <2>3. \A i, k \in Rows(jobs') \cap Rows(jobs) : ~(Earlier(jobs', i, k) /\ Earlier(jobs, k, i))
    BY <1>1, <1>5
  <2>4. \A i \in Rows(jobs') : Ahead(jobs', i) <= Ahead(jobs, i)
    BY <1>2, <2>2, <2>3, AheadRises
  <2>5. ASSUME NEW n \in DOMAIN cli.listed, cli.listed[n] \in Rows(jobs')
        PROVE  Ahead(jobs', cli.listed[n]) < Len(cli.listed)
    <3>1. /\ Ahead(jobs', cli.listed[n]) <= Ahead(jobs, cli.listed[n])
          /\ Ahead(jobs, cli.listed[n]) < Len(cli.listed)
      BY <2>1, <2>2, <2>4, <2>5
    <3> QED BY <1>2, <1>3, <2>2, <2>5, <3>1
  <2> QED BY <2>1, <2>5
<1> QED BY <1>4, <1>5

\* A page that is added leaves out no job ahead of its end and repeats none.
LEMMA PageAdds ==
  ASSUME CliInv, Inv', Watch, ListInv, FetchPage
  PROVE  /\ cli'.listed \in Seq(JobId)
         /\ Covers' /\ Distinct'
         /\ cli'.phase \in {"paging", "done"}
         /\ cli'.phase = "done" => \A i \in Rows(jobs') : Ahead(jobs', i) < Len(cli'.listed)
<1> DEFINE L == cli.listed
           p == Page(jobs', Len(L))
           all == cli'.listed
<1>1. /\ cli.action = "-l" /\ cli.phase \in {"start", "paging"}
      /\ all = L \o p /\ cli'.phase = IF Len(p) < PageSize THEN "done" ELSE "paging"
  BY DEF FetchPage, CliInv, CliFields
<1>2. /\ Inv /\ jobs' \in [JobId -> JobRow]
      /\ L \in Seq(JobId) /\ Len(L) \in Nat /\ DOMAIN L = 1..Len(L)
  BY DEF CliInv, Inv, TypeOK, ListInv
<1>3. /\ p \in Seq(JobId)
      /\ \A n \in 1..Len(p) : p[n] \in Rows(jobs') /\ Ahead(jobs', p[n]) = Len(L) + n - 1
      /\ \A i \in Rows(jobs') :
           Len(L) <= Ahead(jobs', i) /\ Ahead(jobs', i) < Len(L) + Len(p)
             => p[Ahead(jobs', i) - Len(L) + 1] = i
      /\ Len(p) < PageSize => \A i \in Rows(jobs') : Ahead(jobs', i) < Len(L) + Len(p)
  BY <1>2, PagePlaces
<1>4. \A i \in Rows(jobs') : Ahead(jobs', i) \in Nat
  BY <1>2, AheadIsBounded
<1> HIDE DEF p, all
<1>5. /\ all \in Seq(JobId) /\ Len(p) \in Nat /\ Len(all) = Len(L) + Len(p)
      /\ DOMAIN all = 1..(Len(L) + Len(p))
      /\ \A n \in 1..Len(L) : all[n] = L[n]
      /\ \A n \in 1..Len(p) : all[Len(L) + n] = p[n]
  BY <1>1, <1>2, <1>3
<1>6. /\ since'.changes \cap {"removed", "moved"} = {} =>
           \A i \in Rows(jobs') : i \notin since'.fresh /\ Ahead(jobs', i) < Len(L) =>
             \E n \in DOMAIN L : L[n] = i
      /\ since'.fresh = {} /\ "moved" \notin since'.changes =>
           /\ \A n \in DOMAIN L : L[n] \in Rows(jobs') => Ahead(jobs', L[n]) < Len(L)
           /\ \A m, n \in DOMAIN L : L[m] = L[n] => m = n
  <2>1. CASE cli.phase = "start"
    <3>1. L = <<>>
      BY <2>1 DEF ListInv
    <3> QED BY <1>4, <3>1
  <2>2. CASE cli.phase = "paging"
    BY <1>1, <1>2, <2>2, PagesStayRight
  <2> QED BY <1>1, <2>1, <2>2
<1>7. Covers'
  <2> SUFFICES ASSUME since'.changes \cap {"removed", "moved"} = {}, NEW i \in Rows(jobs'),
                      i \notin since'.fresh, Ahead(jobs', i) < Len(all)
               PROVE  \E n \in DOMAIN all : all[n] = i
    BY DEF Covers, all
  <2>1. CASE Ahead(jobs', i) < Len(L)
    <3>1. PICK n \in DOMAIN L : L[n] = i
      BY <1>6, <2>1
    <3>2. n \in DOMAIN all /\ all[n] = i
      BY <1>2, <1>5, <3>1
    <3> QED BY <3>2
  <2>2. CASE ~(Ahead(jobs', i) < Len(L))
    <3> DEFINE n == Ahead(jobs', i) - Len(L) + 1
    <3>1. Len(L) <= Ahead(jobs', i) /\ Ahead(jobs', i) < Len(L) + Len(p) /\ Ahead(jobs', i) \in Nat
      BY <1>2, <1>4, <1>5, <2>2
    <3>2. n \in 1..Len(p) /\ Len(L) + n \in DOMAIN all
      <4>1. Len(L) \in Nat /\ Len(p) \in Nat /\ DOMAIN all = 1..(Len(L) + Len(p))
        BY <1>2, <1>5
      <4>2. n \in 1..Len(p)
        BY <3>1, <4>1
      <4>3. Len(L) + n \in 1..(Len(L) + Len(p))
        BY <4>1, <4>2
      <4> QED BY <4>1, <4>2, <4>3
    <3>3. p[n] = i
      BY <1>3, <3>1
    <3> QED BY <1>5, <3>2, <3>3
  <2> QED BY <2>1, <2>2
<1>8. Distinct'
  <2> SUFFICES ASSUME since'.fresh = {}, "moved" \notin since'.changes
               PROVE  /\ \A n \in DOMAIN all : all[n] \in Rows(jobs') => Ahead(jobs', all[n]) < Len(all)
                      /\ \A m, n \in DOMAIN all : all[m] = all[n] => m = n
    BY DEF Distinct, all
  <2>1. ASSUME NEW n \in DOMAIN all
        PROVE  \/ n \in 1..Len(L) /\ all[n] = L[n]
               \/ /\ n \in (Len(L) + 1)..Len(all)
                  /\ all[n] \in Rows(jobs') /\ Ahead(jobs', all[n]) = n - 1
    <3>1. CASE n <= Len(L)
      BY <1>2, <1>5, <2>1, <3>1
    <3>2. CASE ~(n <= Len(L))
      <4>1. n - Len(L) \in 1..Len(p) /\ Len(L) + (n - Len(L)) = n
        BY <1>2, <1>5, <2>1, <3>2
      <4>2. all[n] = p[n - Len(L)]
        BY <1>5, <4>1
      <4>3. Ahead(jobs', p[n - Len(L)]) = n - 1 /\ p[n - Len(L)] \in Rows(jobs')
        BY <1>3, <4>1
      <4>4. n \in (Len(L) + 1)..Len(all)
        BY <1>2, <1>5, <2>1, <3>2
      <4> QED BY <4>2, <4>3, <4>4
    <3> QED BY <3>1, <3>2
  <2>2. ASSUME NEW n \in DOMAIN all, all[n] \in Rows(jobs') PROVE Ahead(jobs', all[n]) < Len(all)
    <3>1. Ahead(jobs', all[n]) \in Nat
      BY <1>4, <2>2
    <3>2. CASE n \in 1..Len(L) /\ all[n] = L[n]
      BY <1>2, <1>5, <1>6, <2>2, <3>1, <3>2
    <3>3. CASE n \in (Len(L) + 1)..Len(all) /\ Ahead(jobs', all[n]) = n - 1
      BY <1>2, <1>5, <3>3
    <3> QED BY <2>1, <3>2, <3>3
  <2>3. ASSUME NEW m \in DOMAIN all, NEW n \in DOMAIN all, all[m] = all[n], m <= n PROVE m = n
    <3>1. CASE n \in 1..Len(L) /\ all[n] = L[n]
      <4>1. m \in 1..Len(L) /\ all[m] = L[m]
        BY <1>2, <1>5, <2>3, <3>1
      <4> QED BY <1>2, <1>6, <2>3, <3>1, <4>1
    <3>2. CASE n \in (Len(L) + 1)..Len(all) /\ all[n] \in Rows(jobs') /\ Ahead(jobs', all[n]) = n - 1
      <4>1. CASE m \in 1..Len(L) /\ all[m] = L[m]
        <5>1. Ahead(jobs', all[m]) < Len(L)
          BY <1>2, <1>6, <2>3, <3>2, <4>1
        <5> QED BY <1>2, <2>3, <3>2, <5>1
      <4>2. CASE m \in (Len(L) + 1)..Len(all) /\ Ahead(jobs', all[m]) = m - 1
        BY <1>2, <1>5, <2>3, <3>2, <4>2
      <4> QED BY <2>1, <4>1, <4>2
    <3> QED BY <2>1, <3>1, <3>2
  <2>4. \A m, n \in DOMAIN all : m <= n \/ n <= m
    BY <1>2, <1>5
  <2> QED BY <2>2, <2>3, <2>4
<1>9. cli'.phase = "done" => \A i \in Rows(jobs') : Ahead(jobs', i) < Len(all)
  BY <1>1, <1>3, <1>5
<1> QED BY <1>1, <1>5, <1>7, <1>8, <1>9 DEF all

\* A step that is no page changes nothing of what a listing shows.
LEMMA OtherStepsList ==
  ASSUME CliInv, CliNext, ListInv, ~FetchPage
  PROVE  /\ cli'.listed \in {cli.listed, <<>>}
         /\ cli'.phase \in {"idle", "start"} => cli'.listed = <<>>
         /\ cli'.phase = "paging" => cli.phase = "paging" /\ cli'.listed = cli.listed
         /\ ~LastPage
<1> USE DEF CliInv, CliFields, ListInv, LastPage
<1>1. ASSUME NEW action \in Actions, Begin(action)
      PROVE  cli'.listed = cli.listed /\ cli'.phase = "start" /\ cli.phase = "idle"
  BY <1>1 DEF Begin
<1>2. ASSUME ReadFails PROVE cli'.listed = <<>> /\ cli'.phase = "failed"
  BY <1>2 DEF ReadFails
<1>3. ASSUME Send PROVE cli'.listed = cli.listed /\ cli'.phase = "sent"
  BY <1>3 DEF Send, Now
<1>4. ASSUME Handle \/ Lose \/ Elsewhere PROVE cli' = cli
  BY <1>4 DEF Handle, Lose, Elsewhere
<1>5. ASSUME Answer \/ GiveUp
      PROVE  cli'.listed = cli.listed /\ cli.phase = "sent" /\ cli'.phase \in {"done", "unknown"}
  BY <1>5 DEF Answer, GiveUp, Now
<1>6. ASSUME NEW i \in JobId, SelectLatest(i) PROVE cli'.listed = cli.listed /\ cli'.phase = "selected"
  BY <1>6 DEF SelectLatest
<1>7. ASSUME NEW w \in Worker, ListWorkers(w) PROVE cli'.listed = cli.listed /\ cli'.phase = "selected"
  BY <1>7 DEF ListWorkers
<1> QED BY <1>1, <1>2, <1>3, <1>4, <1>5, <1>6, <1>7 DEF CliNext, CliStep

\* Before the first page nothing is listed.
LEMMA ListInitInv == ASSUME CliInit PROVE ListInv
BY DEF CliInit, ListInv

\* The pages so far are right in every state.
LEMMA ListNextInv == ASSUME CliInv, CliInv', [CliNext]_cliVars, ListInv PROVE ListInv'
<1>1. Inv /\ Inv'
  BY DEF CliInv
<1>2. CASE UNCHANGED cliVars
  BY <1>2 DEF cliVars, vars, ListInv, Covers, Distinct
<1>3. CASE CliNext /\ FetchPage
  <2>1. Watch
    BY <1>3 DEF CliNext
  <2> QED BY <1>1, <1>3, <2>1, PageAdds DEF ListInv
<1>4. CASE CliNext /\ ~FetchPage
  <2>1. Watch
    BY <1>4 DEF CliNext
  <2>2. /\ cli'.listed \in {cli.listed, <<>>}
        /\ cli'.phase \in {"idle", "start"} => cli'.listed = <<>>
        /\ cli'.phase = "paging" => cli.phase = "paging" /\ cli'.listed = cli.listed
    BY <1>4, OtherStepsList
  <2>3. cli'.listed \in Seq(JobId)
    <3>1. cli.listed \in Seq(JobId)
      BY DEF ListInv
    <3>2. <<>> \in Seq(JobId)
      OBVIOUS
    <3> QED BY <2>2, <3>1, <3>2
  <2>4. ASSUME cli'.phase = "paging" PROVE Covers' /\ Distinct'
    <3>1. cli.phase = "paging" /\ cli.action = "-l" /\ cli'.listed = cli.listed
      BY <2>2, <2>4 DEF CliInv, PhaseInv
    <3> QED BY <1>1, <2>1, <3>1, PagesStayRight DEF Covers, Distinct
  <2> QED BY <2>2, <2>3, <2>4 DEF ListInv
<1> QED BY <1>2, <1>3, <1>4

\* At its last page a listing of several pages leaves out no job unless rows
\* were removed or moved meanwhile, and repeats none unless some were
\* submitted or moved.
THEOREM ListingAlwaysFaithful == CliSpec => ListingIsFaithful
<1>1. CliInit => ListInv
  BY ListInitInv
<1>2. CliInv /\ CliInv' /\ [CliNext]_cliVars /\ ListInv => ListInv'
  BY ListNextInv
<1>3. ASSUME CliInv, CliInv', [CliNext]_cliVars, ListInv, LastPage
      PROVE  MissesNothing /\ RepeatsNothing
  <2>1. CliNext
    BY <1>3 DEF LastPage, cliVars
  <2>2. FetchPage
    BY <1>3, <2>1, OtherStepsList
  <2>3. /\ Covers' /\ Distinct'
        /\ \A i \in Rows(jobs') : Ahead(jobs', i) < Len(cli'.listed)
    <3>1. Watch /\ Inv' /\ cli'.phase = "done"
      BY <1>3, <2>1 DEF CliNext, CliInv, LastPage
    <3> QED BY <1>3, <2>2, <3>1, PageAdds
  <2>4. MissesNothing
    BY <2>3 DEF MissesNothing, Covers, Exists, Rows
  <2>5. RepeatsNothing
    BY <2>3 DEF RepeatsNothing, Distinct
  <2> QED BY <2>4, <2>5
<1> QED BY <1>1, <1>2, <1>3, CliInvariance, PTL DEF CliSpec, ListingIsFaithful

-----------------------------------------------------------------------------
(* What a label pauses.                                                    *)

\* Only finitely many workers register, none is paused before it does, and a
\* label that is in use is the beginning of the id of a registered worker.
LabelInv ==
  /\ IsFiniteSet({w \in Worker : Registered(w)})
  /\ \A w \in Worker : ~Registered(w) => workers[w].paused = 0
  /\ cli.label \in Seq(Nat)
  /\ cli.action = "pause" /\ cli.phase \in {"selected", "sent", "unknown"} =>
       cli.worker \in Worker /\ Registered(cli.worker) /\ SeqExt!IsPrefix(cli.label, cli.worker)

\* A step registers at most one worker, and none is forgotten.
LEMMA RegisteredGrows ==
  ASSUME Inv, [Next]_vars
  PROVE  /\ \A v \in Worker : Registered(v) => Registered(v)'
         /\ \E w : \A v \in Worker : Registered(v)' => Registered(v) \/ v = w
<1>1. workers \in [Worker -> WorkerRow]
  BY DEF Inv, TypeOK
<1>2. ASSUME NEW w \in Worker, Register(w)
      PROVE  \A v \in Worker : /\ Registered(v) => Registered(v)'
                               /\ Registered(v)' => Registered(v) \/ v = w
  BY <1>1, <1>2 DEF Register, Registered
<1>3. ASSUME workers' = ReleasedWorkers PROVE \A v \in Worker : Registered(v) <=> Registered(v)'
  BY <1>1, <1>3 DEF ReleasedWorkers, Registered, Stale, WorkerRow
<1>4. ASSUME workers' = workers PROVE \A v \in Worker : Registered(v) <=> Registered(v)'
  BY <1>4 DEF Registered
<1>5. ASSUME NEW w \in Worker, Registered(w), NEW row, row.status # "absent",
             workers' = [workers EXCEPT ![w] = row]
      PROVE  \A v \in Worker : Registered(v) <=> Registered(v)'
  BY <1>1, <1>5 DEF Registered
<1>6. ASSUME NEW w \in Worker, NEW paused, SetWorkerPaused(w, paused)
      PROVE  \A v \in Worker : Registered(v) <=> Registered(v)'
  BY <1>1, <1>6 DEF SetWorkerPaused, Registered, WorkerRow
<1>7. ASSUME NEW w \in Worker, NEW i \in JobId, ClaimNext(w, i)
      PROVE  \A v \in Worker : Registered(v) <=> Registered(v)'
  BY <1>1, <1>7 DEF ClaimNext, Registered, WorkerRow
<1>8. ASSUME NEW w \in Worker, NEW i \in JobId, NEW s, FinishRunning(i, w, s)
      PROVE  \A v \in Worker : Registered(v) <=> Registered(v)'
  BY <1>1, <1>8 DEF FinishRunning, Registered, WorkerRow
<1>9. CASE AdminStep
  BY <1>3, <1>4, <1>6, <1>9 DEF AdminStep, Submit, List, Clear, RemoveAll, RetryAll, Remove, Retry,
                                Urgent, Swap, Cancel
<1>10. CASE WorkerStep
  BY <1>2, <1>4, <1>7, <1>8, <1>10 DEF WorkerStep, Heartbeat, Claim, ClaimHeld, ClaimNothing, Output,
                                       Finish, FinishAgain, vars
<1> QED BY <1>4, <1>9, <1>10 DEF Next, Tick, vars

\* Nothing but the request of a pause touches the flag.
LEMMA FlagKept ==
  ASSUME Inv, \A v \in Worker : ~Registered(v) => workers[v].paused = 0, NEW w \in Worker,
         \/ Elsewhere \/ List
         \/ \E i \in JobId : Urgent(<<i>>) \/ Remove({i}) \/ Cancel(i)
         \/ Submit \/ Clear \/ RemoveAll \/ RetryAll \/ UNCHANGED vars
  PROVE  workers'[w].paused = workers[w].paused
<1>1. workers \in [Worker -> WorkerRow]
  BY DEF Inv, TypeOK
<1>2. ASSUME NEW v \in Worker, Register(v) PROVE workers'[w].paused = workers[w].paused
  <2>1. CASE Registered(v)
    BY <1>2, <2>1 DEF Register
  <2>2. CASE ~Registered(v)
    <3>1. workers' = [workers EXCEPT ![v] = [AbsentWorker EXCEPT !.status = "idle"]]
      BY <1>2, <2>2 DEF Register
    <3>2. [AbsentWorker EXCEPT !.status = "idle"].paused = 0
      BY DEF AbsentWorker
    <3> QED BY <1>1, <2>2, <3>1, <3>2
  <2> QED BY <2>1, <2>2
<1>3. ASSUME workers' = ReleasedWorkers PROVE workers'[w].paused = workers[w].paused
  BY <1>1, <1>3 DEF ReleasedWorkers, WorkerRow
<1>4. ASSUME NEW v \in Worker, NEW i \in JobId, ClaimNext(v, i)
      PROVE  workers'[w].paused = workers[w].paused
  BY <1>1, <1>4 DEF ClaimNext, WorkerRow
<1>5. ASSUME NEW v \in Worker, NEW i \in JobId, FinishRunning(i, v, "failed")
      PROVE  workers'[w].paused = workers[w].paused
  BY <1>1, <1>5 DEF FinishRunning, WorkerRow
<1>6. \/ workers' = workers \/ workers' = ReleasedWorkers
      \/ \E v \in Worker : \/ Register(v)
                            \/ \E i \in JobId : ClaimNext(v, i) \/ FinishRunning(i, v, "failed")
  <2>1. CASE Elsewhere
    BY <2>1 DEF Elsewhere, Submit, Clear, RemoveAll, RetryAll, Tick, Remove, Urgent
  <2>2. CASE \E i \in JobId : Urgent(<<i>>) \/ Remove({i}) \/ Cancel(i)
    BY <2>2 DEF Urgent, Remove, Cancel
  <2> QED BY <2>1, <2>2 DEF List, Submit, Clear, RemoveAll, RetryAll, vars
<1> QED BY <1>2, <1>3, <1>4, <1>5, <1>6

\* A pause flag changes only where the request of a pause is handled.
LEMMA PauseChanges ==
  ASSUME CliInv, LabelInv, [CliNext]_cliVars, NEW w \in Worker,
         workers[w].paused # workers'[w].paused
  PROVE  /\ cli.action = "pause" /\ cli.phase \in {"sent", "unknown"}
         /\ Resolves(w) /\ Registered(w)
<1>1. Inv /\ \A v \in Worker : ~Registered(v) => workers[v].paused = 0
  BY DEF CliInv, LabelInv
<1>2. Handle /\ ~Refused /\ Perform
  <2>1. ~(\/ Elsewhere \/ List \/ UNCHANGED vars)
    BY <1>1, FlagKept
  <2> QED BY <2>1 DEF CliNext, CliStep, cliVars, Begin, FetchPage, ReadFails, Send, Lose, Answer, GiveUp,
                      SelectLatest, ListWorkers, Handle
<1>3. cli.phase \in {"sent", "unknown"} /\ cli.action \in Actions \ {"-l"}
  BY <1>2 DEF Handle, CliInv, CallInv, PhaseInv, Ended
<1>4. cli.action = "pause"
  <2> SUFFICES ASSUME cli.action # "pause" PROVE FALSE
    OBVIOUS
  <2>1. CASE cli.action \in Shorthand
    <3>1. cli.selected \in JobId
      BY <1>3, <2>1 DEF CliInv, PhaseInv
    <3>2. Urgent(<<cli.selected>>) \/ Remove({cli.selected}) \/ Cancel(cli.selected)
      BY <1>2, <2>1, ActionNames DEF Perform
    <3>3. \E i \in JobId : Urgent(<<i>>) \/ Remove({i}) \/ Cancel(i)
      BY <3>1, <3>2
    <3> QED BY <1>1, <3>3, FlagKept
  <2>2. CASE cli.action \notin Shorthand
    <3>1. Submit \/ Clear \/ RemoveAll \/ RetryAll
      BY <1>2, <1>3, <2>2, ActionNames DEF Perform
    <3> QED BY <1>1, <3>1, FlagKept
  <2> QED BY <2>1, <2>2
<1>5. PICK v \in Worker : Resolves(v) /\ SetWorkerPaused(v, 1)
  BY <1>2, <1>4, ActionNames DEF Perform
<1>6. v = w
  BY <1>1, <1>5 DEF SetWorkerPaused, Inv, TypeOK, WorkerRow
<1> QED BY <1>3, <1>4, <1>5, <1>6 DEF SetWorkerPaused

\* The label resolves to the worker that it was printed for.
LEMMA LabelResolves ==
  ASSUME CliInv, LabelInv, [CliNext]_cliVars, NEW w \in Worker,
         workers[w].paused # workers'[w].paused
  PROVE  w = cli.worker
<1>1. /\ cli.action = "pause" /\ cli.phase \in {"sent", "unknown"}
      /\ Resolves(w) /\ Registered(w)
  BY PauseChanges
<1>2. /\ cli.worker \in Worker /\ Registered(cli.worker) /\ SeqExt!IsPrefix(cli.label, cli.worker)
      /\ cli.label \in Seq(Nat)
  BY <1>1 DEF LabelInv
<1>3. CASE w = cli.label
  <2>1. w \in Seq(Nat) /\ cli.worker \in Seq(Nat) /\ Len(w) = Len(cli.worker)
    BY <1>2, WorkerIds
  <2>2. \A k \in 1..Len(w) : w[k] = cli.worker[k]
    BY <1>2, <1>3, <2>1, PrefixAgrees
  <2> QED BY <2>1, <2>2, SeqEqual
<1>4. CASE w # cli.label
  BY <1>1, <1>2, <1>4 DEF Resolves
<1> QED BY <1>3, <1>4

\* A label is printed for a worker that is registered and begins like its id.
LEMMA LabelPrinted ==
  ASSUME NEW w \in Worker, ListWorkers(w), CliInv
  PROVE  /\ cli'.worker = w /\ cli'.label \in Seq(Nat) /\ cli'.action = "pause"
         /\ Registered(w) /\ SeqExt!IsPrefix(cli'.label, w)
<1> DEFINE ids == {v \in Worker : Online(v)}
<1>1. /\ cli'.worker = w /\ cli'.label = Label(w, ids) /\ cli'.action = "pause"
      /\ Online(w) /\ Registered(w)
  BY DEF ListWorkers, Online, CliInv, CliFields
<1>2. ids \in SUBSET Worker /\ w \in ids
  BY <1>1
<1> HIDE DEF ids
<1>3. PICK n \in 0..Len(w) : Label(w, ids) = SubSeq(w, 1, n)
  BY <1>2, LabelIsPrefix
<1>4. w \in Seq(Nat) /\ Len(w) \in Nat
  BY WorkerIds
<1> DEFINE q == SubSeq(w, 1, n)
<1>5. q \in Seq(Nat) /\ Len(q) = n /\ \A k \in 1..n : q[k] = w[k]
  BY <1>4
<1> HIDE DEF q
<1>6. Len(q) <= Len(w) /\ \A k \in 1..Len(q) : q[k] = w[k]
  BY <1>4, <1>5
<1>7. SeqExt!IsPrefix(q, w)
  BY <1>4, <1>5, <1>6, PrefixAgrees
<1> QED BY <1>1, <1>3, <1>5, <1>7 DEF q

\* A step that prints no label keeps the one in use.
LEMMA LabelStays ==
  ASSUME CliInv, CliNext, ~\E w \in Worker : ListWorkers(w)
  PROVE  /\ cli'.label = cli.label /\ cli'.worker = cli.worker
         /\ cli'.action = "pause" /\ cli'.phase \in {"selected", "sent", "unknown"} =>
              cli.action = "pause" /\ cli.phase \in {"selected", "sent", "unknown"}
<1> USE ActionNames DEF CliInv, CliFields
<1>1. ASSUME NEW action \in Actions, Begin(action)
      PROVE  cli'.label = cli.label /\ cli'.worker = cli.worker /\ cli'.phase = "start"
  BY <1>1 DEF Begin
<1>2. ASSUME FetchPage \/ ReadFails \/ Answer
      PROVE  /\ cli'.label = cli.label /\ cli'.worker = cli.worker
             /\ cli'.phase \in {"paging", "done", "failed"}
  BY <1>2 DEF FetchPage, ReadFails, Answer, Now
<1>3. ASSUME Send
      PROVE  /\ cli'.label = cli.label /\ cli'.worker = cli.worker /\ cli'.action = cli.action
             /\ cli.phase = "selected" \/ cli.action \in Single
  BY <1>3 DEF Send, Now
<1>4. ASSUME Handle \/ Lose \/ Elsewhere PROVE cli' = cli
  BY <1>4 DEF Handle, Lose, Elsewhere
<1>5. ASSUME GiveUp
      PROVE  /\ cli'.label = cli.label /\ cli'.worker = cli.worker /\ cli'.action = cli.action
             /\ cli.phase = "sent"
  BY <1>5 DEF GiveUp, Now
<1>6. ASSUME NEW i \in JobId, SelectLatest(i)
      PROVE  /\ cli'.label = cli.label /\ cli'.worker = cli.worker /\ cli'.action \in Shorthand
  BY <1>6 DEF SelectLatest
<1> QED BY <1>1, <1>2, <1>3, <1>4, <1>5, <1>6 DEF CliNext, CliStep

\* In the beginning no worker is registered.
LEMMA LabelInitInv == ASSUME CliInit PROVE LabelInv
<1>1. \A w \in Worker : ~Registered(w) /\ workers[w].paused = 0
  BY DEF CliInit, Init, Registered, AbsentWorker
<1>2. {w \in Worker : Registered(w)} = {}
  BY <1>1
<1>3. cli.label = <<>> /\ cli.phase = "idle" /\ <<>> \in Seq(Nat)
  BY DEF CliInit
<1> QED BY <1>1, <1>2, <1>3, FS_EmptySet DEF LabelInv

\* The invariant of labels is inductive.
LEMMA LabelNextInv == ASSUME CliInv, [CliNext]_cliVars, LabelInv PROVE LabelInv'
<1> DEFINE known == {w \in Worker : Registered(w)}
<1>1. Inv /\ [Next]_vars
  BY CliIsNext DEF CliInv
<1>2. PICK w : \A v \in Worker : Registered(v)' => Registered(v) \/ v = w
  BY <1>1, RegisteredGrows
<1>3. \A v \in Worker : Registered(v) => Registered(v)'
  BY <1>1, RegisteredGrows
<1>4. IsFiniteSet({v \in Worker : Registered(v)'})
  <2>1. IsFiniteSet(known \cup {w})
    BY FS_AddElement DEF LabelInv
  <2>2. {v \in Worker : Registered(v)'} \in SUBSET (known \cup {w})
    BY <1>2
  <2> QED BY <2>1, <2>2, FS_Subset
<1>5. ASSUME NEW v \in Worker, ~Registered(v)' PROVE workers'[v].paused = 0
  <2>1. ~Registered(v) /\ workers[v].paused = 0
    BY <1>3, <1>5 DEF LabelInv
  <2> QED BY <2>1, PauseChanges
<1>6. /\ cli'.label \in Seq(Nat)
      /\ cli'.action = "pause" /\ cli'.phase \in {"selected", "sent", "unknown"} =>
           cli'.worker \in Worker /\ Registered(cli.worker)' /\ SeqExt!IsPrefix(cli'.label, cli'.worker)
  <2>1. CASE UNCHANGED cliVars
    BY <2>1 DEF cliVars, vars, LabelInv, Registered
  <2>2. CASE CliNext /\ \E v \in Worker : ListWorkers(v)
    <3> PICK v \in Worker : ListWorkers(v)
      BY <2>2
    <3>1. /\ cli'.worker = v /\ cli'.label \in Seq(Nat)
          /\ Registered(v) /\ SeqExt!IsPrefix(cli'.label, v)
      BY LabelPrinted
    <3>2. workers' = workers
      BY DEF ListWorkers, vars
    <3> QED BY <3>1, <3>2 DEF Registered
  <2>3. CASE CliNext /\ ~\E v \in Worker : ListWorkers(v)
    <3>1. /\ cli'.label = cli.label /\ cli'.worker = cli.worker
          /\ cli'.action = "pause" /\ cli'.phase \in {"selected", "sent", "unknown"} =>
               cli.action = "pause" /\ cli.phase \in {"selected", "sent", "unknown"}
      BY <2>3, LabelStays
    <3> QED BY <1>3, <3>1 DEF LabelInv, Registered
  <2> QED BY <2>1, <2>2, <2>3
<1> QED BY <1>4, <1>5, <1>6 DEF LabelInv

\* A label stands for one worker when it is printed, and pauses that worker or
\* none when it is used, whoever has registered or gone offline meanwhile.
THEOREM LabelsAlwaysSafe == CliSpec => LabelsAreSafe
<1>1. CliInit => LabelInv
  BY LabelInitInv
<1>2. CliInv /\ [CliNext]_cliVars /\ LabelInv => LabelInv'
  BY LabelNextInv
<1>3. ASSUME LabelInv PROVE LabelsTellApart
  <2> DEFINE ids == {w \in Worker : Online(w)}
             known == {w \in Worker : Registered(w)}
  <2>1. IsFiniteSet(known) /\ ids \in SUBSET known /\ ids \in SUBSET Worker
    BY <1>3 DEF LabelInv, Online
  <2>2. IsFiniteSet(ids)
    BY <2>1, FS_Subset
  <2> HIDE DEF ids
  <2>3. \A w, v \in ids : w # v => ~SeqExt!IsPrefix(Label(w, ids), v)
    BY <2>1, <2>2, LabelsDiffer
  <2> QED BY <2>3 DEF LabelsTellApart, ids
<1>4. ASSUME CliInv, [CliNext]_cliVars, LabelInv PROVE PausesItsWorker
  BY <1>4, LabelResolves DEF PausesItsWorker
<1> QED BY <1>1, <1>2, <1>3, <1>4, CliInvariance, PTL DEF CliSpec, LabelsAreSafe

-----------------------------------------------------------------------------
(* Types.                                                                  *)

StartedType ==
  /\ started \in [JobId -> 0..MaxSequence]
  /\ \A i \in JobId : started[i] # 0 <=> Exists(i) /\ ~Queued(i)

TypeInv ==
  /\ cli.action \in Actions \cup {None} /\ cli.worker \in Worker \cup {None}
  /\ since \in Unseen
  /\ StartedType

\* A row begins its life waiting.
LEMMA BeginsWaiting ==
  ASSUME Inv, [Next]_vars, NEW i \in JobId, Exists(i)', ~Queued(i)'
  PROVE  Exists(i)
<1> SUFFICES ASSUME ~Exists(i) PROVE FALSE
  OBVIOUS
<1>1. Inv'
  BY NextInv
<1>2. Move(i)
  BY <1>1, EveryJobMoves
<1>3. Phase(i) = "absent"
  BY PhaseOfStatus
<1>4. Phase(i)' \notin {"absent", "queued"}
  BY DEF Phase, Exists, Queued
<1> QED BY <1>2, <1>3, <1>4, MovesOfRows DEF Move

\* The last start is well defined.
LEMMA LastStart ==
  ASSUME StartedType
  PROVE  \E m \in 0..MaxSequence : /\ \A i \in JobId : started[i] <= m
                                   /\ m = 0 \/ \E i \in JobId : started[i] = m
<1> DEFINE T == {n \in 0..MaxSequence : n = 0 \/ \E i \in JobId : started[i] = n}
<1>1. MaxSequence \in Nat /\ 0 \in T /\ T \in SUBSET Nat /\ \A n \in T : n <= MaxSequence
  OBVIOUS
<1>2. PICK m \in T : \A n \in T : n <= m
  <2>1. T # {}
    BY <1>1
  <2> HIDE DEF T
  <2> QED BY <1>1, <2>1, GreatestNumber
<1>3. \A i \in JobId : started[i] \in T
  BY DEF StartedType
<1> QED BY <1>2, <1>3

\* Ranks of starts: there are at most as many as jobs, and none is zero but
\* that of a job without a start.
LEMMA RanksOfStarts ==
  ASSUME NEW raw \in [JobId -> Nat], NEW i \in JobId
  PROVE  LET rank == Cardinality({raw[k] : k \in JobId} \cap 1..raw[i])
         IN  rank \in 0..MaxSequence /\ (rank # 0 <=> raw[i] # 0)
<1> DEFINE V == {raw[k] : k \in JobId}
           R == V \cap 1..raw[i]
<1>1. IsFiniteSet(JobId) /\ Cardinality(JobId) = MaxSequence
  BY FS_Interval DEF JobId
<1>2. raw \in Surjection(JobId, V)
  BY DEF Surjection
<1>3. IsFiniteSet(V) /\ Cardinality(V) <= MaxSequence
  BY <1>1, <1>2, FS_Surjection
<1>4. R \in SUBSET V
  OBVIOUS
<1>5. R = {} <=> raw[i] = 0
  <2>1. raw[i] \in V /\ raw[i] \in Nat
    OBVIOUS
  <2>2. raw[i] # 0 => raw[i] \in R
    BY <2>1
  <2>3. raw[i] = 0 => R = {}
    OBVIOUS
  <2> QED BY <2>2, <2>3
<1> HIDE DEF V, R
<1>6. IsFiniteSet(R) /\ Cardinality(R) <= Cardinality(V)
  BY <1>3, <1>4, FS_Subset
<1>7. Cardinality(R) \in Nat /\ Cardinality(V) \in Nat
  BY <1>3, <1>6, FS_CardinalityType
<1>8. Cardinality(R) = 0 <=> R = {}
  BY <1>6, FS_EmptySet
<1>9. Cardinality(R) \in 0..MaxSequence /\ (Cardinality(R) # 0 <=> raw[i] # 0)
  BY <1>3, <1>5, <1>6, <1>7, <1>8
<1> QED BY <1>9 DEF V, R

\* A job has a start as long as it is over or running.
LEMMA StampKeepsType ==
  ASSUME Inv, [Next]_vars, StartedType, Stamp
  PROVE  StartedType'
<1>1. PICK later \in {0, 1} :
        LET last == CHOOSE m \in 0..MaxSequence : /\ \A i \in JobId : started[i] <= m
                                                  /\ m = 0 \/ \E i \in JobId : started[i] = m
            raw  == [i \in JobId |->
                       IF jobs'[i].status \in {"absent", "queued"} THEN 0
                       ELSE IF Queued(i) THEN (IF last = 0 THEN 1 ELSE last + later)
                       ELSE started[i]]
        IN  started' = [i \in JobId |-> Cardinality({raw[k] : k \in JobId} \cap 1..raw[i])]
  BY DEF Stamp
<1> DEFINE last == CHOOSE m \in 0..MaxSequence : /\ \A i \in JobId : started[i] <= m
                                                 /\ m = 0 \/ \E i \in JobId : started[i] = m
           raw  == [i \in JobId |->
                      IF jobs'[i].status \in {"absent", "queued"} THEN 0
                      ELSE IF Queued(i) THEN (IF last = 0 THEN 1 ELSE last + later)
                      ELSE started[i]]
<1>2. last \in 0..MaxSequence
  BY LastStart
<1>3. started' = [i \in JobId |-> Cardinality({raw[k] : k \in JobId} \cap 1..raw[i])]
  BY <1>1
<1> HIDE DEF last
<1>4. ASSUME NEW i \in JobId PROVE raw[i] \in Nat /\ (raw[i] # 0 <=> Exists(i)' /\ ~Queued(i)')
  <2>1. CASE jobs'[i].status \in {"absent", "queued"}
    <3>1. ~(Exists(i)' /\ ~Queued(i)')
      BY <2>1 DEF Exists, Queued
    <3> QED BY <2>1, <3>1
  <2>2. CASE jobs'[i].status \notin {"absent", "queued"}
    <3>1. Exists(i)' /\ ~Queued(i)'
      BY <2>2 DEF Exists, Queued
    <3>2. CASE Queued(i)
      <4>1. raw[i] = IF last = 0 THEN 1 ELSE last + later
        BY <2>2, <3>2
      <4> HIDE DEF raw
      <4>2. raw[i] \in Nat /\ raw[i] # 0
        BY <1>2, <4>1
      <4> QED BY <3>1, <4>2
    <3>3. CASE ~Queued(i)
      <4>1. raw[i] = started[i]
        BY <2>2, <3>3
      <4>2. Exists(i)
        BY <3>1, BeginsWaiting
      <4> HIDE DEF raw
      <4>3. raw[i] \in Nat /\ raw[i] # 0
        BY <3>3, <4>1, <4>2 DEF StartedType
      <4> QED BY <3>1, <4>3
    <3> QED BY <3>2, <3>3
  <2> QED BY <2>1, <2>2
<1>5. raw \in [JobId -> Nat]
  BY <1>4
<1> HIDE DEF raw
<1>6. ASSUME NEW i \in JobId
      PROVE  started'[i] \in 0..MaxSequence /\ (started'[i] # 0 <=> Exists(i)' /\ ~Queued(i)')
  <2>1. started'[i] = Cardinality({raw[k] : k \in JobId} \cap 1..raw[i])
    BY <1>3
  <2>2. started'[i] \in 0..MaxSequence /\ (started'[i] # 0 <=> raw[i] # 0)
    BY <1>5, <2>1, RanksOfStarts
  <2> QED BY <1>4, <2>2
<1>7. started' \in [JobId -> 0..MaxSequence]
  BY <1>3, <1>6
<1> QED BY <1>6, <1>7 DEF StartedType

\* The history is of its type.
LEMMA WatchKeepsType ==
  ASSUME CliInv, CallInv', TypeInv, Watch
  PROVE  since' \in Unseen
<1>1. CASE cli.phase \in {"idle", "start"}
  BY <1>1 DEF Watch, Nothing, Unseen
<1>2. CASE cli.phase \notin {"idle", "start"}
  <2> DEFINE F == since.fresh \cup {i \in IF cli.action = "-l" THEN JobId ELSE {cli.selected} \ {NoJob} :
                                      ~Exists(i) /\ Exists(i)'}
             H == since.handled + IF wire = "request" /\ wire' = "answer" THEN 1 ELSE 0
             C == since.changes \cup Changes
  <2>1. since' = [fresh |-> F, handled |-> H, changes |-> C]
    BY <1>2 DEF Watch
  <2>2. H \in 0..2
    <3>1. since'.handled = H /\ since'.handled \in {0, 1}
      BY <2>1 DEF CallInv
    <3> QED BY <3>1
  <2>3. F \in SUBSET JobId
    <3>1. since.fresh \in SUBSET JobId
      BY DEF TypeInv, Unseen
    <3>2. {cli.selected} \ {NoJob} \in SUBSET JobId
      BY DEF CliInv, PhaseInv
    <3> QED BY <3>1, <3>2
  <2>4. C \in SUBSET {"removed", "moved", "claimed", "retried", "emptied"}
    <3>1. since.changes \in SUBSET {"removed", "moved", "claimed", "retried", "emptied"}
      BY DEF TypeInv, Unseen
    <3>2. Changes \in SUBSET {"removed", "moved", "claimed", "retried", "emptied"}
      <4> DEFINE Of == IF cli.action = "-l" THEN {"removed", "moved"}
                       ELSE IF cli.selected # NoJob THEN {"claimed", "retried", "emptied"} ELSE {}
      <4>1. Changes \in SUBSET Of
        BY DEF Changes
      <4>2. Of \in SUBSET {"removed", "moved", "claimed", "retried", "emptied"}
        OBVIOUS
      <4> HIDE DEF Of
      <4> QED BY <4>1, <4>2
    <3> QED BY <3>1, <3>2
  <2> HIDE DEF F, H, C
  <2> QED BY <2>1, <2>2, <2>3, <2>4 DEF Unseen
<1> QED BY <1>1, <1>2

\* The types are kept by every step.
LEMMA TypeNextInv == ASSUME CliInv, [CliNext]_cliVars, TypeInv PROVE TypeInv'
<1>1. Inv /\ [Next]_vars /\ CliInv'
  BY CliIsNext, CliNextInv DEF CliInv
<1>2. CASE UNCHANGED cliVars
  BY <1>2 DEF cliVars, vars, TypeInv, StartedType, Exists, Queued
<1>3. CASE CliNext
  <2>1. Stamp /\ Watch
    BY <1>3 DEF CliNext
  <2>2. StartedType'
    BY <1>1, <2>1, StampKeepsType DEF TypeInv
  <2>3. since' \in Unseen
    BY <1>1, <2>1, WatchKeepsType DEF CliInv
  <2>4. cli'.action \in Actions \cup {None}
    <3>1. cli'.action = cli.action \/ \E action \in Actions : Begin(action)
      BY <1>3 DEF CliNext, CliStep, Elsewhere, FetchPage, ReadFails, Send, Handle, Lose, Answer, GiveUp,
                  SelectLatest, ListWorkers, Now, CliInv, CliFields
    <3>2. ASSUME NEW action \in Actions, Begin(action) PROVE cli'.action = action
      BY <3>2 DEF Begin, CliInv, CliFields
    <3> QED BY <3>1, <3>2 DEF TypeInv
  <2>5. cli'.worker \in Worker \cup {None}
    <3>1. CASE \E w \in Worker : ListWorkers(w)
      BY <3>1, LabelPrinted
    <3>2. CASE ~\E w \in Worker : ListWorkers(w)
      BY <1>3, <3>2, LabelStays DEF TypeInv
    <3> QED BY <3>1, <3>2
  <2> QED BY <2>2, <2>3, <2>4, <2>5 DEF TypeInv
<1> QED BY <1>2, <1>3

\* An invocation, its request, the starts and the history keep to their
\* values, and a job has a start exactly as long as it is running or over.
THEOREM CliTypeCorrect == CliSpec => []CliTypeOK
<1>1. CliInit => ListInv /\ LabelInv /\ TypeInv
  <2> SUFFICES ASSUME CliInit PROVE ListInv /\ LabelInv /\ TypeInv
    OBVIOUS
  <2>1. ListInv /\ LabelInv
    BY ListInitInv, LabelInitInv
  <2>2. \A i \in JobId : ~Exists(i)
    BY AbsentJobType DEF CliInit, Init, Exists
  <2>3. StartedType
    BY <2>2 DEF CliInit, StartedType
  <2>4. since \in Unseen
    BY DEF CliInit, Nothing, Unseen
  <2>5. cli.action = None /\ cli.worker = None
    BY DEF CliInit
  <2> QED BY <2>1, <2>3, <2>4, <2>5 DEF TypeInv
<1>2. CliInv /\ CliInv' /\ [CliNext]_cliVars /\ ListInv /\ LabelInv /\ TypeInv
        => ListInv' /\ LabelInv' /\ TypeInv'
  BY ListNextInv, LabelNextInv, TypeNextInv
<1>3. CliInv /\ ListInv /\ LabelInv /\ TypeInv => CliTypeOK
  <2> SUFFICES ASSUME CliInv, ListInv, LabelInv, TypeInv PROVE CliTypeOK
    OBVIOUS
  <2>1. cli \in Cli
    <3>1. cli.phase \in {"idle", "start", "paging", "selected", "sent"} \cup Ended
      BY DEF CliInv, CallInv
    <3>2. cli.selected \in JobId \cup {NoJob}
      BY DEF CliInv, PhaseInv
    <3>3. cli.listed \in Seq(JobId) /\ cli.label \in Seq(Nat)
      BY DEF ListInv, LabelInv
    <3> QED BY <3>1, <3>2, <3>3 DEF Cli, CliInv, CliFields, TypeInv
  <2> QED BY <2>1 DEF CliTypeOK, CliInv, CallInv, TypeInv, StartedType
<1> QED BY <1>1, <1>2, <1>3, CliInvariance, PTL DEF CliSpec
=============================================================================
