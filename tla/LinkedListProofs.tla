-------------------------- MODULE LinkedListProofs --------------------------
(***************************************************************************)
(* The pointers of the tasks and the timers make lists, and each operation *)
(* on them is an operation on the sequences the lists stand for.           *)
(***************************************************************************)
EXTENDS LinkedLists, SequenceProofs

(* Following the pointers.                                                 *)

\* What is found from a node on, given what is found from its successor on.
PathFrom(link, stop, path, at) ==
  <<at>> \o (IF link[at] = stop THEN <<>> ELSE path[link[at]])

IsWalk(link, stop, fuel, from) ==
  from = [n \in 0..fuel |-> [at \in DOMAIN link |->
            IF n = 0 THEN <<>> ELSE PathFrom(link, stop, from[n - 1], at)]]

\* The recursion of Walk has a solution.
LEMMA WalkExists ==
  ASSUME NEW link, NEW stop, NEW fuel \in Nat
  PROVE  \E from : IsWalk(link, stop, fuel, from)
<1> DEFINE Good == {k \in 0..fuel : \E f : IsWalk(link, stop, k, f)}
<1>1. 0 \in Good
  <2>1. IsWalk(link, stop, 0, [n \in 0..0 |-> [at \in DOMAIN link |-> <<>>]])
    BY DEF IsWalk
  <2> QED
    BY <2>1
<1>2. ASSUME NEW k \in (0 + 1)..fuel, k - 1 \in Good PROVE k \in Good
  <2> PICK f : IsWalk(link, stop, k - 1, f)
    BY <1>2
  <2> DEFINE last == [at \in DOMAIN link |-> PathFrom(link, stop, f[k - 1], at)]
             g == [n \in 0..k |-> IF n = k THEN last ELSE f[n]]
  <2>1. \A n \in 0..k : g[n] = [at \in DOMAIN link |->
          IF n = 0 THEN <<>> ELSE PathFrom(link, stop, g[n - 1], at)]
    <3> SUFFICES ASSUME NEW n \in 0..k
                 PROVE  g[n] = [at \in DOMAIN link |->
                          IF n = 0 THEN <<>> ELSE PathFrom(link, stop, g[n - 1], at)]
      OBVIOUS
    <3>1. n # 0 => n - 1 \in 0..k /\ n - 1 # k
      OBVIOUS
    <3>2. n # 0 => g[n - 1] = f[n - 1]
      BY <3>1
    <3>3. CASE n = k
      <4>1. g[n] = last /\ n # 0
        BY <3>3
      <4> QED
        BY <3>2, <3>3, <4>1
    <3>4. CASE n # k
      <4>1. n \in 0..(k - 1) /\ g[n] = f[n]
        BY <3>4
      <4>2. f[n] = [at \in DOMAIN link |->
              IF n = 0 THEN <<>> ELSE PathFrom(link, stop, f[n - 1], at)]
        BY <4>1 DEF IsWalk
      <4> QED
        BY <3>2, <4>1, <4>2
    <3> QED
      BY <3>3, <3>4
  <2>2. IsWalk(link, stop, k, g)
    BY <2>1 DEF IsWalk
  <2> QED
    BY <2>2
<1>3. 0..fuel \subseteq Good
  <2>1. Good \in SUBSET (0..fuel)
    OBVIOUS
  <2> HIDE DEF Good
  <2> QED
    BY <1>1, <1>2, <2>1, UpTo
<1> QED
  BY <1>3

\* A list that is linked from its first node to stop is what the walk finds.
LEMMA WalkFinds ==
  ASSUME NEW link, NEW stop, NEW fuel \in Nat,
         NEW s \in Seq(DOMAIN link), s # <<>>, Len(s) <= fuel,
         \A i \in 1..Len(s) : link[s[i]] = Behind(s, i + 1, stop),
         \A i \in 2..Len(s) : s[i] # stop
  PROVE  Walk(link, s[1], stop, fuel) = s
<1> DEFINE m == Len(s)
           from == CHOOSE f : IsWalk(link, stop, fuel, f)
<1>1. IsWalk(link, stop, fuel, from)
  BY WalkExists
<1>2. Walk(link, s[1], stop, fuel) = from[fuel][s[1]]
  BY DEF Walk, IsWalk, PathFrom
<1> HIDE DEF from
<1>3. \A n \in 1..fuel, at \in DOMAIN link : from[n][at] = PathFrom(link, stop, from[n - 1], at)
  <2> TAKE n \in 1..fuel
  <2>1. n \in 0..fuel /\ n # 0
    OBVIOUS
  <2>2. from[n] = [at \in DOMAIN link |-> IF n = 0 THEN <<>> ELSE PathFrom(link, stop, from[n - 1], at)]
    BY <1>1, <2>1 DEF IsWalk
  <2> QED
    BY <2>1, <2>2
<1>4. m \in Nat \ {0} /\ \A i \in 1..m : s[i] \in DOMAIN link
  BY EmptySeq, LenProperties, ElementOfSeq
<1> DEFINE Good == {k \in 1..m : \A n \in k..fuel : from[n][s[m - k + 1]] = SubSeq(s, m - k + 1, m)}
<1>5. 1 \in Good
  <2> SUFFICES ASSUME NEW n \in 1..fuel PROVE from[n][s[m]] = SubSeq(s, m, m)
    BY <1>4
  <2>1. link[s[m]] = stop
    BY <1>4 DEF Behind
  <2>2. SubSeq(s, m, m) = <<s[m]>> \o SubSeq(s, m + 1, m)
    BY <1>4, SubSeqRecursiveFirst
  <2>3. SubSeq(s, m + 1, m) = <<>>
    BY <1>4, SubSeqEmpty
  <2> QED
    BY <1>3, <1>4, <2>1, <2>2, <2>3 DEF PathFrom
<1>6. ASSUME NEW k \in (1 + 1)..m, k - 1 \in Good PROVE k \in Good
  <2> DEFINE j == m - k + 1
  <2>0. j \in 1..(m - 1) /\ j + 1 \in 2..m /\ m - (k - 1) + 1 = j + 1
    BY <1>4
  <2> SUFFICES ASSUME NEW n \in k..fuel PROVE from[n][s[j]] = SubSeq(s, j, m)
    BY <1>4
  <2>1. link[s[j]] = s[j + 1] /\ s[j + 1] # stop
    BY <1>4, <2>0 DEF Behind
  <2>2. n - 1 \in (k - 1)..fuel
    BY <1>4
  <2>3. from[n - 1][s[j + 1]] = SubSeq(s, j + 1, m)
    BY <1>6, <2>0, <2>2
  <2> HIDE DEF j
  <2>4. SubSeq(s, j, m) = <<s[j]>> \o SubSeq(s, j + 1, m)
    BY <1>4, <2>0, SubSeqRecursiveFirst
  <2>5. n \in 1..fuel /\ s[j] \in DOMAIN link
    BY <1>4, <2>0
  <2>6. from[n][s[j]] = <<s[j]>> \o from[n - 1][s[j + 1]]
    BY <1>3, <2>1, <2>5 DEF PathFrom
  <2> QED
    BY <2>3, <2>4, <2>6
<1>7. 1..m \subseteq Good
  <2>1. Good \in SUBSET (1..m)
    OBVIOUS
  <2> HIDE DEF Good
  <2> QED
    BY <1>4, <1>5, <1>6, <2>1, UpTo
<1>8. m \in Good
  <2> HIDE DEF Good
  <2> QED
    BY <1>4, <1>7
<1>9. from[fuel][s[m - m + 1]] = SubSeq(s, m - m + 1, m)
  BY <1>4, <1>8
<1>10. m - m + 1 = 1
  BY <1>4
<1> QED
  BY <1>2, <1>9, <1>10, SubSeqFull

\* No list has more nodes than there are.
LEMMA NoLongerThanNodes ==
  ASSUME NEW N, IsFiniteSet(N), NEW s \in Seq(N), IsInjective(s)
  PROVE  Len(s) <= Cardinality(N) /\ Cardinality(N) \in Nat
<1>1. Len(s) \in Nat /\ s \in [1..Len(s) -> N]
  BY LenProperties
<1>2. s \in Injection(1..Len(s), N)
  BY <1>1 DEF Injection
<1>3. Cardinality(1..Len(s)) <= Cardinality(N)
  BY <1>2, FS_Injection
<1>4. Cardinality(1..Len(s)) = Len(s)
  BY <1>1, FS_Interval
<1> QED
  BY <1>3, <1>4, FS_CardinalityType

-----------------------------------------------------------------------------
(* Lists of linked nodes.                                                  *)

\* Every node of s links to its neighbours, the last to stop and the first to start.
Linked(nx, pv, s, stop, start) ==
  \A i \in 1..Len(s) : nx[s[i]] = Behind(s, i + 1, stop) /\ pv[s[i]] = Before(s, i, start)

Chained(nx, pv, s, null) == Linked(nx, pv, s, null, null)

Ringed(nx, pv, s) == Linked(nx, pv, s, s[1], s[Len(s)])

\* The elements of a sequence are different from each other.
LEMMA InjectiveElements ==
  ASSUME NEW E, NEW s \in Seq(E), IsInjective(s)
  PROVE  /\ Len(s) \in Nat
         /\ \A i \in 1..Len(s) : s[i] \in E /\ s[i] \in Range(s)
         /\ \A i, j \in 1..Len(s) : s[i] = s[j] => i = j
BY LenProperties, ElementOfSeq DEF IsInjective, Range

\* A list keeps its links where its nodes keep theirs.
LEMMA LinksUntouched ==
  ASSUME NEW E, NEW s \in Seq(E), NEW nx, NEW pv, NEW nx2, NEW pv2, NEW stop, NEW start,
         Linked(nx, pv, s, stop, start),
         \A u \in Range(s) : nx2[u] = nx[u] /\ pv2[u] = pv[u]
  PROVE  Linked(nx2, pv2, s, stop, start)
<1>1. \A i \in 1..Len(s) : s[i] \in Range(s)
  BY LenProperties DEF Range
<1> QED
  BY <1>1 DEF Linked

\* What inserting t at place k writes into the links.
LEMMA ChainInsert ==
  ASSUME NEW N, NEW null, null \notin N,
         NEW s \in Seq(N), IsInjective(s), NEW t \in N, t \notin Range(s),
         NEW k \in 1..(Len(s) + 1),
         NEW nx, NEW pv, NEW nx2, NEW pv2, Chained(nx, pv, s, null),
         \A u \in N : nx2[u] = IF u = t THEN Behind(s, k, null)
                               ELSE IF u = Before(s, k, null) THEN t ELSE nx[u],
         \A u \in N : pv2[u] = IF u = t THEN Before(s, k, null)
                               ELSE IF u = Behind(s, k, null) THEN t ELSE pv[u]
  PROVE  Chained(nx2, pv2, InsertAt(s, k, t), null)
<1> DEFINE r == InsertAt(s, k, t)
           n == Len(s)
<1>1. /\ n \in Nat
      /\ \A i \in 1..n : s[i] \in N /\ s[i] # t /\ s[i] # null
      /\ \A i, j \in 1..n : s[i] = s[j] => i = j
  BY InjectiveElements
<1>2. /\ Len(r) = n + 1
      /\ \A i \in 1..(n + 1) : r[i] = IF i < k THEN s[i] ELSE IF i = k THEN t ELSE s[i - 1]
  BY InsertAtElements
<1>3. \A i \in 1..n : nx[s[i]] = Behind(s, i + 1, null) /\ pv[s[i]] = Before(s, i, null)
  BY DEF Chained, Linked
<1> HIDE DEF r
<1> SUFFICES ASSUME NEW i \in 1..(n + 1)
             PROVE  nx2[r[i]] = Behind(r, i + 1, null) /\ pv2[r[i]] = Before(r, i, null)
  BY <1>2 DEF Chained, Linked, r
<1>4. CASE i = k
  <2>1. r[i] = t /\ Behind(r, i + 1, null) = Behind(s, k, null)
    BY <1>1, <1>2, <1>4 DEF Behind
  <2>2. Before(r, i, null) = Before(s, k, null)
    BY <1>1, <1>2, <1>4 DEF Before
  <2> QED
    BY <2>1, <2>2
<1>5. CASE i < k
  <2>1. i \in 1..n /\ r[i] = s[i] /\ s[i] # t /\ s[i] \in N
    BY <1>1, <1>2, <1>5
  <2>2. nx2[s[i]] = Behind(r, i + 1, null)
    <3>1. CASE i = k - 1
      BY <1>1, <1>2, <2>1, <3>1 DEF Before, Behind
    <3>2. CASE i < k - 1
      <4>1. s[i] # Before(s, k, null)
        BY <1>1, <2>1, <3>2 DEF Before
      <4>2. Behind(r, i + 1, null) = s[i + 1] /\ Behind(s, i + 1, null) = s[i + 1]
        BY <1>1, <1>2, <2>1, <3>2 DEF Behind
      <4> QED
        BY <1>3, <2>1, <4>1, <4>2
    <3> QED
      BY <1>1, <1>5, <3>1, <3>2
  <2>3. pv2[s[i]] = Before(r, i, null)
    <3>1. s[i] # Behind(s, k, null)
      BY <1>1, <1>5, <2>1 DEF Behind
    <3>2. Before(r, i, null) = Before(s, i, null)
      BY <1>1, <1>2, <1>5, <2>1 DEF Before
    <3> QED
      BY <1>3, <2>1, <3>1, <3>2
  <2> QED
    BY <2>1, <2>2, <2>3
<1>6. CASE i > k
  <2> DEFINE j == i - 1
  <2>0. j \in 1..n /\ j >= k /\ i = j + 1
    BY <1>1, <1>6
  <2> HIDE DEF j
  <2>1. r[i] = s[j] /\ s[j] # t /\ s[j] \in N
    BY <1>1, <1>2, <1>6, <2>0
  <2>2. nx2[s[j]] = Behind(r, i + 1, null)
    <3>1. s[j] # Before(s, k, null)
      BY <1>1, <2>0 DEF Before
    <3>2. Behind(r, i + 1, null) = Behind(s, j + 1, null)
      BY <1>1, <1>2, <2>0 DEF Behind
    <3> QED
      BY <1>3, <2>0, <2>1, <3>1, <3>2
  <2>3. pv2[s[j]] = Before(r, i, null)
    <3>1. CASE j = k
      BY <1>1, <1>2, <2>0, <2>1, <3>1 DEF Before, Behind
    <3>2. CASE j > k
      <4>1. s[j] # Behind(s, k, null)
        BY <1>1, <2>0, <3>2 DEF Behind
      <4>2. Before(r, i, null) = s[j - 1] /\ Before(s, j, null) = s[j - 1]
        BY <1>1, <1>2, <2>0, <3>2 DEF Before
      <4> QED
        BY <1>3, <2>0, <2>1, <4>1, <4>2
    <3> QED
      BY <1>1, <2>0, <3>1, <3>2
  <2> QED
    BY <2>1, <2>2, <2>3
<1> QED
  BY <1>1, <1>4, <1>5, <1>6

\* What taking out the node at place k writes into the links.
LEMMA ChainRemove ==
  ASSUME NEW N, NEW null, null \notin N,
         NEW s \in Seq(N), IsInjective(s), NEW k \in 1..Len(s),
         NEW nx, NEW pv, NEW nx2, NEW pv2, Chained(nx, pv, s, null),
         \A u \in N : nx2[u] = IF u = s[k] THEN null
                               ELSE IF u = Before(s, k, null) THEN Behind(s, k + 1, null)
                               ELSE nx[u],
         \A u \in N : pv2[u] = IF u = s[k] THEN null
                               ELSE IF u = Behind(s, k + 1, null) THEN Before(s, k, null)
                               ELSE pv[u]
  PROVE  Chained(nx2, pv2, RemoveAt(s, k), null)
<1> DEFINE r == RemoveAt(s, k)
           n == Len(s)
<1>1. /\ n \in Nat
      /\ \A i \in 1..n : s[i] \in N /\ s[i] # null
      /\ \A i, j \in 1..n : s[i] = s[j] => i = j
  BY InjectiveElements
<1>2. Len(r) = n - 1 /\ \A i \in 1..(n - 1) : r[i] = IF i < k THEN s[i] ELSE s[i + 1]
  BY RemoveAtElements
<1>3. \A i \in 1..n : nx[s[i]] = Behind(s, i + 1, null) /\ pv[s[i]] = Before(s, i, null)
  BY DEF Chained, Linked
<1> HIDE DEF r
<1> SUFFICES ASSUME NEW i \in 1..(n - 1)
             PROVE  nx2[r[i]] = Behind(r, i + 1, null) /\ pv2[r[i]] = Before(r, i, null)
  BY <1>2 DEF Chained, Linked, r
<1>4. CASE i < k
  <2>1. i \in 1..n /\ r[i] = s[i] /\ s[i] # s[k] /\ s[i] \in N
    BY <1>1, <1>2, <1>4
  <2>2. nx2[s[i]] = Behind(r, i + 1, null)
    <3>1. CASE i = k - 1
      BY <1>1, <1>2, <2>1, <3>1 DEF Before, Behind
    <3>2. CASE i < k - 1
      <4>1. s[i] # Before(s, k, null)
        BY <1>1, <2>1, <3>2 DEF Before
      <4>2. Behind(r, i + 1, null) = s[i + 1] /\ Behind(s, i + 1, null) = s[i + 1]
        BY <1>1, <1>2, <2>1, <3>2 DEF Behind
      <4> QED
        BY <1>3, <2>1, <4>1, <4>2
    <3> QED
      BY <1>1, <1>4, <3>1, <3>2
  <2>3. pv2[s[i]] = Before(r, i, null)
    <3>1. s[i] # Behind(s, k + 1, null)
      BY <1>1, <1>4, <2>1 DEF Behind
    <3>2. Before(r, i, null) = Before(s, i, null)
      BY <1>1, <1>2, <1>4, <2>1 DEF Before
    <3> QED
      BY <1>3, <2>1, <3>1, <3>2
  <2> QED
    BY <2>1, <2>2, <2>3
<1>5. CASE i >= k
  <2> DEFINE j == i + 1
  <2>0. j \in 1..n /\ j > k /\ i = j - 1
    BY <1>1, <1>5
  <2> HIDE DEF j
  <2>1. r[i] = s[j] /\ s[j] # s[k] /\ s[j] \in N
    BY <1>1, <1>2, <1>5, <2>0
  <2>2. nx2[s[j]] = Behind(r, i + 1, null)
    <3>1. s[j] # Before(s, k, null)
      BY <1>1, <2>0 DEF Before
    <3>2. Behind(r, i + 1, null) = Behind(s, j + 1, null)
      BY <1>1, <1>2, <2>0 DEF Behind
    <3> QED
      BY <1>3, <2>0, <2>1, <3>1, <3>2
  <2>3. pv2[s[j]] = Before(r, i, null)
    <3>1. CASE j = k + 1
      <4>1. s[j] = Behind(s, k + 1, null)
        BY <1>1, <2>0, <3>1 DEF Behind
      <4>2. Before(r, i, null) = Before(s, k, null)
        BY <1>1, <1>2, <2>0, <3>1 DEF Before
      <4> QED
        BY <2>1, <4>1, <4>2
    <3>2. CASE j > k + 1
      <4>1. s[j] # Behind(s, k + 1, null)
        BY <1>1, <2>0, <3>2 DEF Behind
      <4>2. Before(r, i, null) = s[j - 1] /\ Before(s, j, null) = s[j - 1]
        BY <1>1, <1>2, <2>0, <3>2 DEF Before
      <4> QED
        BY <1>3, <2>0, <2>1, <4>1, <4>2
    <3> QED
      BY <1>1, <2>0, <3>1, <3>2
  <2> QED
    BY <2>1, <2>2, <2>3
<1> QED
  BY <1>1, <1>4, <1>5

\* What appending t to a circular list writes into the links.
LEMMA RingAppend ==
  ASSUME NEW N, NEW s \in Seq(N), IsInjective(s), NEW t \in N, t \notin Range(s),
         NEW nx, NEW pv, NEW nx2, NEW pv2, Ringed(nx, pv, s),
         \A u \in N : nx2[u] = IF u = t THEN (IF s = <<>> THEN t ELSE s[1])
                               ELSE IF s # <<>> /\ u = s[Len(s)] THEN t ELSE nx[u],
         \A u \in N : pv2[u] = IF u = t THEN (IF s = <<>> THEN t ELSE s[Len(s)])
                               ELSE IF s # <<>> /\ u = s[1] THEN t ELSE pv[u]
  PROVE  Ringed(nx2, pv2, Append(s, t))
<1> DEFINE r == Append(s, t)
           n == Len(s)
<1>1. /\ n \in Nat
      /\ \A i \in 1..n : s[i] \in N /\ s[i] # t
      /\ \A i, j \in 1..n : s[i] = s[j] => i = j
  BY InjectiveElements
<1>2. Len(r) = n + 1 /\ r[n + 1] = t /\ \A i \in 1..n : r[i] = s[i]
  BY AppendProperties
<1>3. \A i \in 1..n : nx[s[i]] = Behind(s, i + 1, s[1]) /\ pv[s[i]] = Before(s, i, s[n])
  BY DEF Ringed, Linked
<1>4. s = <<>> <=> n = 0
  BY <1>1, EmptySeq
<1> HIDE DEF r
<1> SUFFICES ASSUME NEW i \in 1..(n + 1)
             PROVE  /\ nx2[r[i]] = Behind(r, i + 1, r[1])
                    /\ pv2[r[i]] = Before(r, i, r[n + 1])
  BY <1>2 DEF Ringed, Linked, r
<1>5. CASE i = n + 1
  <2>1. Behind(r, i + 1, r[1]) = IF n = 0 THEN t ELSE s[1]
    BY <1>1, <1>2, <1>5 DEF Behind
  <2>2. Before(r, i, r[n + 1]) = IF n = 0 THEN t ELSE s[n]
    BY <1>1, <1>2, <1>5 DEF Before
  <2> QED
    BY <1>2, <1>4, <1>5, <2>1, <2>2
<1>6. CASE i <= n
  <2>1. i \in 1..n /\ r[i] = s[i] /\ s[i] # t /\ s[i] \in N /\ n # 0
    BY <1>1, <1>2, <1>6
  <2>2. nx2[s[i]] = Behind(r, i + 1, r[1])
    <3>1. CASE i = n
      BY <1>1, <1>2, <1>4, <2>1, <3>1 DEF Behind
    <3>2. CASE i < n
      <4>1. s[i] # s[n]
        BY <1>1, <2>1, <3>2
      <4>2. Behind(r, i + 1, r[1]) = s[i + 1] /\ Behind(s, i + 1, s[1]) = s[i + 1]
        BY <1>1, <1>2, <2>1, <3>2 DEF Behind
      <4> QED
        BY <1>3, <2>1, <4>1, <4>2
    <3> QED
      BY <1>1, <1>6, <3>1, <3>2
  <2>3. pv2[s[i]] = Before(r, i, r[n + 1])
    <3>1. CASE i = 1
      BY <1>1, <1>2, <1>4, <2>1, <3>1 DEF Before
    <3>2. CASE i > 1
      <4>1. s[i] # s[1]
        BY <1>1, <2>1, <3>2
      <4>2. Before(r, i, r[n + 1]) = s[i - 1] /\ Before(s, i, s[n]) = s[i - 1]
        BY <1>1, <1>2, <2>1, <3>2 DEF Before
      <4> QED
        BY <1>3, <2>1, <4>1, <4>2
    <3> QED
      BY <1>1, <2>1, <3>1, <3>2
  <2> QED
    BY <2>1, <2>2, <2>3
<1> QED
  BY <1>1, <1>5, <1>6

\* What taking its head out of a circular list of several writes into the links.
LEMMA RingTail ==
  ASSUME NEW N, NEW s \in Seq(N), IsInjective(s), Len(s) > 1,
         NEW nx, NEW pv, NEW nx2, NEW pv2, Ringed(nx, pv, s),
         \A u \in N : nx2[u] = IF u = s[1] THEN NULL
                               ELSE IF u = s[Len(s)] THEN s[2] ELSE nx[u],
         \A u \in N : pv2[u] = IF u = s[1] THEN NULL
                               ELSE IF u = s[2] THEN s[Len(s)] ELSE pv[u]
  PROVE  Ringed(nx2, pv2, Tail(s))
<1> DEFINE r == Tail(s)
           n == Len(s)
<1>1. /\ n \in Nat
      /\ \A i \in 1..n : s[i] \in N
      /\ \A i, j \in 1..n : s[i] = s[j] => i = j
  BY InjectiveElements
<1>2. Len(r) = n - 1 /\ \A i \in 1..(n - 1) : r[i] = s[i + 1]
  BY EmptySeq, HeadTailProperties
<1>3. \A i \in 1..n : nx[s[i]] = Behind(s, i + 1, s[1]) /\ pv[s[i]] = Before(s, i, s[n])
  BY DEF Ringed, Linked
<1> HIDE DEF r
<1> SUFFICES ASSUME NEW i \in 1..(n - 1)
             PROVE  /\ nx2[r[i]] = Behind(r, i + 1, r[1])
                    /\ pv2[r[i]] = Before(r, i, r[n - 1])
  BY <1>2 DEF Ringed, Linked, r
<1> DEFINE j == i + 1
<1>4. j \in 2..n /\ i = j - 1 /\ r[i] = s[j] /\ r[1] = s[2] /\ r[n - 1] = s[n]
  BY <1>1, <1>2
<1> HIDE DEF j
<1>5. s[j] \in N /\ s[j] # s[1]
  BY <1>1, <1>4
<1>6. nx2[s[j]] = Behind(r, i + 1, s[2])
  <2>1. CASE j = n
    BY <1>1, <1>2, <1>4, <1>5, <2>1 DEF Behind
  <2>2. CASE j < n
    <3>1. s[j] # s[n]
      BY <1>1, <1>4, <2>2
    <3>2. Behind(r, i + 1, s[2]) = s[j + 1] /\ Behind(s, j + 1, s[1]) = s[j + 1]
      BY <1>1, <1>2, <1>4, <2>2 DEF Behind
    <3> QED
      BY <1>3, <1>4, <1>5, <3>1, <3>2
  <2> QED
    BY <1>1, <1>4, <2>1, <2>2
<1>7. pv2[s[j]] = Before(r, i, s[n])
  <2>1. CASE j = 2
    BY <1>1, <1>2, <1>4, <1>5, <2>1 DEF Before
  <2>2. CASE j > 2
    <3>1. s[j] # s[2]
      BY <1>1, <1>4, <2>2
    <3>2. Before(r, i, s[n]) = s[j - 1] /\ Before(s, j, s[n]) = s[j - 1]
      BY <1>1, <1>2, <1>4, <2>2 DEF Before
    <3> QED
      BY <1>3, <1>4, <1>5, <3>1, <3>2
  <2> QED
    BY <1>1, <1>4, <2>1, <2>2
<1> QED
  BY <1>4, <1>6, <1>7

\* A circular list may begin anywhere: its second node becomes the head.
LEMMA RingRotate ==
  ASSUME NEW N, NEW s \in Seq(N), IsInjective(s), s # <<>>, NEW nx, NEW pv, Ringed(nx, pv, s)
  PROVE  Ringed(nx, pv, Append(Tail(s), s[1]))
<1> DEFINE r == Append(Tail(s), s[1])
           n == Len(s)
<1>1. n \in Nat /\ n >= 1 /\ \A i \in 1..n : s[i] \in N
  <2>1. n \in Nat \ {0}
    BY EmptySeq
  <2>2. n >= 1
    BY <2>1
  <2> QED
    BY <2>1, <2>2, InjectiveElements
<1>2. Tail(s) \in Seq(N) /\ Len(Tail(s)) = n - 1 /\ \A i \in 1..(n - 1) : Tail(s)[i] = s[i + 1]
  BY HeadTailProperties
<1>3. Len(r) = n /\ \A i \in 1..n : r[i] = IF i = n THEN s[1] ELSE s[i + 1]
  BY <1>1, <1>2, AppendProperties
<1>4. \A i \in 1..n : nx[s[i]] = Behind(s, i + 1, s[1]) /\ pv[s[i]] = Before(s, i, s[n])
  BY DEF Ringed, Linked
<1> HIDE DEF r
<1> SUFFICES ASSUME NEW i \in 1..n
             PROVE  nx[r[i]] = Behind(r, i + 1, r[1]) /\ pv[r[i]] = Before(r, i, r[n])
  BY <1>3 DEF Ringed, Linked, r
<1>5. CASE i = n
  <2>1. nx[s[1]] = IF n = 1 THEN s[1] ELSE s[2]
    BY <1>1, <1>4 DEF Behind
  <2>2. pv[s[1]] = s[n]
    BY <1>1, <1>4 DEF Before
  <2> QED
    BY <1>1, <1>3, <1>5, <2>1, <2>2 DEF Before, Behind
<1>6. CASE i < n
  <2>1. r[i] = s[i + 1] /\ i + 1 \in 2..n
    BY <1>1, <1>3, <1>6
  <2>2. Behind(s, i + 2, s[1]) = Behind(r, i + 1, r[1])
    BY <1>1, <1>3, <1>6 DEF Behind
  <2>3. Before(s, i + 1, s[n]) = Before(r, i, r[n])
    BY <1>1, <1>3, <1>6 DEF Before
  <2> QED
    BY <1>1, <1>4, <2>1, <2>2, <2>3
<1> QED
  BY <1>1, <1>5, <1>6

\* What moving a node from the middle of a circular list to its tail writes
\* into the links.
LEMMA RingMove ==
  ASSUME NEW N, NEW s \in Seq(N), IsInjective(s), NEW k \in 2..(Len(s) - 1),
         NEW nx, NEW pv, NEW nx2, NEW pv2, Ringed(nx, pv, s),
         \A u \in N : nx2[u] = IF u = s[Len(s)] THEN s[k] ELSE IF u = s[k] THEN s[1]
                               ELSE IF u = s[k - 1] THEN s[k + 1] ELSE nx[u],
         \A u \in N : pv2[u] = IF u = s[1] THEN s[k] ELSE IF u = s[k] THEN s[Len(s)]
                               ELSE IF u = s[k + 1] THEN s[k - 1] ELSE pv[u]
  PROVE  Ringed(nx2, pv2, Append(RemoveAt(s, k), s[k]))
<1> DEFINE r == Append(RemoveAt(s, k), s[k])
           n == Len(s)
<1>1. /\ n \in Nat /\ k \in 2..(n - 1)
      /\ \A i \in 1..n : s[i] \in N
      /\ \A i, j \in 1..n : s[i] = s[j] => i = j
  BY InjectiveElements
<1>2. /\ RemoveAt(s, k) \in Seq(N) /\ Len(RemoveAt(s, k)) = n - 1
      /\ \A i \in 1..(n - 1) : RemoveAt(s, k)[i] = IF i < k THEN s[i] ELSE s[i + 1]
  <2>1. k \in 1..Len(s)
    BY <1>1
  <2> QED
    BY <2>1, RemoveAtType, RemoveAtElements
<1>3. /\ Len(r) = n
      /\ \A i \in 1..n : r[i] = IF i < k THEN s[i] ELSE IF i < n THEN s[i + 1] ELSE s[k]
  BY <1>1, <1>2, AppendProperties
<1>4. \A i \in 1..n : nx[s[i]] = Behind(s, i + 1, s[1]) /\ pv[s[i]] = Before(s, i, s[n])
  BY DEF Ringed, Linked
<1>5. r[1] = s[1] /\ r[n] = s[k]
  BY <1>1, <1>3
<1> HIDE DEF r
<1> SUFFICES ASSUME NEW i \in 1..n
             PROVE  nx2[r[i]] = Behind(r, i + 1, s[1]) /\ pv2[r[i]] = Before(r, i, s[k])
  BY <1>3, <1>5 DEF Ringed, Linked, r
<1>6. CASE i = n
  <2>1. r[i] = s[k] /\ s[k] \in N /\ s[k] # s[n] /\ s[k] # s[1]
    BY <1>1, <1>5, <1>6
  <2>2. Behind(r, i + 1, s[1]) = s[1] /\ Before(r, i, s[k]) = s[n]
    BY <1>1, <1>3, <1>6 DEF Before, Behind
  <2> QED
    BY <2>1, <2>2
<1>7. CASE i < k
  <2>1. r[i] = s[i] /\ s[i] \in N /\ s[i] # s[k] /\ s[i] # s[n] /\ s[i] # s[k + 1]
    BY <1>1, <1>3, <1>7
  <2>2. nx2[s[i]] = Behind(r, i + 1, s[1])
    <3>1. CASE i = k - 1
      BY <1>1, <1>3, <2>1, <3>1 DEF Behind
    <3>2. CASE i < k - 1
      <4>1. s[i] # s[k - 1]
        BY <1>1, <3>2
      <4>2. Behind(r, i + 1, s[1]) = s[i + 1] /\ Behind(s, i + 1, s[1]) = s[i + 1]
        BY <1>1, <1>3, <3>2 DEF Behind
      <4> QED
        BY <1>4, <2>1, <4>1, <4>2
    <3> QED
      BY <1>1, <1>7, <3>1, <3>2
  <2>3. pv2[s[i]] = Before(r, i, s[k])
    <3>1. CASE i = 1
      BY <2>1, <3>1 DEF Before
    <3>2. CASE i > 1
      <4>1. s[i] # s[1]
        BY <1>1, <3>2
      <4>2. Before(r, i, s[k]) = s[i - 1] /\ Before(s, i, s[n]) = s[i - 1]
        BY <1>1, <1>3, <1>7, <3>2 DEF Before
      <4> QED
        BY <1>4, <2>1, <4>1, <4>2
    <3> QED
      BY <3>1, <3>2
  <2> QED
    BY <2>1, <2>2, <2>3
<1>8. CASE i >= k /\ i < n
  <2> DEFINE j == i + 1
  <2>0. j \in 3..n /\ j > k /\ i = j - 1
    BY <1>1, <1>8
  <2> HIDE DEF j
  <2>1. r[i] = s[j] /\ s[j] \in N /\ s[j] # s[k] /\ s[j] # s[1] /\ s[j] # s[k - 1]
    BY <1>1, <1>3, <1>8, <2>0
  <2>2. nx2[s[j]] = Behind(r, i + 1, s[1])
    <3>1. CASE j = n
      BY <1>1, <1>3, <1>5, <2>0, <2>1, <3>1 DEF Behind
    <3>2. CASE j < n
      <4>1. s[j] # s[n]
        BY <1>1, <2>0, <3>2
      <4>2. Behind(r, i + 1, s[1]) = s[j + 1] /\ Behind(s, j + 1, s[1]) = s[j + 1]
        BY <1>1, <1>3, <2>0, <3>2 DEF Behind
      <4>3. j \in 1..n
        BY <2>0
      <4>4. nx2[s[j]] = nx[s[j]]
        BY <2>1, <4>1
      <4> QED
        BY <1>4, <4>2, <4>3, <4>4
    <3> QED
      BY <1>1, <2>0, <3>1, <3>2
  <2>3. pv2[s[j]] = Before(r, i, s[k])
    <3>1. CASE j = k + 1
      BY <1>1, <1>3, <2>0, <2>1, <3>1 DEF Before
    <3>2. CASE j > k + 1
      <4>1. s[j] # s[k + 1]
        BY <1>1, <2>0, <3>2
      <4>2. Before(r, i, s[k]) = s[j - 1] /\ Before(s, j, s[n]) = s[j - 1]
        <5>1. i - 1 \in 1..n /\ ~(i - 1 < k) /\ i - 1 < n /\ (i - 1) + 1 = j - 1
          BY <1>1, <2>0, <3>2
        <5>2. r[i - 1] = s[j - 1]
          BY <1>3, <5>1
        <5>3. i # 1 /\ j # 1
          BY <1>1, <2>0, <3>2
        <5> QED
          BY <5>2, <5>3 DEF Before
      <4>3. j \in 1..n
        BY <2>0
      <4>4. pv2[s[j]] = pv[s[j]]
        BY <2>1, <4>1
      <4> QED
        BY <1>4, <4>2, <4>3, <4>4
    <3> QED
      BY <1>1, <2>0, <3>1, <3>2
  <2> QED
    BY <2>1, <2>2, <2>3
<1> QED
  BY <1>1, <1>6, <1>7, <1>8

-----------------------------------------------------------------------------
(* The lists of the tasks.                                                 *)

\* The task is in none of the lists.
Unlisted(t, rs, bs) ==
  /\ \A p \in Priorities : t \notin Range(rs[p])
  /\ \A l \in BlockedLists : t \notin Range(bs[l])

\* The links nx and pv and the heads rl and bl make the ready lists rs and the
\* lists of blocked tasks bs, and no task is in two of them.
TasksLinked(nx, pv, rl, bl, rs, bs) ==
  /\ DOMAIN nx = Tasks /\ DOMAIN pv = Tasks
  /\ rs \in [Priorities -> Seq(Tasks)]
  /\ bs \in [BlockedLists -> Seq(Tasks)]
  /\ rl = [p \in Priorities |-> Behind(rs[p], 1, NULL)]
  /\ bl = [l \in BlockedLists |-> Behind(bs[l], 1, NULL)]
  /\ \A p \in Priorities : IsInjective(rs[p]) /\ Ringed(nx, pv, rs[p])
  /\ \A p \in Priorities : \A t \in Range(rs[p]) : Priority[t] = p
  /\ \A l \in BlockedLists : IsInjective(bs[l]) /\ Chained(nx, pv, bs[l], NULL)
  /\ \A p \in Priorities, l \in BlockedLists : Range(rs[p]) \cap Range(bs[l]) = {}
  /\ \A l, m \in BlockedLists : l # m => Range(bs[l]) \cap Range(bs[m]) = {}
  /\ \A t \in Tasks : Unlisted(t, rs, bs) => nx[t] = NULL /\ pv[t] = NULL

\* The lists that following the links finds.
ReadyFound(nx, rl) ==
  [p \in Priorities |->
     IF rl[p] = NULL THEN <<>> ELSE Walk(nx, rl[p], rl[p], Cardinality(Tasks))]
BlockedFound(nx, bl) ==
  [l \in BlockedLists |->
     IF bl[l] = NULL THEN <<>> ELSE Walk(nx, bl[l], NULL, Cardinality(Tasks))]

\* They are the only ones there are.
LEMMA TasksFound ==
  ASSUME NEW nx, NEW pv, NEW rl, NEW bl, NEW rs, NEW bs, TasksLinked(nx, pv, rl, bl, rs, bs)
  PROVE  ReadyFound(nx, rl) = rs /\ BlockedFound(nx, bl) = bs
<1> DEFINE fuel == Cardinality(Tasks)
<1>1. ASSUME NEW p \in Priorities
      PROVE  rs[p] = IF rl[p] = NULL THEN <<>> ELSE Walk(nx, rl[p], rl[p], fuel)
  <2> DEFINE s == rs[p]
  <2>1. s \in Seq(Tasks) /\ IsInjective(s) /\ Ringed(nx, pv, s) /\ rl[p] = Behind(s, 1, NULL)
    BY <1>1 DEF TasksLinked
  <2>2. Seq(Tasks) = Seq(DOMAIN nx)
    BY DEF TasksLinked
  <2> HIDE DEF s
  <2>3. CASE s = <<>>
    BY <2>1, <2>3, EmptySeq DEF Behind, s
  <2>4. CASE s # <<>>
    <3>1. Len(s) \in Nat \ {0} /\ Len(s) <= fuel /\ fuel \in Nat
      BY <2>1, <2>4, EmptySeq, NoLongerThanNodes, NodesAssumption
    <3>2. /\ rl[p] = s[1] /\ s[1] \in Tasks
          /\ \A i \in 2..Len(s) : s[i] # s[1]
      BY <2>1, <3>1, InjectiveElements DEF Behind
    <3>3. \A i \in 1..Len(s) : nx[s[i]] = Behind(s, i + 1, s[1])
      BY <2>1 DEF Ringed, Linked
    <3>4. Walk(nx, s[1], s[1], fuel) = s
      <4> HIDE DEF fuel
      <4> QED
        BY <2>1, <2>2, <2>4, <3>1, <3>2, <3>3, WalkFinds
    <3> QED
      BY <3>2, <3>4, NodesAssumption DEF s
  <2> QED
    BY <2>3, <2>4
<1>2. ASSUME NEW l \in BlockedLists
      PROVE  bs[l] = IF bl[l] = NULL THEN <<>> ELSE Walk(nx, bl[l], NULL, fuel)
  <2> DEFINE s == bs[l]
  <2>1. /\ s \in Seq(Tasks) /\ IsInjective(s) /\ Chained(nx, pv, s, NULL)
        /\ bl[l] = Behind(s, 1, NULL)
    BY <1>2 DEF TasksLinked
  <2>2. Seq(Tasks) = Seq(DOMAIN nx)
    BY DEF TasksLinked
  <2> HIDE DEF s
  <2>3. CASE s = <<>>
    BY <2>1, <2>3, EmptySeq DEF Behind, s
  <2>4. CASE s # <<>>
    <3>1. Len(s) \in Nat \ {0} /\ Len(s) <= fuel /\ fuel \in Nat
      BY <2>1, <2>4, EmptySeq, NoLongerThanNodes, NodesAssumption
    <3>2. bl[l] = s[1] /\ s[1] \in Tasks /\ \A i \in 2..Len(s) : s[i] # NULL
      BY <2>1, <3>1, InjectiveElements, NodesAssumption DEF Behind
    <3>3. \A i \in 1..Len(s) : nx[s[i]] = Behind(s, i + 1, NULL)
      BY <2>1 DEF Chained, Linked
    <3>4. Walk(nx, s[1], NULL, fuel) = s
      <4> HIDE DEF fuel
      <4> QED
        BY <2>1, <2>2, <2>4, <3>1, <3>2, <3>3, WalkFinds
    <3> QED
      BY <3>2, <3>4, NodesAssumption DEF s
  <2> QED
    BY <2>3, <2>4
<1>3. rs = [p \in Priorities |-> rs[p]] /\ bs = [l \in BlockedLists |-> bs[l]]
  BY DEF TasksLinked
<1> QED
  BY <1>1, <1>2, <1>3 DEF ReadyFound, BlockedFound

\* The links change so that the tasks of s are those of r afterwards, and every
\* other task keeps its own.
Relinks(nx, pv, nx2, pv2, s, r) ==
  /\ DOMAIN nx2 = Tasks /\ DOMAIN pv2 = Tasks
  /\ r \in Seq(Tasks) /\ IsInjective(r)
  /\ \A u \in Tasks \ (Range(s) \cup Range(r)) : nx2[u] = nx[u] /\ pv2[u] = pv[u]
  /\ \A u \in Range(s) \ Range(r) : nx2[u] = NULL /\ pv2[u] = NULL

\* One ready list changes, by tasks that are in no other list.
LEMMA ReadyListChanges ==
  ASSUME NEW nx, NEW pv, NEW rl, NEW bl, NEW rs, NEW bs, TasksLinked(nx, pv, rl, bl, rs, bs),
         NEW p \in Priorities, NEW nx2, NEW pv2, NEW r,
         Relinks(nx, pv, nx2, pv2, rs[p], r), Ringed(nx2, pv2, r),
         \A t \in Range(r) : Priority[t] = p /\ \A l \in BlockedLists : t \notin Range(bs[l])
  PROVE  TasksLinked(nx2, pv2, [rl EXCEPT ![p] = Behind(r, 1, NULL)], bl,
                     [rs EXCEPT ![p] = r], bs)
<1> DEFINE rs2 == [rs EXCEPT ![p] = r]
           rl2 == [rl EXCEPT ![p] = Behind(r, 1, NULL)]
<1>1. /\ DOMAIN rs = Priorities /\ rs2 \in [Priorities -> Seq(Tasks)]
      /\ rs2[p] = r /\ \A x \in Priorities : x # p => rs2[x] = rs[x]
  BY DEF TasksLinked, Relinks
<1>2. rl2 = [x \in Priorities |-> Behind(rs2[x], 1, NULL)]
  BY <1>1 DEF TasksLinked
<1>3. \A x \in Priorities : \A t \in Range(rs[x]) : Priority[t] = x /\ t \in Tasks
  BY RangeOfSeq DEF TasksLinked
<1> HIDE DEF rs2, rl2
<1>4. ASSUME NEW x \in Priorities, x # p
      PROVE  IsInjective(rs[x]) /\ Ringed(nx2, pv2, rs[x])
  <2>1. \A u \in Range(rs[x]) : u \in Tasks \ (Range(rs[p]) \cup Range(r))
    BY <1>3, <1>4
  <2>2. \A u \in Range(rs[x]) : nx2[u] = nx[u] /\ pv2[u] = pv[u]
    BY <2>1 DEF Relinks
  <2>3. rs[x] \in Seq(Tasks) /\ IsInjective(rs[x]) /\ Ringed(nx, pv, rs[x])
    BY DEF TasksLinked
  <2> QED
    BY <2>2, <2>3, LinksUntouched DEF Ringed
<1>5. ASSUME NEW l \in BlockedLists
      PROVE  IsInjective(bs[l]) /\ Chained(nx2, pv2, bs[l], NULL)
  <2>1. bs[l] \in Seq(Tasks) /\ IsInjective(bs[l]) /\ Chained(nx, pv, bs[l], NULL)
    BY DEF TasksLinked
  <2>2. \A u \in Range(bs[l]) : u \in Tasks \ (Range(rs[p]) \cup Range(r))
    <3>1. Range(bs[l]) \subseteq Tasks
      BY <2>1, RangeOfSeq
    <3>2. Range(rs[p]) \cap Range(bs[l]) = {}
      BY DEF TasksLinked
    <3> QED
      BY <3>1, <3>2
  <2>3. \A u \in Range(bs[l]) : nx2[u] = nx[u] /\ pv2[u] = pv[u]
    BY <2>2 DEF Relinks
  <2> QED
    BY <2>1, <2>3, LinksUntouched DEF Chained
<1>6. \A x \in Priorities, l \in BlockedLists : Range(rs2[x]) \cap Range(bs[l]) = {}
  BY <1>1 DEF TasksLinked
<1>7. ASSUME NEW t \in Tasks, Unlisted(t, rs2, bs) PROVE nx2[t] = NULL /\ pv2[t] = NULL
  <2>1. t \notin Range(r)
    BY <1>1, <1>7 DEF Unlisted
  <2>2. CASE t \in Range(rs[p])
    BY <2>1, <2>2 DEF Relinks
  <2>3. CASE t \notin Range(rs[p])
    <3>1. Unlisted(t, rs, bs)
      BY <1>1, <1>7, <2>3 DEF Unlisted
    <3> QED
      BY <2>1, <2>3, <3>1 DEF TasksLinked, Relinks
  <2> QED
    BY <2>2, <2>3
<1>8. \A x \in Priorities : \A t \in Range(rs2[x]) : Priority[t] = x
  BY <1>1, <1>3
<1>9. \A x \in Priorities : IsInjective(rs2[x]) /\ Ringed(nx2, pv2, rs2[x])
  BY <1>1, <1>4 DEF Relinks
<1>10. TasksLinked(nx2, pv2, rl2, bl, rs2, bs)
  BY <1>1, <1>2, <1>5, <1>6, <1>7, <1>8, <1>9 DEF TasksLinked, Relinks
<1> QED
  BY <1>10 DEF rs2, rl2

\* One list of blocked tasks changes, by tasks that are in no other list.
LEMMA BlockedListChanges ==
  ASSUME NEW nx, NEW pv, NEW rl, NEW bl, NEW rs, NEW bs, TasksLinked(nx, pv, rl, bl, rs, bs),
         NEW l \in BlockedLists, NEW nx2, NEW pv2, NEW r,
         Relinks(nx, pv, nx2, pv2, bs[l], r), Chained(nx2, pv2, r, NULL),
         \A t \in Range(r) : /\ \A p \in Priorities : t \notin Range(rs[p])
                             /\ \A m \in BlockedLists : m # l => t \notin Range(bs[m])
  PROVE  TasksLinked(nx2, pv2, rl, [bl EXCEPT ![l] = Behind(r, 1, NULL)],
                     rs, [bs EXCEPT ![l] = r])
<1> DEFINE bs2 == [bs EXCEPT ![l] = r]
           bl2 == [bl EXCEPT ![l] = Behind(r, 1, NULL)]
<1>1. /\ DOMAIN bs = BlockedLists /\ bs2 \in [BlockedLists -> Seq(Tasks)]
      /\ bs2[l] = r /\ \A x \in BlockedLists : x # l => bs2[x] = bs[x]
  BY DEF TasksLinked, Relinks
<1>2. bl2 = [x \in BlockedLists |-> Behind(bs2[x], 1, NULL)]
  BY <1>1 DEF TasksLinked
<1> HIDE DEF bs2, bl2
<1>3. ASSUME NEW x \in BlockedLists, x # l
      PROVE  IsInjective(bs[x]) /\ Chained(nx2, pv2, bs[x], NULL)
  <2>1. bs[x] \in Seq(Tasks) /\ IsInjective(bs[x]) /\ Chained(nx, pv, bs[x], NULL)
    BY DEF TasksLinked
  <2>2. \A u \in Range(bs[x]) : u \in Tasks \ (Range(bs[l]) \cup Range(r))
    <3>1. Range(bs[x]) \subseteq Tasks
      BY <2>1, RangeOfSeq
    <3>2. Range(bs[x]) \cap Range(bs[l]) = {}
      BY <1>3 DEF TasksLinked
    <3> QED
      BY <1>3, <3>1, <3>2
  <2>3. \A u \in Range(bs[x]) : nx2[u] = nx[u] /\ pv2[u] = pv[u]
    BY <2>2 DEF Relinks
  <2> QED
    BY <2>1, <2>3, LinksUntouched DEF Chained
<1>4. ASSUME NEW p \in Priorities
      PROVE  IsInjective(rs[p]) /\ Ringed(nx2, pv2, rs[p])
  <2>1. rs[p] \in Seq(Tasks) /\ IsInjective(rs[p]) /\ Ringed(nx, pv, rs[p])
    BY DEF TasksLinked
  <2>2. \A u \in Range(rs[p]) : u \in Tasks \ (Range(bs[l]) \cup Range(r))
    <3>1. Range(rs[p]) \subseteq Tasks
      BY <2>1, RangeOfSeq
    <3>2. Range(rs[p]) \cap Range(bs[l]) = {}
      BY DEF TasksLinked
    <3> QED
      BY <3>1, <3>2
  <2>3. \A u \in Range(rs[p]) : nx2[u] = nx[u] /\ pv2[u] = pv[u]
    BY <2>2 DEF Relinks
  <2> QED
    BY <2>1, <2>3, LinksUntouched DEF Ringed
<1>5. \A p \in Priorities, x \in BlockedLists : Range(rs[p]) \cap Range(bs2[x]) = {}
  BY <1>1 DEF TasksLinked
<1>6. ASSUME NEW x \in BlockedLists, NEW m \in BlockedLists, x # m
      PROVE  Range(bs2[x]) \cap Range(bs2[m]) = {}
  <2>1. CASE x = l
    BY <1>1, <1>6, <2>1
  <2>2. CASE m = l
    BY <1>1, <1>6, <2>2
  <2>3. CASE x # l /\ m # l
    BY <1>1, <1>6, <2>3 DEF TasksLinked
  <2> QED
    BY <2>1, <2>2, <2>3
<1>7. ASSUME NEW t \in Tasks, Unlisted(t, rs, bs2) PROVE nx2[t] = NULL /\ pv2[t] = NULL
  <2>1. t \notin Range(r)
    BY <1>1, <1>7 DEF Unlisted
  <2>2. CASE t \in Range(bs[l])
    BY <2>1, <2>2 DEF Relinks
  <2>3. CASE t \notin Range(bs[l])
    <3>1. Unlisted(t, rs, bs)
      BY <1>1, <1>7, <2>3 DEF Unlisted
    <3> QED
      BY <2>1, <2>3, <3>1 DEF TasksLinked, Relinks
  <2> QED
    BY <2>2, <2>3
<1>8. \A x \in BlockedLists : IsInjective(bs2[x]) /\ Chained(nx2, pv2, bs2[x], NULL)
  BY <1>1, <1>3 DEF Relinks
<1>9. TasksLinked(nx2, pv2, rl, bl2, rs, bs2)
  BY <1>1, <1>2, <1>4, <1>5, <1>6, <1>7, <1>8 DEF TasksLinked, Relinks
<1> QED
  BY <1>9 DEF bs2, bl2

-----------------------------------------------------------------------------
(* The operations on the lists of the tasks.                               *)

TaskListsLinked ==
  TasksLinked(next, prev, ready_list, blocked_list, ReadySequences, BlockedSequences)

\* What one ready list, linked as it should be, says of its head and its tail.
LEMMA RingEnds ==
  ASSUME TaskListsLinked, NEW p \in Priorities
  PROVE  LET s == ReadySequences[p]
         IN  /\ s \in Seq(Tasks) /\ IsInjective(s) /\ Ringed(next, prev, s)
             /\ s = <<>> => ready_list[p] = NULL
             /\ s # <<>> => /\ Len(s) >= 1 /\ ready_list[p] = s[1]
                            /\ s[1] \in Tasks /\ prev[s[1]] = s[Len(s)]
<1> DEFINE s == ReadySequences[p]
<1>1. /\ s \in Seq(Tasks) /\ IsInjective(s) /\ Ringed(next, prev, s)
      /\ ready_list[p] = Behind(s, 1, NULL)
  BY DEF TaskListsLinked, TasksLinked
<1> HIDE DEF s
<1>2. CASE s = <<>>
  BY <1>1, <1>2, EmptySeq DEF Behind, s
<1>3. CASE s # <<>>
  <2>1. Len(s) \in Nat /\ Len(s) >= 1
    <3>1. Len(s) \in Nat \ {0}
      BY <1>1, <1>3, EmptySeq
    <3> QED
      BY <3>1
  <2>2. ready_list[p] = s[1]
    BY <1>1, <2>1 DEF Behind
  <2>3. prev[s[1]] = s[Len(s)] /\ s[1] \in Tasks
    BY <1>1, <2>1, InjectiveElements DEF Ringed, Linked, Before
  <2> QED
    BY <1>1, <1>3, <2>1, <2>2, <2>3 DEF s
<1> QED
  BY <1>2, <1>3

LEMMA InsertReadyLinks ==
  ASSUME TaskListsLinked, NEW t \in Tasks, InNoList(t), insert_into_ready_list(t)
  PROVE  TasksLinked(next', prev', ready_list', blocked_list',
           [ReadySequences EXCEPT ![Priority[t]] = Append(@, t)], BlockedSequences)
<1> DEFINE p == Priority[t]
           rs == ReadySequences
           bs == BlockedSequences
           s == rs[p]
           r == Append(s, t)
<1>0. p \in Priorities
  BY NodesAssumption DEF Priorities
<1>1. /\ s \in Seq(Tasks) /\ IsInjective(s) /\ Ringed(next, prev, s)
      /\ s = <<>> => ready_list[p] = NULL
      /\ s # <<>> => /\ Len(s) >= 1 /\ ready_list[p] = s[1]
                     /\ s[1] \in Tasks /\ prev[s[1]] = s[Len(s)]
  BY <1>0, RingEnds
<1>2. Unlisted(t, rs, bs)
  BY DEF InNoList, Unlisted, ReadySequences, BlockedSequences
<1>3. TasksLinked(next, prev, ready_list, blocked_list, rs, bs)
  BY DEF TaskListsLinked
<1>4. DOMAIN next = Tasks /\ DOMAIN prev = Tasks
  BY <1>3 DEF TasksLinked
<1>5. blocked_list' = blocked_list
  BY DEF insert_into_ready_list
<1> HIDE DEF rs, bs, s, r
<1>6. t \notin Range(s) /\ \A l \in BlockedLists : t \notin Range(bs[l])
  BY <1>0, <1>2 DEF Unlisted, s
<1>7. /\ DOMAIN next' = Tasks
      /\ \A u \in Tasks : next'[u] = IF u = t THEN (IF s = <<>> THEN t ELSE s[1])
                                     ELSE IF s # <<>> /\ u = s[Len(s)] THEN t ELSE next[u]
  <2>1. CASE s = <<>>
    BY <1>0, <1>1, <1>4, <2>1 DEF insert_into_ready_list
  <2>2. CASE s # <<>>
    <3>1. s[Len(s)] # t
      BY <1>1, <1>6, <2>2, InjectiveElements
    <3>2. next' = [next EXCEPT ![t] = s[1], ![s[Len(s)]] = t]
      BY <1>0, <1>1, <2>2, NodesAssumption DEF insert_into_ready_list
    <3> QED
      BY <1>4, <2>2, <3>1, <3>2
  <2> QED
    BY <2>1, <2>2
<1>8. /\ DOMAIN prev' = Tasks
      /\ \A u \in Tasks : prev'[u] = IF u = t THEN (IF s = <<>> THEN t ELSE s[Len(s)])
                                     ELSE IF s # <<>> /\ u = s[1] THEN t ELSE prev[u]
  <2>1. CASE s = <<>>
    BY <1>0, <1>1, <1>4, <2>1 DEF insert_into_ready_list
  <2>2. CASE s # <<>>
    <3>1. s[1] # t
      BY <1>1, <1>6, <2>2, InjectiveElements
    <3>2. prev' = [prev EXCEPT ![t] = s[Len(s)], ![s[1]] = t]
      BY <1>0, <1>1, <2>2, NodesAssumption DEF insert_into_ready_list
    <3> QED
      BY <1>4, <2>2, <3>1, <3>2
  <2> QED
    BY <2>1, <2>2
<1>9. Ringed(next', prev', r)
  BY <1>1, <1>6, <1>7, <1>8, RingAppend DEF r
<1>10. Range(r) = Range(s) \cup {t} /\ IsInjective(r) /\ r \in Seq(Tasks)
  BY <1>1, <1>6, AppendElements, AppendProperties DEF r
<1>11. s # <<>> => s[1] \in Range(s) /\ s[Len(s)] \in Range(s)
  BY <1>1, InjectiveElements
<1>12. Relinks(next, prev, next', prev', s, r)
  BY <1>7, <1>8, <1>10, <1>11 DEF Relinks
<1>13. ASSUME NEW u \in Range(r) PROVE Priority[u] = p /\ \A l \in BlockedLists : u \notin Range(bs[l])
  <2>1. CASE u = t
    BY <1>6, <2>1
  <2>2. CASE u \in Range(s)
    BY <1>0, <1>3, <2>2 DEF TasksLinked, s
  <2> QED
    BY <1>10, <1>13, <2>1, <2>2
<1>14. ready_list' = [ready_list EXCEPT ![p] = Behind(r, 1, NULL)]
  <2>1. Len(r) >= 1 /\ r[1] = IF s = <<>> THEN t ELSE s[1]
    <3>1. CASE s = <<>>
      BY <1>1, <3>1, EmptySeq, AppendProperties DEF r
    <3>2. CASE s # <<>>
      BY <1>1, <3>2, LenProperties, AppendProperties DEF r
    <3> QED
      BY <3>1, <3>2
  <2>2. Behind(r, 1, NULL) = r[1]
    BY <1>10, <2>1, LenProperties DEF Behind
  <2>3. CASE s = <<>>
    BY <1>1, <2>1, <2>2, <2>3 DEF insert_into_ready_list
  <2>4. CASE s # <<>>
    <3>1. ready_list' = ready_list
      BY <1>1, <2>4, NodesAssumption DEF insert_into_ready_list
    <3>2. ready_list = [x \in Priorities |-> ready_list[x]]
      BY <1>3 DEF TasksLinked
    <3> QED
      BY <1>1, <2>1, <2>2, <2>4, <3>1, <3>2
  <2> QED
    BY <2>3, <2>4
<1>15. TasksLinked(next', prev', ready_list', blocked_list', [rs EXCEPT ![p] = r], bs)
  <2> HIDE DEF p
  <2> QED
    BY <1>0, <1>3, <1>5, <1>9, <1>12, <1>13, <1>14, ReadyListChanges DEF s
<1> QED
  BY <1>15 DEF rs, bs, s, r

LEMMA RemoveReadyLinks ==
  ASSUME TaskListsLinked, NEW t \in Tasks, remove_from_ready_list(t)
  PROVE  /\ TasksLinked(next', prev', ready_list', blocked_list',
              [ReadySequences EXCEPT ![Priority[t]] = Tail(@)], BlockedSequences)
         /\ ready_bitmap' = IF Tail(ReadySequences[Priority[t]]) = <<>>
                              THEN ready_bitmap \ {Priority[t]} ELSE ready_bitmap
<1> DEFINE p == Priority[t]
           rs == ReadySequences
           bs == BlockedSequences
           s == rs[p]
           n == Len(s)
           r == Tail(s)
<1>0. p \in Priorities
  BY NodesAssumption DEF Priorities
<1>1. /\ s \in Seq(Tasks) /\ IsInjective(s) /\ Ringed(next, prev, s)
      /\ s # <<>> /\ Len(s) >= 1 /\ t = s[1] /\ prev[t] = s[n]
  BY <1>0, RingEnds, NodesAssumption DEF remove_from_ready_list
<1>2. TasksLinked(next, prev, ready_list, blocked_list, rs, bs)
  BY DEF TaskListsLinked
<1>3. DOMAIN next = Tasks /\ DOMAIN prev = Tasks
  BY <1>2 DEF TasksLinked
<1>4. blocked_list' = blocked_list
  BY DEF remove_from_ready_list
<1> HIDE DEF rs, bs, s, r
<1>5. /\ n \in Nat
      /\ \A i \in 1..n : s[i] \in Tasks /\ s[i] \in Range(s)
      /\ \A i, j \in 1..n : s[i] = s[j] => i = j
  BY <1>1, InjectiveElements
<1>6. next[t] = Behind(s, 2, t)
  <2>1. \A i \in 1..n : next[s[i]] = Behind(s, i + 1, s[1])
    BY <1>1 DEF Ringed, Linked
  <2>2. next[s[1]] = Behind(s, 1 + 1, s[1])
    BY <1>1, <1>5, <2>1
  <2> QED
    BY <1>1, <2>2
<1>7. r \in Seq(Tasks) /\ Len(r) = n - 1 /\ \A i \in 1..(n - 1) : r[i] = s[i + 1]
  BY <1>1, HeadTailProperties DEF r
<1>8. Range(r) = Range(s) \ {t} /\ IsInjective(r) /\ t \in Range(s)
  <2>1. Head(s) = t
    BY <1>1
  <2> QED
    BY <1>1, <2>1, TailElements DEF r
<1>9. /\ DOMAIN next' = Tasks /\ DOMAIN prev' = Tasks
      /\ Ringed(next', prev', r) /\ next'[t] = NULL /\ prev'[t] = NULL
      /\ \A u \in Tasks \ Range(s) : next'[u] = next[u] /\ prev'[u] = prev[u]
      /\ ready_list' = [ready_list EXCEPT ![p] = Behind(r, 1, NULL)]
      /\ ready_bitmap' = IF r = <<>> THEN ready_bitmap \ {p} ELSE ready_bitmap
  <2>1. CASE n = 1
    <3>1. r = <<>> /\ Len(r) = 0
      BY <1>7, <2>1, EmptySeq
    <3>2. prev[t] = t
      BY <1>1, <2>1
    <3>3. Ringed(next', prev', r)
      BY <3>1 DEF Ringed, Linked
    <3>4. Behind(r, 1, NULL) = NULL
      BY <3>1 DEF Behind
    <3>5. /\ next' = [next EXCEPT ![t] = NULL] /\ prev' = [prev EXCEPT ![t] = NULL]
          /\ ready_list' = [ready_list EXCEPT ![p] = NULL]
          /\ ready_bitmap' = ready_bitmap \ {p}
      BY <3>2 DEF remove_from_ready_list
    <3> QED
      BY <1>3, <1>8, <3>1, <3>3, <3>4, <3>5
  <2>2. CASE n > 1
    <3>1. /\ next[t] = s[2] /\ s[2] \in Tasks /\ s[n] \in Tasks
          /\ s[2] # t /\ s[n] # t
          /\ s[2] \in Range(s) /\ s[n] \in Range(s)
      BY <1>1, <1>5, <1>6, <2>2 DEF Behind
    <3>2. /\ next' = [next EXCEPT ![s[n]] = s[2], ![t] = NULL]
          /\ prev' = [prev EXCEPT ![s[2]] = s[n], ![t] = NULL]
          /\ ready_list' = [ready_list EXCEPT ![p] = s[2]]
          /\ ready_bitmap' = ready_bitmap
      BY <1>1, <3>1 DEF remove_from_ready_list
    <3>3. \A u \in Tasks : next'[u] = IF u = s[1] THEN NULL
                                      ELSE IF u = s[Len(s)] THEN s[2] ELSE next[u]
      BY <1>1, <1>3, <3>1, <3>2
    <3>6. \A u \in Tasks : prev'[u] = IF u = s[1] THEN NULL
                                      ELSE IF u = s[2] THEN s[Len(s)] ELSE prev[u]
      BY <1>1, <1>3, <3>1, <3>2
    <3>4. Ringed(next', prev', r)
      BY <1>1, <2>2, <3>3, <3>6, RingTail DEF r
    <3>5. r # <<>> /\ Behind(r, 1, NULL) = s[2]
      BY <1>5, <1>7, <2>2, EmptySeq DEF Behind
    <3> QED
      BY <1>1, <1>3, <1>8, <3>1, <3>2, <3>3, <3>4, <3>5, <3>6
  <2>3. n = 1 \/ n > 1
    <3>1. n \in Nat /\ n >= 1
      BY <1>1, <1>5
    <3> HIDE DEF n
    <3> QED
      BY <3>1
  <2> QED
    BY <2>1, <2>2, <2>3, Zenon
<1>10. Relinks(next, prev, next', prev', s, r)
  BY <1>7, <1>8, <1>9 DEF Relinks
<1>11. \A u \in Range(r) : Priority[u] = p /\ \A l \in BlockedLists : u \notin Range(bs[l])
  BY <1>0, <1>2, <1>8 DEF TasksLinked, s
<1>12. TasksLinked(next', prev', ready_list', blocked_list', [rs EXCEPT ![p] = r], bs)
  <2> HIDE DEF p
  <2> QED
    BY <1>0, <1>2, <1>4, <1>9, <1>10, <1>11, ReadyListChanges DEF s
<1> QED
  BY <1>9, <1>12 DEF rs, bs, s, r

LEMMA YieldLinks ==
  ASSUME TaskListsLinked, NEW t \in Tasks, yield_task(t)
  PROVE  \E k \in 1..Len(ReadySequences[Priority[t]]) :
           /\ ReadySequences[Priority[t]][k] = t
           /\ TasksLinked(next', prev', ready_list', blocked_list',
                [ReadySequences EXCEPT ![Priority[t]] = Append(RemoveAt(@, k), t)],
                BlockedSequences)
<1> DEFINE p == Priority[t]
           rs == ReadySequences
           bs == BlockedSequences
           s == rs[p]
           n == Len(s)
<1>0. p \in Priorities
  BY NodesAssumption DEF Priorities
<1>1. t \in Range(s)
  BY <1>0 DEF yield_task, ReadySequences
<1>2. /\ s \in Seq(Tasks) /\ IsInjective(s) /\ Ringed(next, prev, s)
      /\ s = <<>> => ready_list[p] = NULL
      /\ s # <<>> => /\ Len(s) >= 1 /\ ready_list[p] = s[1]
                     /\ s[1] \in Tasks /\ prev[s[1]] = s[Len(s)]
  BY <1>0, RingEnds
<1>3. TasksLinked(next, prev, ready_list, blocked_list, rs, bs)
  BY DEF TaskListsLinked
<1>4. DOMAIN next = Tasks /\ DOMAIN prev = Tasks
  BY <1>3 DEF TasksLinked
<1>5. blocked_list' = blocked_list
  BY DEF yield_task
<1> HIDE DEF rs, bs, s
<1>6. /\ n \in Nat
      /\ \A i \in 1..n : s[i] \in Tasks /\ s[i] \in Range(s)
      /\ \A i, j \in 1..n : s[i] = s[j] => i = j
  BY <1>2, InjectiveElements
<1>7. PICK k \in 1..n : s[k] = t
  BY <1>1, <1>2, LenProperties DEF Range
<1>8. s # <<>> /\ n >= 1
  <2>1. s # <<>>
    BY <1>1 DEF Range
  <2> QED
    BY <1>2, <2>1
<1> DEFINE r == Append(RemoveAt(s, k), t)
<1>9. Range(r) = Range(s) /\ IsInjective(r)
  BY <1>2, <1>7, MoveToTailElements
<1>10. /\ r \in Seq(Tasks) /\ Len(r) = n
       /\ r[1] = IF n = 1 THEN t ELSE IF k = 1 THEN s[2] ELSE s[1]
  <2>1. /\ RemoveAt(s, k) \in Seq(Tasks) /\ Len(RemoveAt(s, k)) = n - 1
        /\ \A j \in 1..(n - 1) : RemoveAt(s, k)[j] = IF j < k THEN s[j] ELSE s[j + 1]
    BY <1>2, RemoveAtType, RemoveAtElements
  <2>2. /\ r \in Seq(Tasks) /\ Len(r) = n - 1 + 1 /\ r[n - 1 + 1] = t
        /\ \A j \in 1..(n - 1) : r[j] = RemoveAt(s, k)[j]
    BY <2>1, AppendProperties
  <2>3. n - 1 + 1 = n
    BY <1>6
  <2> HIDE DEF r
  <2>4. CASE n = 1
    BY <2>2, <2>3, <2>4
  <2>5. CASE n > 1
    <3>1. 1 \in 1..(n - 1)
      BY <1>6, <2>5
    <3> QED
      BY <1>6, <2>1, <2>2, <2>3, <2>5, <3>1
  <2>6. n = 1 \/ n > 1
    <3> HIDE DEF n
    <3> QED
      BY <1>6, <1>8
  <2> QED
    BY <2>4, <2>5, <2>6
<1>11. Behind(r, 1, NULL) = r[1]
  BY <1>8, <1>10 DEF Behind
<1>12. ready_list[p] = s[1] /\ s[1] \in Tasks /\ prev[s[1]] = s[n]
  BY <1>2, <1>8
<1>13. /\ \A i \in 1..n : next[s[i]] = Behind(s, i + 1, s[1])
       /\ \A i \in 1..n : prev[s[i]] = Before(s, i, s[n])
  BY <1>2 DEF Ringed, Linked
<1>14. next[t] = IF k = n THEN s[1] ELSE s[k + 1]
  BY <1>6, <1>7, <1>13 DEF Behind
<1>15. prev[t] = IF k = 1 THEN s[n] ELSE s[k - 1]
  BY <1>6, <1>7, <1>13 DEF Before
<1> HIDE DEF r
<1>16. /\ DOMAIN next' = Tasks /\ DOMAIN prev' = Tasks /\ Ringed(next', prev', r)
       /\ \A u \in Tasks \ Range(s) : next'[u] = next[u] /\ prev'[u] = prev[u]
       /\ ready_list' = [ready_list EXCEPT ![p] = Behind(r, 1, NULL)]
  <2>0. ready_list = [ready_list EXCEPT ![p] = s[1]]
    <3>1. ready_list = [x \in Priorities |-> ready_list[x]]
      BY <1>3 DEF TasksLinked
    <3> QED
      BY <1>12, <3>1
  <2>1. CASE t = s[1]
    <3>1. k = 1
      BY <1>6, <1>7, <1>8, <2>1
    <3>2. next' = next /\ prev' = prev /\ ready_list' = [ready_list EXCEPT ![p] = next[t]]
      BY <1>12, <2>1 DEF yield_task
    <3>3. Ringed(next, prev, r)
      BY <1>2, <1>8, <2>1, <3>1, MoveEnds, RingRotate DEF r
    <3>4. next[t] = Behind(r, 1, NULL)
      <4>1. 1 + 1 = 2
        OBVIOUS
      <4> QED
        BY <1>10, <1>11, <1>14, <2>1, <3>1, <4>1
    <3> QED
      BY <1>4, <3>2, <3>3, <3>4
  <2>2. CASE t # s[1] /\ t = s[n]
    <3>1. k = n /\ k # 1
      BY <1>6, <1>7, <1>8, <2>2
    <3>2. next' = next /\ prev' = prev /\ ready_list' = ready_list
      BY <1>12, <2>2 DEF yield_task
    <3>3. r = s
      BY <1>2, <1>8, <2>2, <3>1, MoveEnds DEF r
    <3>4. Behind(r, 1, NULL) = s[1]
      BY <1>11, <3>3
    <3> QED
      BY <1>2, <1>4, <2>0, <3>2, <3>3, <3>4
  <2>3. CASE t # s[1] /\ t # s[n]
    <3>1. k \in 2..(n - 1)
      BY <1>6, <1>7, <2>3
    <3>2. next[t] = s[k + 1] /\ prev[t] = s[k - 1]
      BY <1>14, <1>15, <3>1
    <3>3. /\ next' = [next EXCEPT ![s[k - 1]] = s[k + 1], ![t] = s[1], ![s[n]] = t]
          /\ prev' = [prev EXCEPT ![s[k + 1]] = s[k - 1], ![t] = s[n], ![s[1]] = t]
          /\ ready_list' = [ready_list EXCEPT ![p] = next'[t]]
      BY <1>12, <2>3, <3>2 DEF yield_task, Relinked
    <3>4. /\ s[k - 1] \in Tasks /\ s[k + 1] \in Tasks /\ s[n] \in Tasks
          /\ s[k - 1] \in Range(s) /\ s[k + 1] \in Range(s) /\ s[n] \in Range(s)
          /\ s[1] \in Range(s)
      BY <1>6, <1>8, <3>1
    <3>5. \A u \in Tasks : next'[u] = IF u = s[Len(s)] THEN s[k] ELSE IF u = s[k] THEN s[1]
                                      ELSE IF u = s[k - 1] THEN s[k + 1] ELSE next[u]
      BY <1>4, <1>7, <3>3
    <3>6. \A u \in Tasks : prev'[u] = IF u = s[1] THEN s[k] ELSE IF u = s[k] THEN s[Len(s)]
                                      ELSE IF u = s[k + 1] THEN s[k - 1] ELSE prev[u]
      BY <1>4, <1>7, <3>3
    <3>7. Ringed(next', prev', r)
      BY <1>2, <1>7, <3>1, <3>5, <3>6, RingMove DEF r
    <3>8. next'[t] = s[1]
      BY <1>7, <2>3, <3>5
    <3>9. Behind(r, 1, NULL) = s[1]
      BY <1>6, <1>10, <1>11, <3>1
    <3>10. \A u \in Tasks \ Range(s) : next'[u] = next[u] /\ prev'[u] = prev[u]
      BY <1>1, <1>7, <3>4, <3>5, <3>6
    <3> QED
      BY <1>4, <3>3, <3>7, <3>8, <3>9, <3>10
  <2> QED
    BY <2>1, <2>2, <2>3
<1>17. Relinks(next, prev, next', prev', s, r)
  BY <1>9, <1>10, <1>16 DEF Relinks, r
<1>18. \A u \in Range(r) : Priority[u] = p /\ \A l \in BlockedLists : u \notin Range(bs[l])
  BY <1>0, <1>3, <1>9 DEF TasksLinked, s, r
<1>19. TasksLinked(next', prev', ready_list', blocked_list', [rs EXCEPT ![p] = r], bs)
  <2> HIDE DEF p
  <2> QED
    BY <1>0, <1>3, <1>5, <1>16, <1>17, <1>18, ReadyListChanges DEF s
<1> QED
  BY <1>7, <1>19 DEF rs, bs, s, r

\* What one list of blocked tasks, linked as it should be, says of its ends.
LEMMA ChainEnds ==
  ASSUME TaskListsLinked, NEW l \in BlockedLists
  PROVE  LET s == BlockedSequences[l]
         IN  /\ s \in Seq(Tasks) /\ IsInjective(s) /\ Chained(next, prev, s, NULL)
             /\ blocked_list[l] = Behind(s, 1, NULL)
BY DEF TaskListsLinked, TasksLinked

LEMMA InsertBlockedLinks ==
  ASSUME TaskListsLinked, NEW t \in Tasks, NEW l \in BlockedLists, InNoList(t),
         insert_into_blocked_list(l, t)
  PROVE  \E k \in 1..(Len(BlockedSequences[l]) + 1) :
           /\ Sequences!BlockedPlace(BlockedSequences[l], t, k)
           /\ TasksLinked(next', prev', ready_list', blocked_list', ReadySequences,
                [BlockedSequences EXCEPT ![l] = InsertAt(@, k, t)])
<1> DEFINE rs == ReadySequences
           bs == BlockedSequences
           s == bs[l]
           n == Len(s)
<1>1. /\ s \in Seq(Tasks) /\ IsInjective(s) /\ Chained(next, prev, s, NULL)
      /\ blocked_list[l] = Behind(s, 1, NULL)
  BY ChainEnds
<1>2. Unlisted(t, rs, bs)
  BY DEF InNoList, Unlisted, ReadySequences, BlockedSequences
<1>3. TasksLinked(next, prev, ready_list, blocked_list, rs, bs)
  BY DEF TaskListsLinked
<1>4. DOMAIN next = Tasks /\ DOMAIN prev = Tasks
  BY <1>3 DEF TasksLinked
<1>5. s = BlockedTasks(l)
  BY DEF BlockedSequences
<1> HIDE DEF rs, bs, s
<1>6. PICK k \in 1..(n + 1) :
        /\ \A i \in 1..(k - 1) : Priority[t] <= Priority[s[i]]
        /\ Behind(s, k, NULL) # NULL => Priority[t] > Priority[Behind(s, k, NULL)]
        /\ next' = [next EXCEPT ![t] = Behind(s, k, NULL), ![Before(s, k, NULL)] = t]
        /\ prev' = [prev EXCEPT ![t] = Before(s, k, NULL), ![Behind(s, k, NULL)] = t]
        /\ blocked_list' = IF Before(s, k, NULL) = NULL
                             THEN [blocked_list EXCEPT ![l] = t] ELSE blocked_list
  BY <1>5 DEF insert_into_blocked_list
<1>7. ready_list' = ready_list
  BY DEF insert_into_blocked_list
<1>8. /\ n \in Nat
      /\ \A i \in 1..n : s[i] \in Tasks /\ s[i] \in Range(s) /\ s[i] # NULL
      /\ \A i, j \in 1..n : s[i] = s[j] => i = j
  BY <1>1, InjectiveElements, NodesAssumption
<1>9. t \notin Range(s) /\ t # NULL
  BY <1>2, NodesAssumption DEF Unlisted, s
<1>10. /\ Before(s, k, NULL) # NULL => Before(s, k, NULL) \in Range(s) /\ k # 1
       /\ Behind(s, k, NULL) # NULL => Behind(s, k, NULL) \in Range(s)
       /\ k # 1 => Before(s, k, NULL) # NULL
       /\ k <= n => Behind(s, k, NULL) = s[k] /\ s[k] # NULL
  BY <1>8 DEF Before, Behind
<1>11. Before(s, k, NULL) # t /\ Behind(s, k, NULL) # t
  BY <1>9, <1>10
<1> DEFINE r == InsertAt(s, k, t)
<1>12. \A u \in Tasks : next'[u] = IF u = t THEN Behind(s, k, NULL)
                                   ELSE IF u = Before(s, k, NULL) THEN t ELSE next[u]
  BY <1>4, <1>6, <1>11
<1>13. \A u \in Tasks : prev'[u] = IF u = t THEN Before(s, k, NULL)
                                   ELSE IF u = Behind(s, k, NULL) THEN t ELSE prev[u]
  BY <1>4, <1>6, <1>11
<1>14. Chained(next', prev', r, NULL)
  BY <1>1, <1>9, <1>12, <1>13, ChainInsert, NodesAssumption
<1>15. Range(r) = Range(s) \cup {t} /\ IsInjective(r) /\ r \in Seq(Tasks)
  BY <1>1, <1>9, InsertAtRange, InsertAtType
<1>16. Behind(r, 1, NULL) = IF k = 1 THEN t ELSE s[1]
  <2>1. /\ Len(r) = n + 1
        /\ \A i \in 1..(n + 1) : r[i] = IF i < k THEN s[i] ELSE IF i = k THEN t ELSE s[i - 1]
    BY <1>1, InsertAtElements
  <2> HIDE DEF r
  <2>2. r[1] = IF k = 1 THEN t ELSE s[1]
    BY <1>8, <2>1
  <2> QED
    BY <1>8, <2>1, <2>2 DEF Behind
<1> HIDE DEF r
<1>17. blocked_list' = [blocked_list EXCEPT ![l] = Behind(r, 1, NULL)]
  <2>1. CASE k = 1
    BY <1>6, <1>16, <2>1 DEF Before
  <2>2. CASE k # 1
    <3>1. blocked_list' = blocked_list
      BY <1>6, <1>10, <2>2
    <3>2. blocked_list = [x \in BlockedLists |-> blocked_list[x]]
      BY <1>3 DEF TasksLinked
    <3>3. blocked_list[l] = s[1]
      BY <1>1, <1>8, <2>2 DEF Behind
    <3> QED
      BY <1>16, <2>2, <3>1, <3>2, <3>3
  <2> QED
    BY <2>1, <2>2
<1>18. Relinks(next, prev, next', prev', s, r)
  <2>1. DOMAIN next' = Tasks /\ DOMAIN prev' = Tasks
    BY <1>4, <1>6
  <2>2. \A u \in Tasks \ (Range(s) \cup Range(r)) : next'[u] = next[u] /\ prev'[u] = prev[u]
    BY <1>10, <1>12, <1>13, <1>15, NodesAssumption
  <2> QED
    BY <1>15, <2>1, <2>2 DEF Relinks
<1>19. ASSUME NEW u \in Range(r)
       PROVE  /\ \A p \in Priorities : u \notin Range(rs[p])
              /\ \A m \in BlockedLists : m # l => u \notin Range(bs[m])
  <2>1. CASE u = t
    BY <1>2, <2>1 DEF Unlisted
  <2>2. CASE u \in Range(s)
    BY <1>3, <2>2 DEF TasksLinked, s
  <2> QED
    BY <1>15, <1>19, <2>1, <2>2
<1>20. TasksLinked(next', prev', ready_list', blocked_list', rs, [bs EXCEPT ![l] = r])
  BY <1>3, <1>7, <1>14, <1>17, <1>18, <1>19, BlockedListChanges DEF s
<1>21. Sequences!BlockedPlace(s, t, k)
  BY <1>6, <1>10 DEF Sequences!BlockedPlace
<1> QED
  BY <1>20, <1>21 DEF rs, bs, s, r

LEMMA RemoveBlockedLinks ==
  ASSUME TaskListsLinked, NEW t \in Tasks, NEW l \in BlockedLists,
         remove_from_blocked_list(l, t)
  PROVE  \E k \in 1..Len(BlockedSequences[l]) :
           /\ BlockedSequences[l][k] = t
           /\ TasksLinked(next', prev', ready_list', blocked_list', ReadySequences,
                [BlockedSequences EXCEPT ![l] = RemoveAt(@, k)])
<1> DEFINE rs == ReadySequences
           bs == BlockedSequences
           s == bs[l]
           n == Len(s)
<1>1. /\ s \in Seq(Tasks) /\ IsInjective(s) /\ Chained(next, prev, s, NULL)
      /\ blocked_list[l] = Behind(s, 1, NULL)
  BY ChainEnds
<1>2. TasksLinked(next, prev, ready_list, blocked_list, rs, bs)
  BY DEF TaskListsLinked
<1>3. DOMAIN next = Tasks /\ DOMAIN prev = Tasks
  BY <1>2 DEF TasksLinked
<1>4. t \in Range(s)
  BY DEF remove_from_blocked_list, BlockedSequences
<1> HIDE DEF rs, bs, s
<1>5. /\ n \in Nat
      /\ \A i \in 1..n : s[i] \in Tasks /\ s[i] \in Range(s) /\ s[i] # NULL
      /\ \A i, j \in 1..n : s[i] = s[j] => i = j
  BY <1>1, InjectiveElements, NodesAssumption
<1>6. PICK k \in 1..n : s[k] = t
  BY <1>1, <1>4, LenProperties DEF Range
<1>7. next[t] = Behind(s, k + 1, NULL) /\ prev[t] = Before(s, k, NULL)
  BY <1>1, <1>6 DEF Chained, Linked
<1>8. /\ Before(s, k, NULL) # NULL => Before(s, k, NULL) \in Range(s) /\ Before(s, k, NULL) # t
      /\ Behind(s, k + 1, NULL) # NULL => Behind(s, k + 1, NULL) \in Range(s)
      /\ Behind(s, k + 1, NULL) # t
      /\ Before(s, k, NULL) = NULL <=> k = 1
  BY <1>5, <1>6 DEF Before, Behind
<1>9. ready_list' = ready_list
  BY DEF remove_from_blocked_list
<1> DEFINE r == RemoveAt(s, k)
<1>10. \A u \in Tasks : next'[u] = IF u = s[k] THEN NULL
                                   ELSE IF u = Before(s, k, NULL) THEN Behind(s, k + 1, NULL)
                                   ELSE next[u]
  BY <1>3, <1>6, <1>7, <1>8 DEF remove_from_blocked_list
<1>11. \A u \in Tasks : prev'[u] = IF u = s[k] THEN NULL
                                   ELSE IF u = Behind(s, k + 1, NULL) THEN Before(s, k, NULL)
                                   ELSE prev[u]
  BY <1>3, <1>6, <1>7, <1>8 DEF remove_from_blocked_list
<1>12. Chained(next', prev', r, NULL)
  BY <1>1, <1>10, <1>11, ChainRemove, NodesAssumption
<1>13. Range(r) = Range(s) \ {t} /\ IsInjective(r) /\ r \in Seq(Tasks)
  BY <1>1, <1>6, RemoveAtRange, RemoveAtType
<1>14. Behind(r, 1, NULL) = IF k = 1 THEN Behind(s, 2, NULL) ELSE s[1]
  <2>1. Len(r) = n - 1 /\ \A i \in 1..(n - 1) : r[i] = IF i < k THEN s[i] ELSE s[i + 1]
    BY <1>1, RemoveAtElements
  <2> HIDE DEF r
  <2>2. CASE n = 1
    BY <1>6, <2>1, <2>2 DEF Behind
  <2>3. CASE n > 1
    <3>1. r[1] = IF k = 1 THEN s[2] ELSE s[1]
      BY <1>5, <2>1, <2>3
    <3> QED
      BY <1>5, <2>1, <2>3, <3>1 DEF Behind
  <2>4. n = 1 \/ n > 1
    <3>1. n \in Nat /\ n >= 1
      BY <1>5, <1>6
    <3> HIDE DEF n
    <3> QED
      BY <3>1
  <2> QED
    BY <2>2, <2>3, <2>4
<1> HIDE DEF r
<1>15. blocked_list' = [blocked_list EXCEPT ![l] = Behind(r, 1, NULL)]
  <2>1. CASE k = 1
    <3>1. blocked_list' = [blocked_list EXCEPT ![l] = next[t]]
      BY <1>7, <1>8, <2>1 DEF remove_from_blocked_list
    <3>2. next[t] = Behind(s, 2, NULL)
      BY <1>7, <2>1
    <3> QED
      BY <1>14, <2>1, <3>1, <3>2
  <2>2. CASE k # 1
    <3>1. blocked_list' = blocked_list
      BY <1>7, <1>8, <2>2 DEF remove_from_blocked_list
    <3>2. blocked_list = [x \in BlockedLists |-> blocked_list[x]]
      BY <1>2 DEF TasksLinked
    <3>3. blocked_list[l] = s[1]
      BY <1>1, <1>5, <1>6 DEF Behind
    <3> QED
      BY <1>14, <2>2, <3>1, <3>2, <3>3
  <2> QED
    BY <2>1, <2>2
<1>16. Relinks(next, prev, next', prev', s, r)
  <2>1. DOMAIN next' = Tasks /\ DOMAIN prev' = Tasks
    BY <1>3 DEF remove_from_blocked_list
  <2>2. \A u \in Tasks \ (Range(s) \cup Range(r)) : next'[u] = next[u] /\ prev'[u] = prev[u]
    BY <1>4, <1>6, <1>8, <1>10, <1>11, NodesAssumption
  <2>3. t \in Tasks /\ next'[t] = NULL /\ prev'[t] = NULL
    BY <1>6, <1>10, <1>11
  <2> QED
    BY <1>13, <2>1, <2>2, <2>3 DEF Relinks
<1>17. ASSUME NEW u \in Range(r)
       PROVE  /\ \A p \in Priorities : u \notin Range(rs[p])
              /\ \A m \in BlockedLists : m # l => u \notin Range(bs[m])
  <2>1. u \in Range(s)
    BY <1>13, <1>17
  <2> QED
    BY <1>2, <2>1 DEF TasksLinked, s
<1>18. TasksLinked(next', prev', ready_list', blocked_list', rs, [bs EXCEPT ![l] = r])
  BY <1>2, <1>9, <1>12, <1>15, <1>16, <1>17, BlockedListChanges DEF s
<1> QED
  BY <1>6, <1>18 DEF rs, bs, s, r

-----------------------------------------------------------------------------
(* The delays.                                                             *)

Ticks == 0..(UINT32_MODULUS - 1)

\* What the loop of set_timer has left of ms behind each of the timers s.
TicksLeft(ms, s) ==
  LET left[k \in 0..Len(s)] == IF k = 0 THEN ms ELSE left[k - 1] - timer[s[k]].delay
  IN  left

\* The ticks left are what the delays passed so far leave of ms.
LEMMA TicksLeftFound ==
  ASSUME NEW ms \in Int, NEW s, Len(s) \in Nat, NEW list, Len(list) = Len(s),
         \A i \in 1..Len(s) : timer[s[i]].delay \in Nat /\ list[i].delay = timer[s[i]].delay
  PROVE  \A i \in 0..Len(s) :
           /\ TicksLeft(ms, s)[i] \in Int /\ TicksLeft(ms, s)[i] <= ms
           /\ TicksLeft(ms, s)[i] = ms - Sequences!TotalDelay(list, i)
<1> DEFINE n == Len(s)
           d == [i \in 1..n |-> timer[s[i]].delay]
           m == [i \in 1..n |-> 0 - timer[s[i]].delay]
           IsLeft(f) == f = [k \in 0..n |-> IF k = 0 THEN ms ELSE f[k - 1] - timer[s[k]].delay]
           IsTotal(f) == f = [i \in 0..n |-> IF i = 0 THEN 0 ELSE f[i - 1] + list[i].delay]
           left == CHOOSE f : IsLeft(f)
           total == CHOOSE f : IsTotal(f)
<1>1. /\ n \in Nat
      /\ \A i \in 1..n : d[i] \in Nat /\ d[i] = list[i].delay /\ d[i] = timer[s[i]].delay
      /\ \A i \in 1..n : m[i] \in Int /\ m[i] = 0 - timer[s[i]].delay
  OBVIOUS
<1> HIDE DEF n, d, m
<1>2. IsLeft(left)
  <2>1. PICK f : IsSum(f, n, ms, m)
    BY <1>1, SumExists
  <2>2. \A i \in 0..n : f[i] \in Int
    BY <1>1, <2>1, SumIsInt
  <2>3. IsLeft(f)
    <3>1. ASSUME NEW i \in 0..n, i # 0
          PROVE  f[i - 1] + m[i] = f[i - 1] - timer[s[i]].delay
      <4>1. i \in 1..n /\ i - 1 \in 0..n
        BY <1>1, <3>1
      <4>2. f[i - 1] \in Int /\ timer[s[i]].delay \in Int /\ m[i] = 0 - timer[s[i]].delay
        BY <1>1, <2>2, <4>1
      <4> QED
        BY <4>2
    <3> QED
      BY <2>1, <3>1 DEF IsSum
  <2> QED
    BY <2>3
<1>3. IsTotal(total)
  <2>1. PICK f : IsSum(f, n, 0, d)
    BY <1>1, SumExists
  <2>2. \A i \in 0..n : i # 0 => d[i] = list[i].delay
    BY <1>1
  <2>3. IsTotal(f)
    BY <2>1, <2>2 DEF IsSum
  <2> QED
    BY <2>3
<1>4. TicksLeft(ms, s) = left
  BY DEF TicksLeft, n
<1>5. \A i : Sequences!TotalDelay(list, i) = total[i]
  BY DEF Sequences!TotalDelay, n
<1> HIDE DEF left, total
<1>6. left[0] = ms /\ \A i \in 1..n : left[i] = left[i - 1] - d[i]
  BY <1>1, <1>2
<1>7. total[0] = 0 /\ \A i \in 1..n : total[i] = total[i - 1] + d[i]
  BY <1>1, <1>3
<1> DEFINE Good == {i \in 0..n : /\ left[i] \in Int /\ left[i] <= ms
                                 /\ total[i] \in Int /\ left[i] = ms - total[i]}
<1>8. 0 \in Good
  BY <1>1, <1>6, <1>7
<1>9. ASSUME NEW i \in (0 + 1)..n, i - 1 \in Good PROVE i \in Good
  <2>0. i \in 1..n
    BY <1>1
  <2>1. i \in 1..n /\ left[i] = left[i - 1] - d[i] /\ total[i] = total[i - 1] + d[i]
    BY <1>6, <1>7, <2>0
  <2>2. /\ left[i - 1] \in Int /\ left[i - 1] <= ms
        /\ total[i - 1] \in Int /\ left[i - 1] = ms - total[i - 1]
    BY <1>9
  <2>3. ms \in Int /\ d[i] \in Int /\ d[i] >= 0
    BY <1>1, <2>0
  <2>4. left[i] \in Int /\ left[i] <= ms /\ total[i] \in Int /\ left[i] = ms - total[i]
    BY ONLY <2>1, <2>2, <2>3
  <2> QED
    BY <1>1, <2>1, <2>4
<1>10. 0..n \subseteq Good
  <2>1. Good \in SUBSET (0..n)
    OBVIOUS
  <2> HIDE DEF Good
  <2> QED
    BY <1>1, <1>8, <1>9, <2>1, UpTo
<1> QED
  BY <1>4, <1>5, <1>10 DEF n

-----------------------------------------------------------------------------
(* The delay list.                                                         *)

NextOf(tm) == [id \in TimerIds |-> tm[id].next]
PrevOf(tm) == [id \in TimerIds |-> tm[id].prev]

TimerFields == [delay : Ticks, task : Tasks \cup {NULL},
                next : TimerIds \cup {NO_TIMER}, prev : TimerIds \cup {NO_TIMER}]

\* The sequence that the timers ds stand for.
DelaysOf(tm, ds) ==
  [i \in 1..Len(ds) |-> [id |-> ds[i], task |-> tm[ds[i]].task, delay |-> tm[ds[i]].delay]]

\* The timers tm and the head dl make the delay list ds, none of its timers is
\* free, and no task has two of them.
TimersLinked(tm, dl, bm, ds) ==
  /\ tm \in [TimerIds -> TimerFields]
  /\ bm \subseteq TimerIds
  /\ ds \in Seq(TimerIds) /\ IsInjective(ds) /\ Range(ds) \cap bm = {}
  /\ dl = Behind(ds, 1, NO_TIMER)
  /\ Chained(NextOf(tm), PrevOf(tm), ds, NO_TIMER)
  /\ \A i \in 1..Len(ds) : tm[ds[i]].task \in Tasks
  /\ \A i, j \in 1..Len(ds) : tm[ds[i]].task = tm[ds[j]].task => i = j

ChainFound(tm, dl) ==
  IF dl = NO_TIMER THEN <<>> ELSE Walk(NextOf(tm), dl, NO_TIMER, MAX_NUM_TIMERS)

LEMMA TicksAreNumbers ==
  /\ UINT32_MODULUS \in Nat /\ UINT32_MODULUS > 0
  /\ \A n : n \in Ticks <=> n \in Nat /\ n < UINT32_MODULUS
BY DelaysAssumption DEF Ticks

LEMMA NoTimerIsNoId == NO_TIMER \notin TimerIds /\ NO_TIMER \in Nat
BY DelaysAssumption DEF NO_TIMER, TimerIds

LEMMA TimersFound ==
  ASSUME NEW tm, NEW dl, NEW bm, NEW ds, TimersLinked(tm, dl, bm, ds)
  PROVE  ChainFound(tm, dl) = ds
<1>1. /\ ds \in Seq(TimerIds) /\ IsInjective(ds) /\ dl = Behind(ds, 1, NO_TIMER)
      /\ Chained(NextOf(tm), PrevOf(tm), ds, NO_TIMER)
  BY DEF TimersLinked
<1>2. CASE ds = <<>>
  BY <1>1, <1>2, EmptySeq DEF Behind, ChainFound
<1>3. CASE ds # <<>>
  <2>1. IsFiniteSet(TimerIds) /\ Cardinality(TimerIds) = MAX_NUM_TIMERS
    <3>1. IsFiniteSet(0..(MAX_NUM_TIMERS - 1))
      BY DelaysAssumption, FS_Interval
    <3>2. Cardinality(0..(MAX_NUM_TIMERS - 1)) = MAX_NUM_TIMERS
      <4>1. MAX_NUM_TIMERS = 0 => Cardinality(0..(MAX_NUM_TIMERS - 1)) = 0
        BY DelaysAssumption, FS_Interval
      <4>2. MAX_NUM_TIMERS # 0 => Cardinality(0..(MAX_NUM_TIMERS - 1)) = MAX_NUM_TIMERS - 1 - 0 + 1
        BY DelaysAssumption, FS_Interval
      <4> QED
        BY <4>1, <4>2, DelaysAssumption
    <3> QED
      BY <3>1, <3>2 DEF TimerIds
  <2>2. Len(ds) \in Nat \ {0} /\ Len(ds) <= MAX_NUM_TIMERS /\ MAX_NUM_TIMERS \in Nat
    BY <1>1, <1>3, <2>1, EmptySeq, NoLongerThanNodes, DelaysAssumption
  <2>3. dl = ds[1] /\ ds[1] \in TimerIds /\ \A i \in 2..Len(ds) : ds[i] # NO_TIMER
    BY <1>1, <2>2, InjectiveElements, NoTimerIsNoId DEF Behind
  <2>4. \A i \in 1..Len(ds) : NextOf(tm)[ds[i]] = Behind(ds, i + 1, NO_TIMER)
    BY <1>1 DEF Chained, Linked
  <2>5. ds \in Seq(DOMAIN NextOf(tm))
    BY <1>1 DEF NextOf
  <2>6. Walk(NextOf(tm), ds[1], NO_TIMER, MAX_NUM_TIMERS) = ds
    BY <1>3, <2>2, <2>3, <2>4, <2>5, WalkFinds
  <2> QED
    BY <2>3, <2>6, NoTimerIsNoId DEF ChainFound
<1> QED
  BY <1>2, <1>3
-----------------------------------------------------------------------------
(* The operations on the delay list.                                       *)

TimerListLinked == TimersLinked(timer, delay_list, timer_bitmap, TimerChain)

\* What the delay list, linked as it should be, says of its timers.
LEMMA TimerEnds ==
  ASSUME TimerListLinked
  PROVE  LET s == TimerChain
         IN  /\ s \in Seq(TimerIds) /\ IsInjective(s) /\ delay_list = Behind(s, 1, NO_TIMER)
             /\ timer \in [TimerIds -> TimerFields] /\ DOMAIN timer = TimerIds
             /\ timer_bitmap \subseteq TimerIds /\ Range(s) \cap timer_bitmap = {}
             /\ Len(s) \in Nat
             /\ \A i \in 1..Len(s) : s[i] \in TimerIds /\ s[i] \in Range(s) /\ s[i] # NO_TIMER
             /\ \A i, j \in 1..Len(s) : s[i] = s[j] => i = j
             /\ Chained(NextOf(timer), PrevOf(timer), s, NO_TIMER)
             /\ \A i \in 1..Len(s) : /\ timer[s[i]].next = Behind(s, i + 1, NO_TIMER)
                                     /\ timer[s[i]].prev = Before(s, i, NO_TIMER)
             /\ DelaySequence = DelaysOf(timer, s)
             /\ DelaySequence \in Seq([id : TimerIds, task : Tasks, delay : Ticks])
             /\ Len(DelaySequence) = Len(s)
             /\ \A i \in 1..Len(s) :
                  /\ DelaySequence[i] = [id |-> s[i], task |-> timer[s[i]].task,
                                         delay |-> timer[s[i]].delay]
                  /\ DelaySequence[i].id = s[i]
                  /\ DelaySequence[i].task = timer[s[i]].task
                  /\ DelaySequence[i].delay = timer[s[i]].delay
<1> DEFINE s == TimerChain
           T == [id : TimerIds, task : Tasks, delay : Ticks]
<1>1. TimersLinked(timer, delay_list, timer_bitmap, s)
  BY DEF TimerListLinked
<1>2. DelaySequence = DelaysOf(timer, s)
  BY DEF DelaySequence, DelaysOf
<1> HIDE DEF s
<1>3. s \in Seq(TimerIds) /\ IsInjective(s) /\ timer \in [TimerIds -> TimerFields]
  BY <1>1 DEF TimersLinked
<1>4. /\ Len(s) \in Nat
      /\ \A i \in 1..Len(s) : s[i] \in TimerIds /\ s[i] \in Range(s) /\ s[i] # NO_TIMER
      /\ \A i, j \in 1..Len(s) : s[i] = s[j] => i = j
  BY <1>3, InjectiveElements, NoTimerIsNoId
<1>5. \A i \in 1..Len(s) : /\ timer[s[i]].next = Behind(s, i + 1, NO_TIMER)
                           /\ timer[s[i]].prev = Before(s, i, NO_TIMER)
  BY <1>1, <1>4 DEF TimersLinked, Chained, Linked, NextOf, PrevOf
<1>6. \A i \in 1..Len(s) : timer[s[i]].delay \in Ticks /\ timer[s[i]].task \in Tasks
  BY <1>1, <1>3, <1>4 DEF TimersLinked, TimerFields
<1>7. DelaySequence \in Seq(T) /\ Len(DelaySequence) = Len(s)
  <2>1. DelaySequence \in [1..Len(s) -> T]
    BY <1>2, <1>4, <1>6 DEF DelaysOf
  <2> HIDE DEF T
  <2>2. DelaySequence \in Seq(T)
    BY <1>4, <2>1, SeqDef
  <2>3. Len(DelaySequence) = Len(s)
    BY <1>4, <2>1
  <2> QED
    BY <2>2, <2>3
<1> QED
  BY <1>1, <1>2, <1>3, <1>4, <1>5, <1>7 DEF TimersLinked, DelaysOf, s
\* The delay list with the timer x at place k, the one behind it x.delay less.
Inserted(list, k, x) ==
  InsertAt(IF k <= Len(list) THEN [list EXCEPT ![k].delay = @ - x.delay] ELSE list, k, x)

LEMMA SetTimerLinks ==
  ASSUME TimerListLinked, NEW t \in Tasks, NEW ms \in Delays, HasNoTimer(t), set_timer(t, ms)
  PROVE  \E id \in TimerIds, k \in 1..(Len(DelaySequence) + 1), left \in 0..ms :
           /\ Sequences!get_timer_instance(id)
           /\ Sequences!ScanStopsAt(ms, k, left)
           /\ TimersLinked(timer', delay_list', timer_bitmap', InsertAt(TimerChain, k, id))
           /\ DelaysOf(timer', InsertAt(TimerChain, k, id)) =
                Inserted(DelaySequence, k, [id |-> id, task |-> t, delay |-> left])
<1> DEFINE s == TimerChain
           n == Len(s)
           D == DelaySequence
           nt(k) == Behind(s, k, NO_TIMER)
           pt(k) == Before(s, k, NO_TIMER)
<1>1. /\ s \in Seq(TimerIds) /\ IsInjective(s) /\ delay_list = Behind(s, 1, NO_TIMER)
      /\ timer \in [TimerIds -> TimerFields] /\ DOMAIN timer = TimerIds
      /\ timer_bitmap \subseteq TimerIds /\ Range(s) \cap timer_bitmap = {}
      /\ Chained(NextOf(timer), PrevOf(timer), s, NO_TIMER)
  BY TimerEnds
<1>2. /\ n \in Nat
      /\ \A i \in 1..n : s[i] \in TimerIds /\ s[i] \in Range(s) /\ s[i] # NO_TIMER
      /\ \A i, j \in 1..n : s[i] = s[j] => i = j
  BY TimerEnds
<1>3. /\ D \in Seq([id : TimerIds, task : Tasks, delay : Ticks]) /\ Len(D) = n
      /\ \A i \in 1..n : /\ D[i] = [id |-> s[i], task |-> timer[s[i]].task,
                                    delay |-> timer[s[i]].delay]
                         /\ D[i].delay = timer[s[i]].delay
  BY TimerEnds
<1>4. /\ \A i \in 1..n : timer[s[i]].task \in Tasks /\ timer[s[i]].task # t
      /\ \A i, j \in 1..n : timer[s[i]].task = timer[s[j]].task => i = j
  BY <1>2 DEF TimerListLinked, TimersLinked, HasNoTimer
<1>5. \A u \in TimerIds : timer[u].delay \in Ticks /\ timer[u] \in TimerFields
  BY <1>1 DEF TimerFields
<1>6. ms \in Nat /\ ms \in Ticks
  BY DelaysAssumption DEF Ticks
<1>7. /\ timer_bitmap \subseteq TimerIds
      /\ \E id \in timer_bitmap, k \in 1..(n + 1) :
           LET delay == TicksLeft(ms, s)[k - 1]
           IN  /\ \A other \in timer_bitmap : other <= id
               /\ \A i \in 0..(k - 1) : TicksLeft(ms, s)[i] >= 0
               /\ nt(k) # NO_TIMER => delay < timer[nt(k)].delay
               /\ timer' = [timer EXCEPT
                    ![id] = [delay |-> delay, task |-> t, next |-> nt(k), prev |-> pt(k)],
                    ![nt(k)].delay = @ - delay, ![nt(k)].prev = id,
                    ![pt(k)].next = id]
               /\ delay_list' = IF pt(k) = NO_TIMER THEN id ELSE delay_list
               /\ timer_bitmap' = timer_bitmap \ {id}
  BY <1>1 DEF set_timer, TicksLeft
<1> HIDE DEF s, D
<1>8. PICK id \in timer_bitmap, k \in 1..(n + 1) :
        LET delay == TicksLeft(ms, s)[k - 1]
        IN  /\ \A other \in timer_bitmap : other <= id
            /\ \A i \in 0..(k - 1) : TicksLeft(ms, s)[i] >= 0
            /\ nt(k) # NO_TIMER => delay < timer[nt(k)].delay
            /\ timer' = [timer EXCEPT
                 ![id] = [delay |-> delay, task |-> t, next |-> nt(k), prev |-> pt(k)],
                 ![nt(k)].delay = @ - delay, ![nt(k)].prev = id,
                 ![pt(k)].next = id]
            /\ delay_list' = IF pt(k) = NO_TIMER THEN id ELSE delay_list
            /\ timer_bitmap' = timer_bitmap \ {id}
  BY <1>7
<1> DEFINE left == TicksLeft(ms, s)[k - 1]
           r == InsertAt(s, k, id)
           x == [id |-> id, task |-> t, delay |-> left]
<1>9. left \in Int /\ left <= ms /\ left = ms - Sequences!TotalDelay(D, k - 1) /\ left >= 0
  <2>1. ASSUME NEW i \in 1..n PROVE timer[s[i]].delay \in Nat /\ D[i].delay = timer[s[i]].delay
    <3>1. timer[s[i]].delay \in Ticks
      BY <1>2, <1>5
    <3>2. D[i].delay = timer[s[i]].delay
      BY <1>3
    <3> QED
      BY <3>1, <3>2, TicksAreNumbers
  <2>2. k - 1 \in 0..n
    BY <1>2
  <2>3. left >= 0
    BY <1>2, <1>8
  <2> QED
    BY <1>2, <1>3, <1>6, <2>1, <2>2, <2>3, TicksLeftFound
<1> HIDE DEF left
<1>10. left \in 0..ms /\ left \in Ticks
  <2>1. \A a \in Int : a >= 0 /\ a <= ms => a \in 0..ms /\ a \in Ticks
    BY <1>6, TicksAreNumbers
  <2> QED
    BY <1>9, <2>1
<1>11. id \in TimerIds /\ id \notin Range(s) /\ id # NO_TIMER
  BY <1>1, NoTimerIsNoId
<1>12. /\ k # 1 => pt(k) = s[k - 1] /\ k - 1 \in 1..n
       /\ k = 1 => pt(k) = NO_TIMER
       /\ k <= n => nt(k) = s[k] /\ k \in 1..n
       /\ k > n => nt(k) = NO_TIMER
  BY <1>2 DEF Before, Behind
<1>13. /\ nt(k) # id /\ pt(k) # id
       /\ nt(k) \in TimerIds => nt(k) # pt(k)
       /\ nt(k) \in TimerIds \cup {NO_TIMER} /\ pt(k) \in TimerIds \cup {NO_TIMER}
       /\ nt(k) # NO_TIMER => k <= n
  BY <1>2, <1>11, <1>12, NoTimerIsNoId
<1>14. timer' = [timer EXCEPT
                   ![id] = [delay |-> left, task |-> t, next |-> nt(k), prev |-> pt(k)],
                   ![nt(k)].delay = @ - left, ![nt(k)].prev = id,
                   ![pt(k)].next = id]
  BY <1>8 DEF left
<1> HIDE DEF nt, pt
<1>15. /\ DOMAIN timer' = TimerIds
       /\ \A u \in TimerIds :
            timer'[u] = IF u = id THEN [delay |-> left, task |-> t, next |-> nt(k), prev |-> pt(k)]
                        ELSE IF u = nt(k) THEN [timer[u] EXCEPT !.delay = @ - left, !.prev = id]
                        ELSE IF u = pt(k) THEN [timer[u] EXCEPT !.next = id]
                        ELSE timer[u]
  BY <1>1, <1>11, <1>13, <1>14
<1>16. nt(k) \in TimerIds => left < timer[nt(k)].delay
  BY <1>8, NoTimerIsNoId DEF left, nt
<1>17. ASSUME NEW u \in TimerIds
       PROVE  /\ timer'[u] \in TimerFields
              /\ timer'[u].next = IF u = id THEN nt(k) ELSE IF u = pt(k) THEN id ELSE timer[u].next
              /\ timer'[u].prev = IF u = id THEN pt(k) ELSE IF u = nt(k) THEN id ELSE timer[u].prev
              /\ timer'[u].task = IF u = id THEN t ELSE timer[u].task
              /\ timer'[u].delay = IF u = id THEN left
                                   ELSE IF u = nt(k) THEN timer[u].delay - left
                                   ELSE timer[u].delay
  <2>1. CASE u = id
    <3>1. timer'[u] = [delay |-> left, task |-> t, next |-> nt(k), prev |-> pt(k)]
      BY <1>15, <2>1
    <3>2. timer'[u] \in TimerFields
      BY <1>10, <1>13, <3>1 DEF TimerFields
    <3> QED
      BY <2>1, <3>1, <3>2
  <2>2. CASE u # id /\ u = nt(k)
    <3>1. timer'[u] = [timer[u] EXCEPT !.delay = @ - left, !.prev = id]
      BY <1>15, <2>2
    <3>2. timer[u].delay - left \in Ticks
      BY <1>5, <1>9, <1>16, <2>2, DelaysAssumption DEF Ticks
    <3> QED
      BY <1>5, <1>11, <1>13, <2>2, <3>1, <3>2 DEF TimerFields
  <2>3. CASE u # id /\ u # nt(k) /\ u = pt(k)
    <3>1. timer'[u] = [timer[u] EXCEPT !.next = id]
      BY <1>15, <2>3
    <3> QED
      BY <1>5, <1>11, <2>3, <3>1 DEF TimerFields
  <2>4. CASE u # id /\ u # nt(k) /\ u # pt(k)
    BY <1>5, <1>15, <2>4
  <2> QED
    BY <2>1, <2>2, <2>3, <2>4
<1>18. Chained(NextOf(timer'), PrevOf(timer'), r, NO_TIMER)
  <2>1. \A u \in TimerIds : NextOf(timer')[u] = IF u = id THEN nt(k)
                                                ELSE IF u = pt(k) THEN id ELSE NextOf(timer)[u]
    BY <1>17 DEF NextOf
  <2>2. \A u \in TimerIds : PrevOf(timer')[u] = IF u = id THEN pt(k)
                                                ELSE IF u = nt(k) THEN id ELSE PrevOf(timer)[u]
    BY <1>17 DEF PrevOf
  <2> QED
    BY <1>1, <1>11, <2>1, <2>2, NoTimerIsNoId, ChainInsert DEF nt, pt
<1>19. /\ r \in Seq(TimerIds) /\ IsInjective(r) /\ Range(r) = Range(s) \cup {id}
       /\ Len(r) = n + 1
       /\ \A i \in 1..(n + 1) : r[i] = IF i < k THEN s[i] ELSE IF i = k THEN id ELSE s[i - 1]
  <2>1. r \in Seq(TimerIds)
    BY <1>1, <1>11, InsertAtType
  <2>2. Range(r) = Range(s) \cup {id} /\ IsInjective(r)
    BY <1>1, <1>11, InsertAtRange
  <2>3. /\ Len(r) = n + 1
        /\ \A i \in 1..(n + 1) : r[i] = IF i < k THEN s[i] ELSE IF i = k THEN id ELSE s[i - 1]
    <3>1. s \in Seq(TimerIds) /\ id \in TimerIds
      BY <1>1, <1>11
    <3> QED
      BY <3>1, InsertAtElements
  <2> QED
    BY <2>1, <2>2, <2>3
<1> HIDE DEF r
<1>20. delay_list' = Behind(r, 1, NO_TIMER)
  <2>1. Behind(r, 1, NO_TIMER) = IF k = 1 THEN id ELSE s[1]
    BY <1>2, <1>19 DEF Behind
  <2>2. delay_list' = IF k = 1 THEN id ELSE delay_list
    BY <1>2, <1>8, <1>12 DEF nt, pt
  <2>3. k # 1 => delay_list = s[1]
    BY <1>1, <1>2 DEF Behind
  <2> QED
    BY <2>1, <2>2, <2>3
<1>21. \A i \in 1..(n + 1) :
         timer'[r[i]].task = IF i < k THEN timer[s[i]].task
                             ELSE IF i = k THEN t ELSE timer[s[i - 1]].task
  <2> SUFFICES ASSUME NEW i \in 1..(n + 1)
               PROVE  timer'[r[i]].task = IF i < k THEN timer[s[i]].task
                                          ELSE IF i = k THEN t ELSE timer[s[i - 1]].task
    OBVIOUS
  <2>1. CASE i < k
    BY <1>2, <1>11, <1>17, <1>19, <2>1
  <2>2. CASE i = k
    BY <1>11, <1>17, <1>19, <2>2
  <2>3. CASE i > k
    <3>1. i - 1 \in 1..n /\ r[i] = s[i - 1]
      BY <1>2, <1>19, <2>3
    <3> QED
      BY <1>2, <1>11, <1>17, <2>3, <3>1
  <2> QED
    BY <1>2, <2>1, <2>2, <2>3
<1>22. TimersLinked(timer', delay_list', timer_bitmap', r)
  <2>1. timer' \in [TimerIds -> TimerFields]
    BY <1>8, <1>15, <1>17
  <2>2. timer_bitmap' \subseteq TimerIds /\ Range(r) \cap timer_bitmap' = {}
    BY <1>1, <1>8, <1>19
  <2> DEFINE old(a) == IF a < k THEN a ELSE a - 1
  <2>3. ASSUME NEW a \in 1..Len(r)
        PROVE  IF a = k THEN timer'[r[a]].task = t
               ELSE old(a) \in 1..n /\ timer'[r[a]].task = timer[s[old(a)]].task
    BY <1>2, <1>19, <1>21
  <2>4. ASSUME NEW i \in 1..Len(r) PROVE timer'[r[i]].task \in Tasks
    BY <1>4, <2>3
  <2>5. ASSUME NEW i \in 1..Len(r), NEW j \in 1..Len(r), timer'[r[i]].task = timer'[r[j]].task
        PROVE  i = j
    <3> HIDE DEF old
    <3>1. CASE i = k /\ j # k
      BY <1>4, <2>3, <2>5, <3>1
    <3>2. CASE i # k /\ j = k
      BY <1>4, <2>3, <2>5, <3>2
    <3>3. CASE i # k /\ j # k
      <4>1. old(i) = old(j)
        BY <1>4, <2>3, <2>5, <3>3
      <4> QED
        BY <1>2, <1>19, <3>3, <4>1 DEF old
    <3> QED
      BY <3>1, <3>2, <3>3
  <2> QED
    BY <1>18, <1>19, <1>20, <2>1, <2>2, <2>4, <2>5 DEF TimersLinked
<1> DEFINE E == [id : TimerIds, task : Tasks, delay : Int]
           lowered == IF k <= Len(D) THEN [D EXCEPT ![k].delay = @ - left] ELSE D
<1>23. /\ lowered \in Seq(E) /\ Len(lowered) = n
       /\ \A i \in 1..n : lowered[i] = [id |-> s[i], task |-> timer[s[i]].task,
                                        delay |-> IF i = k THEN timer[s[i]].delay - left
                                                  ELSE timer[s[i]].delay]
  <2>1. /\ DOMAIN lowered = 1..n
        /\ \A i \in 1..n : lowered[i] = [id |-> s[i], task |-> timer[s[i]].task,
                                         delay |-> IF i = k THEN timer[s[i]].delay - left
                                                   ELSE timer[s[i]].delay]
    <3>1. DOMAIN D = 1..n
      BY <1>3, LenProperties
    <3>2. CASE k <= n
      BY <1>3, <3>1, <3>2
    <3>3. CASE ~(k <= n)
      BY <1>2, <1>3, <3>1, <3>3
    <3> QED
      BY <3>2, <3>3
  <2>2. lowered = [i \in 1..n |-> lowered[i]]
    <3>1. D = [i \in 1..n |-> D[i]]
      BY <1>3, LenProperties
    <3>2. CASE k <= n
      BY <1>3, <3>1, <3>2
    <3>3. CASE ~(k <= n)
      BY <1>3, <3>1, <3>3
    <3> QED
      BY <3>2, <3>3
  <2> HIDE DEF lowered
  <2>3. \A i \in 1..n : lowered[i] \in E
    BY <1>2, <1>4, <1>5, <1>9, <2>1 DEF Ticks
  <2>4. lowered \in [1..n -> E]
    BY <2>2, <2>3
  <2> HIDE DEF E
  <2>5. lowered \in Seq(E)
    BY <1>2, <2>4, SeqDef
  <2>6. Len(lowered) = n
    BY <1>2, <2>4
  <2> QED
    BY <2>1, <2>5, <2>6
<1>24. DelaysOf(timer', r) = InsertAt(lowered, k, x)
  <2> DEFINE new == InsertAt(lowered, k, x)
             old == DelaysOf(timer', r)
  <2>1. x \in E /\ k \in 1..(Len(lowered) + 1)
    BY <1>9, <1>11, <1>23
  <2> HIDE DEF lowered, E, x
  <2>2. /\ new \in Seq(E) /\ Len(new) = n + 1
        /\ \A i \in 1..(n + 1) : new[i] = IF i < k THEN lowered[i]
                                          ELSE IF i = k THEN x ELSE lowered[i - 1]
    <3>1. new \in Seq(E)
      BY <1>23, <2>1, InsertAtType
    <3>2. Len(new) = n + 1
      BY <1>23, <2>1, InsertAtElements
    <3>3. \A i \in 1..(n + 1) : new[i] = IF i < k THEN lowered[i]
                                         ELSE IF i = k THEN x ELSE lowered[i - 1]
      BY <1>23, <2>1, InsertAtElements
    <3> QED
      BY <3>1, <3>2, <3>3
  <2>3. /\ old = [i \in 1..(n + 1) |-> old[i]]
        /\ \A i \in 1..(n + 1) : old[i] = [id |-> r[i], task |-> timer'[r[i]].task,
                                           delay |-> timer'[r[i]].delay]
    BY <1>19 DEF DelaysOf
  <2>4. new = [i \in 1..(n + 1) |-> new[i]]
    BY <2>2, LenProperties
  <2> HIDE DEF new, old
  <2>5. ASSUME NEW i \in 1..(n + 1) PROVE old[i] = new[i]
    <3>1. CASE i < k
      <4>1. i \in 1..n /\ r[i] = s[i] /\ new[i] = lowered[i] /\ i # k
        BY <1>2, <1>19, <2>2, <3>1
      <4>2. s[i] # id /\ s[i] # nt(k) /\ s[i] \in TimerIds
        BY <1>2, <1>11, <1>12, <1>13, <3>1, <4>1 DEF nt
      <4>3. timer'[s[i]].task = timer[s[i]].task /\ timer'[s[i]].delay = timer[s[i]].delay
        BY <1>17, <4>2
      <4> QED
        BY <1>23, <2>3, <4>1, <4>3
    <3>2. CASE i = k
      BY <1>11, <1>17, <1>19, <2>2, <2>3, <3>2 DEF x
    <3>3. CASE i > k
      <4> DEFINE j == i - 1
      <4>1. j \in 1..n /\ j >= k /\ r[i] = s[j] /\ new[i] = lowered[j]
        BY <1>2, <1>19, <2>2, <3>3
      <4> HIDE DEF j
      <4>2. s[j] # id /\ s[j] \in TimerIds /\ (s[j] = nt(k) <=> j = k)
        BY <1>2, <1>11, <4>1 DEF nt, Behind
      <4>3. /\ timer'[s[j]].task = timer[s[j]].task
            /\ timer'[s[j]].delay = IF j = k THEN timer[s[j]].delay - left ELSE timer[s[j]].delay
        BY <1>17, <4>2
      <4> QED
        BY <1>23, <2>3, <4>1, <4>3
    <3> QED
      BY <1>2, <3>1, <3>2, <3>3
  <2>6. old = new
    BY <2>3, <2>4, <2>5
  <2> QED
    BY <2>6 DEF old, new
<1>25. DelaysOf(timer', r) = Inserted(D, k, x)
  BY <1>24 DEF Inserted
<1>26. Sequences!get_timer_instance(id)
  BY <1>8 DEF Sequences!get_timer_instance, Sequences!get_highest_bitmap_idx
<1>27. Sequences!ScanStopsAt(ms, k, left)
  <2>1. ASSUME k <= n PROVE left < D[k].delay
    <3>1. k \in 1..n /\ nt(k) = s[k] /\ nt(k) \in TimerIds
      BY <1>2, <1>12, <2>1 DEF nt
    <3> QED
      BY <1>3, <1>16, <3>1
  <2> QED
    BY <1>3, <1>9, <2>1 DEF Sequences!ScanStopsAt, D
<1>28. k \in 1..(Len(D) + 1)
  BY <1>3
<1> QED
  BY <1>10, <1>11, <1>22, <1>25, <1>26, <1>27, <1>28 DEF r, s, D, x

\* The delay list without the timer at place k, the one behind it ticks more.
Removed(list, k, ticks) ==
  RemoveAt(IF k < Len(list)
             THEN [list EXCEPT ![k + 1].delay = (@ + ticks) % UINT32_MODULUS] ELSE list,
           k)

LEMMA UnlinkedLinks ==
  ASSUME TimerListLinked, NEW k \in 1..Len(TimerChain), NEW ticks \in Ticks,
         Unlinked(TimerChain[k], ticks)
  PROVE  /\ TimersLinked(timer', delay_list', timer_bitmap', RemoveAt(TimerChain, k))
         /\ DelaysOf(timer', RemoveAt(TimerChain, k)) = Removed(DelaySequence, k, ticks)
<1> DEFINE s == TimerChain
           n == Len(s)
           D == DelaySequence
           id == s[k]
           nt == Behind(s, k + 1, NO_TIMER)
           pt == Before(s, k, NO_TIMER)
           r == RemoveAt(s, k)
<1>1. /\ s \in Seq(TimerIds) /\ IsInjective(s) /\ delay_list = Behind(s, 1, NO_TIMER)
      /\ timer \in [TimerIds -> TimerFields] /\ DOMAIN timer = TimerIds
      /\ timer_bitmap \subseteq TimerIds /\ Range(s) \cap timer_bitmap = {}
      /\ Chained(NextOf(timer), PrevOf(timer), s, NO_TIMER)
  BY TimerEnds
<1>2. /\ n \in Nat
      /\ \A i \in 1..n : s[i] \in TimerIds /\ s[i] \in Range(s) /\ s[i] # NO_TIMER
      /\ \A i, j \in 1..n : s[i] = s[j] => i = j
  BY TimerEnds
<1>3. /\ D \in Seq([id : TimerIds, task : Tasks, delay : Ticks]) /\ Len(D) = n
      /\ \A i \in 1..n : /\ D[i] = [id |-> s[i], task |-> timer[s[i]].task,
                                    delay |-> timer[s[i]].delay]
                         /\ D[i].delay = timer[s[i]].delay
  BY TimerEnds
<1>4. /\ \A i \in 1..n : timer[s[i]].task \in Tasks
      /\ \A i, j \in 1..n : timer[s[i]].task = timer[s[j]].task => i = j
  BY DEF TimerListLinked, TimersLinked
<1>5. \A u \in TimerIds : timer[u].delay \in Ticks /\ timer[u] \in TimerFields
  BY <1>1 DEF TimerFields
<1>6. timer[id].next = nt /\ timer[id].prev = pt
  BY TimerEnds
<1>7. /\ timer' = [timer EXCEPT
                     ![nt].delay = (@ + ticks) % UINT32_MODULUS, ![nt].prev = pt,
                     ![pt].next = nt,
                     ![id] = FreeTimer]
      /\ delay_list' = IF pt = NO_TIMER THEN nt ELSE delay_list
      /\ timer_bitmap' = timer_bitmap \cup {id}
  BY <1>6 DEF Unlinked
<1> HIDE DEF s, D
<1>8. k \in 1..n /\ id \in TimerIds /\ id \in Range(s) /\ id # NO_TIMER
  BY <1>2 DEF s
<1>9. /\ k # 1 => pt = s[k - 1] /\ k - 1 \in 1..n
      /\ k = 1 => pt = NO_TIMER
      /\ k < n => nt = s[k + 1] /\ k + 1 \in 1..n
      /\ k >= n => nt = NO_TIMER
  BY <1>2, <1>8 DEF Before, Behind
<1>10. /\ nt # id /\ pt # id
       /\ nt \in TimerIds => nt # pt
       /\ nt \in TimerIds \cup {NO_TIMER} /\ pt \in TimerIds \cup {NO_TIMER}
       /\ nt # NO_TIMER => k < n
  BY <1>2, <1>8, <1>9, NoTimerIsNoId
<1>11. \A a \in Ticks : (a + ticks) % UINT32_MODULUS \in Ticks
  BY TicksAreNumbers
<1> HIDE DEF nt, pt
<1>12. /\ DOMAIN timer' = TimerIds
       /\ \A u \in TimerIds :
            timer'[u] = IF u = id THEN FreeTimer
                        ELSE IF u = nt
                          THEN [timer[u] EXCEPT !.delay = (@ + ticks) % UINT32_MODULUS,
                                                !.prev = pt]
                        ELSE IF u = pt THEN [timer[u] EXCEPT !.next = nt]
                        ELSE timer[u]
  BY <1>1, <1>7, <1>8, <1>10
<1>13. ASSUME NEW u \in TimerIds
       PROVE  /\ timer'[u] \in TimerFields
              /\ timer'[u].next = IF u = id THEN NO_TIMER
                                  ELSE IF u = pt THEN nt ELSE timer[u].next
              /\ timer'[u].prev = IF u = id THEN NO_TIMER
                                  ELSE IF u = nt THEN pt ELSE timer[u].prev
              /\ u # id => /\ timer'[u].task = timer[u].task
                           /\ timer'[u].delay =
                                IF u = nt THEN (timer[u].delay + ticks) % UINT32_MODULUS
                                ELSE timer[u].delay
  <2>1. CASE u = id
    <3>1. timer'[u] = FreeTimer
      BY <1>12, <2>1
    <3>2. FreeTimer \in TimerFields
      BY TicksAreNumbers DEF FreeTimer, TimerFields
    <3> QED
      BY <2>1, <3>1, <3>2 DEF FreeTimer
  <2>2. CASE u # id /\ u = nt
    <3>1. timer'[u] = [timer[u] EXCEPT !.delay = (@ + ticks) % UINT32_MODULUS, !.prev = pt]
      BY <1>12, <2>2
    <3>2. (timer[u].delay + ticks) % UINT32_MODULUS \in Ticks
      BY <1>5, <1>11
    <3> QED
      BY <1>5, <1>10, <2>2, <3>1, <3>2 DEF TimerFields
  <2>3. CASE u # id /\ u # nt /\ u = pt
    <3>1. timer'[u] = [timer[u] EXCEPT !.next = nt]
      BY <1>12, <2>3
    <3> QED
      BY <1>5, <1>10, <2>3, <3>1 DEF TimerFields
  <2>4. CASE u # id /\ u # nt /\ u # pt
    BY <1>5, <1>12, <2>4
  <2> QED
    BY <2>1, <2>2, <2>3, <2>4
<1>14. Chained(NextOf(timer'), PrevOf(timer'), r, NO_TIMER)
  <2>1. \A u \in TimerIds : NextOf(timer')[u] = IF u = s[k] THEN NO_TIMER
                                                ELSE IF u = pt THEN nt ELSE NextOf(timer)[u]
    BY <1>13 DEF NextOf
  <2>2. \A u \in TimerIds : PrevOf(timer')[u] = IF u = s[k] THEN NO_TIMER
                                                ELSE IF u = nt THEN pt ELSE PrevOf(timer)[u]
    BY <1>13 DEF PrevOf
  <2> QED
    BY <1>1, <1>8, <2>1, <2>2, NoTimerIsNoId, ChainRemove DEF nt, pt
<1>15. /\ r \in Seq(TimerIds) /\ IsInjective(r) /\ Range(r) = Range(s) \ {id}
       /\ Len(r) = n - 1
       /\ \A i \in 1..(n - 1) : r[i] = IF i < k THEN s[i] ELSE s[i + 1]
  <2>1. r \in Seq(TimerIds) /\ Range(r) = Range(s) \ {id} /\ IsInjective(r)
    BY <1>1, <1>8, RemoveAtRange, RemoveAtType
  <2>2. /\ Len(r) = n - 1
        /\ \A i \in 1..(n - 1) : r[i] = IF i < k THEN s[i] ELSE s[i + 1]
    BY <1>1, <1>8, RemoveAtElements
  <2> QED
    BY <2>1, <2>2
<1> DEFINE old(a) == IF a < k THEN a ELSE a + 1
<1>16. \A a \in 1..(n - 1) : old(a) \in 1..n /\ old(a) # k /\ r[a] = s[old(a)] /\ s[old(a)] # id
  BY <1>2, <1>8, <1>15
<1>17. \A a, b \in 1..(n - 1) : old(a) = old(b) => a = b
  BY <1>2, <1>8
<1> HIDE DEF r, old
<1>18. delay_list' = Behind(r, 1, NO_TIMER)
  <2>1. CASE k = 1
    <3>1. nt = Behind(r, 1, NO_TIMER)
      BY <1>2, <1>9, <1>15, <2>1 DEF Behind
    <3> QED
      BY <1>7, <1>9, <2>1, <3>1
  <2>2. CASE k # 1
    <3>1. delay_list' = delay_list
      BY <1>2, <1>7, <1>9, <2>2
    <3>2. delay_list = s[1] /\ Behind(r, 1, NO_TIMER) = s[1]
      BY <1>1, <1>2, <1>8, <1>15, <2>2 DEF Behind
    <3> QED
      BY <3>1, <3>2
  <2> QED
    BY <2>1, <2>2
<1>19. TimersLinked(timer', delay_list', timer_bitmap', r)
  <2>1. timer' \in [TimerIds -> TimerFields]
    <3>1. timer' = [u \in TimerIds |-> timer'[u]]
      BY <1>1, <1>7
    <3> QED
      BY <1>13, <3>1
  <2>2. timer_bitmap' \subseteq TimerIds /\ Range(r) \cap timer_bitmap' = {}
    BY <1>1, <1>7, <1>8, <1>15
  <2>3. ASSUME NEW a \in 1..(n - 1)
        PROVE  old(a) \in 1..n /\ timer'[r[a]].task = timer[s[old(a)]].task
    BY <1>2, <1>13, <1>16
  <2>4. ASSUME NEW i \in 1..Len(r) PROVE timer'[r[i]].task \in Tasks
    BY <1>4, <1>15, <2>3
  <2>5. ASSUME NEW i \in 1..Len(r), NEW j \in 1..Len(r), timer'[r[i]].task = timer'[r[j]].task
        PROVE  i = j
    <3>1. old(i) = old(j)
      BY <1>4, <1>15, <2>3, <2>5
    <3> QED
      BY <1>15, <1>17, <3>1
  <2> QED
    BY <1>14, <1>15, <1>18, <2>1, <2>2, <2>4, <2>5 DEF TimersLinked
<1> DEFINE E == [id : TimerIds, task : Tasks, delay : Int]
           raised == IF k < Len(D) THEN [D EXCEPT ![k + 1].delay = (@ + ticks) % UINT32_MODULUS]
                     ELSE D
<1>20. /\ raised \in Seq(E) /\ Len(raised) = n
       /\ \A i \in 1..n : raised[i] = [id |-> s[i], task |-> timer[s[i]].task,
                                       delay |-> IF i = k + 1
                                                 THEN (timer[s[i]].delay + ticks) % UINT32_MODULUS
                                                 ELSE timer[s[i]].delay]
  <2>1. /\ DOMAIN raised = 1..n
        /\ \A i \in 1..n : raised[i] = [id |-> s[i], task |-> timer[s[i]].task,
                                        delay |-> IF i = k + 1
                                                  THEN (timer[s[i]].delay + ticks) % UINT32_MODULUS
                                                  ELSE timer[s[i]].delay]
    <3>1. DOMAIN D = 1..n
      BY <1>3, LenProperties
    <3>2. CASE k < n
      <4>1. k + 1 \in 1..n /\ raised = [D EXCEPT ![k + 1].delay = (@ + ticks) % UINT32_MODULUS]
        BY <1>3, <1>9, <3>2
      <4> HIDE DEF raised
      <4> DEFINE delay == (timer[s[k + 1]].delay + ticks) % UINT32_MODULUS
      <4>2. raised = [D EXCEPT ![k + 1].delay = delay]
        BY <1>3, <4>1
      <4> HIDE DEF delay
      <4>3. D[k + 1] = [id |-> s[k + 1], task |-> timer[s[k + 1]].task,
                        delay |-> timer[s[k + 1]].delay]
        BY <1>3, <4>1
      <4>4. raised[k + 1] = [id |-> s[k + 1], task |-> timer[s[k + 1]].task, delay |-> delay]
        BY <3>1, <4>1, <4>2, <4>3
      <4>5. DOMAIN raised = 1..n /\ \A i \in 1..n : i # k + 1 => raised[i] = D[i]
        BY <3>1, <4>2
      <4> QED
        BY <1>3, <4>4, <4>5 DEF delay
    <3>3. CASE ~(k < n)
      <4>1. raised = D /\ k + 1 \notin 1..n
        BY <1>2, <1>3, <1>8, <3>3
      <4> HIDE DEF raised
      <4> QED
        BY <1>3, <3>1, <4>1
    <3> QED
      BY <3>2, <3>3
  <2>2. raised = [i \in 1..n |-> raised[i]]
    <3>1. D = [i \in 1..n |-> D[i]]
      BY <1>3, LenProperties
    <3>2. CASE k < n
      BY <1>3, <3>1, <3>2
    <3>3. CASE ~(k < n)
      BY <1>3, <3>1, <3>3
    <3> QED
      BY <3>2, <3>3
  <2> HIDE DEF raised
  <2>3. ASSUME NEW i \in 1..n PROVE raised[i] \in E
    <3>1. timer[s[i]].delay \in Ticks /\ s[i] \in TimerIds /\ timer[s[i]].task \in Tasks
      BY <1>2, <1>4, <1>5
    <3>2. timer[s[i]].delay \in Int /\ (timer[s[i]].delay + ticks) % UINT32_MODULUS \in Int
      BY <1>11, <3>1, TicksAreNumbers
    <3> QED
      BY <2>1, <3>1, <3>2
  <2>4. raised \in [1..n -> E]
    BY <2>2, <2>3
  <2> HIDE DEF E
  <2>5. raised \in Seq(E)
    BY <1>2, <2>4, SeqDef
  <2>6. Len(raised) = n
    BY <1>2, <2>4
  <2> QED
    BY <2>1, <2>5, <2>6
<1>21. DelaysOf(timer', r) = RemoveAt(raised, k)
  <2> DEFINE new == RemoveAt(raised, k)
             delays == DelaysOf(timer', r)
  <2> HIDE DEF raised, E
  <2>1. /\ new \in Seq(E) /\ Len(new) = n - 1
        /\ \A i \in 1..(n - 1) : new[i] = IF i < k THEN raised[i] ELSE raised[i + 1]
    <3>1. raised \in Seq(E) /\ k \in 1..Len(raised)
      BY <1>8, <1>20
    <3>2. new \in Seq(E)
      BY <3>1, RemoveAtType
    <3>3. /\ Len(new) = Len(raised) - 1
          /\ \A i \in 1..(Len(raised) - 1) : new[i] = IF i < k THEN raised[i] ELSE raised[i + 1]
      BY <3>1, RemoveAtElements
    <3> QED
      BY <1>20, <3>2, <3>3
  <2>2. /\ delays = [i \in 1..(n - 1) |-> delays[i]]
        /\ \A i \in 1..(n - 1) : delays[i] = [id |-> r[i], task |-> timer'[r[i]].task,
                                              delay |-> timer'[r[i]].delay]
    BY <1>15 DEF DelaysOf
  <2>3. new = [i \in 1..(n - 1) |-> new[i]]
    BY <2>1, LenProperties
  <2> HIDE DEF new, delays
  <2>4. ASSUME NEW i \in 1..(n - 1) PROVE delays[i] = new[i]
    <3>1. old(i) \in 1..n /\ old(i) # k /\ r[i] = s[old(i)] /\ s[old(i)] # id
      BY <1>16
    <3>2. new[i] = raised[old(i)]
      BY <2>1 DEF old
    <3>3. s[old(i)] = nt <=> old(i) = k + 1
      BY <1>2, <1>9, <3>1
    <3>4. /\ timer'[s[old(i)]].task = timer[s[old(i)]].task
          /\ timer'[s[old(i)]].delay = IF old(i) = k + 1
                                       THEN (timer[s[old(i)]].delay + ticks) % UINT32_MODULUS
                                       ELSE timer[s[old(i)]].delay
      BY <1>2, <1>13, <3>1, <3>3
    <3> QED
      BY <1>20, <2>2, <3>1, <3>2, <3>4
  <2>5. delays = new
    BY <2>2, <2>3, <2>4
  <2> QED
    BY <2>5 DEF delays, new
<1> QED
  BY <1>19, <1>21 DEF Removed, r, s, D

LEMMA ClearTimerLinks ==
  ASSUME TimerListLinked, NEW t \in Tasks, clear_timer(t)
  PROVE  \E k \in 1..Len(DelaySequence) :
           /\ DelaySequence[k].task = t /\ \A i \in 1..(k - 1) : DelaySequence[i].task # t
           /\ timer_bitmap' = timer_bitmap \cup {DelaySequence[k].id}
           /\ TimersLinked(timer', delay_list', timer_bitmap', RemoveAt(TimerChain, k))
           /\ DelaysOf(timer', RemoveAt(TimerChain, k)) =
                Removed(DelaySequence, k, DelaySequence[k].delay)
<1> DEFINE s == TimerChain
           n == Len(s)
           D == DelaySequence
<1>1. s \in Seq(TimerIds) /\ timer \in [TimerIds -> TimerFields]
  BY TimerEnds
<1>2. n \in Nat /\ \A i \in 1..n : s[i] \in TimerIds
  BY TimerEnds
<1>3. /\ Len(D) = n
      /\ \A i \in 1..n : /\ D[i].id = s[i] /\ D[i].task = timer[s[i]].task
                         /\ D[i].delay = timer[s[i]].delay
  BY TimerEnds
<1>4. \A i, j \in 1..n : timer[s[i]].task = timer[s[j]].task => i = j
  BY DEF TimerListLinked, TimersLinked
<1>5. PICK id \in Range(s) : timer[id].task = t /\ Unlinked(id, timer[id].delay)
  BY DEF clear_timer, TicksToPassOn
<1>6. PICK k \in 1..n : s[k] = id
  BY <1>1, <1>5, LenProperties DEF Range
<1>7. D[k].task = t /\ D[k].id = s[k] /\ D[k].delay = timer[s[k]].delay
  BY <1>3, <1>5, <1>6
<1>8. \A i \in 1..(k - 1) : D[i].task # t
  <2> SUFFICES ASSUME NEW i \in 1..(k - 1) PROVE D[i].task # t
    OBVIOUS
  <2>1. i \in 1..n /\ i # k
    BY <1>2
  <2> QED
    BY <1>3, <1>4, <1>5, <1>6, <2>1
<1>9. timer_bitmap' = timer_bitmap \cup {s[k]}
  BY <1>5, <1>6 DEF Unlinked
<1>10. timer[s[k]].delay \in Ticks
  BY <1>1, <1>2 DEF TimerFields
<1>11. /\ TimersLinked(timer', delay_list', timer_bitmap', RemoveAt(s, k))
       /\ DelaysOf(timer', RemoveAt(s, k)) = Removed(D, k, timer[s[k]].delay)
  BY <1>5, <1>6, <1>10, UnlinkedLinks
<1>12. k \in 1..Len(D)
  BY <1>3
<1> QED
  BY <1>7, <1>8, <1>9, <1>11, <1>12

\* One tick: the first timer has one tick less, or it has expired.
LEMMA ServiceTimersLinks ==
  ASSUME TimerListLinked, service_timers
  PROVE  /\ DelaySequence # <<>>
         /\ \/ /\ Sequences!Decremented(Head(DelaySequence).delay) # 0
               /\ TimersLinked(timer', delay_list', timer_bitmap', TimerChain)
               /\ DelaysOf(timer', TimerChain) =
                    [DelaySequence EXCEPT ![1].delay = Sequences!Decremented(@)]
               /\ timer_bitmap' = timer_bitmap
            \/ /\ TimersLinked(timer', delay_list', timer_bitmap', Tail(TimerChain))
               /\ DelaysOf(timer', Tail(TimerChain)) = Tail(DelaySequence)
               /\ timer_bitmap' = timer_bitmap \cup {Head(DelaySequence).id}
<1> DEFINE s == TimerChain
           n == Len(s)
           D == DelaySequence
           T == [id : TimerIds, task : Tasks, delay : Ticks]
           left == (timer[delay_list].delay + UINT32_MODULUS - 1) % UINT32_MODULUS
<1>1. /\ s \in Seq(TimerIds) /\ IsInjective(s) /\ delay_list = Behind(s, 1, NO_TIMER)
      /\ timer \in [TimerIds -> TimerFields] /\ DOMAIN timer = TimerIds
      /\ n \in Nat
      /\ \A i \in 1..n : s[i] \in TimerIds
      /\ \A i, j \in 1..n : s[i] = s[j] => i = j
  BY TimerEnds
<1>2. /\ D \in Seq(T) /\ Len(D) = n
      /\ \A i \in 1..n : D[i] = [id |-> s[i], task |-> timer[s[i]].task,
                                 delay |-> timer[s[i]].delay]
      /\ \A i \in 1..n : D[i].id = s[i] /\ D[i].delay = timer[s[i]].delay
  BY TimerEnds
<1>3. TimersLinked(timer, delay_list, timer_bitmap, s) /\ D = DelaysOf(timer, s)
  BY TimerEnds DEF TimerListLinked
<1>4. delay_list # NO_TIMER
  BY DEF service_timers
<1>5. IF left = 0 THEN Unlinked(delay_list, 0)
      ELSE /\ timer' = [timer EXCEPT ![delay_list].delay = left]
           /\ UNCHANGED <<delay_list, timer_bitmap>>
  BY DEF service_timers
<1> HIDE DEF s, D, T
<1>6. n >= 1 /\ 1 \in 1..n /\ delay_list = s[1] /\ s # <<>> /\ D # <<>>
  <2>1. n >= 1
    BY <1>1, <1>4 DEF Behind
  <2>2. s # <<>> /\ D # <<>>
    BY <1>2, <2>1, EmptySeq
  <2> QED
    BY <1>1, <2>1, <2>2 DEF Behind
<1>7. Head(D) = D[1] /\ D[1].id = s[1] /\ D[1].delay = timer[s[1]].delay
  BY <1>2, <1>6
<1>8. left = Sequences!Decremented(Head(D).delay)
  BY <1>6, <1>7 DEF Sequences!Decremented
<1>9. timer[s[1]].delay \in Ticks /\ left \in Ticks
  <2>1. timer[s[1]].delay \in Ticks
    BY <1>1, <1>6 DEF TimerFields
  <2> QED
    BY <1>6, <2>1, TicksAreNumbers
<1>10. CASE left = 0
  <2>1. Unlinked(s[1], 0)
    BY <1>5, <1>6, <1>10
  <2>2. /\ TimersLinked(timer', delay_list', timer_bitmap', RemoveAt(s, 1))
        /\ DelaysOf(timer', RemoveAt(s, 1)) = Removed(D, 1, 0)
    <3>1. 0 \in Ticks
      BY TicksAreNumbers
    <3>2. \A k \in 1..n : Unlinked(s[k], 0) =>
            /\ TimersLinked(timer', delay_list', timer_bitmap', RemoveAt(s, k))
            /\ DelaysOf(timer', RemoveAt(s, k)) = Removed(D, k, 0)
      BY <3>1, UnlinkedLinks DEF s, D
    <3> QED
      BY <1>6, <2>1, <3>2
  <2>3. RemoveAt(s, 1) = Tail(s) /\ RemoveAt(D, 1) = Tail(D)
    BY <1>1, <1>2, <1>6, RemoveAtFirst
  <2>4. Removed(D, 1, 0) = RemoveAt(D, 1)
    <3>1. CASE 1 < n
      <4>1. 2 \in 1..n /\ D[2] \in T
        BY <1>1, <1>2, <3>1, ElementOfSeq
      <4>2. (D[2].delay + 0) % UINT32_MODULUS = D[2].delay
        BY <4>1, TicksAreNumbers DEF T
      <4>3. [D EXCEPT ![2].delay = (@ + 0) % UINT32_MODULUS] = [D EXCEPT ![2].delay = D[2].delay]
        BY <4>2
      <4>4. [D EXCEPT ![2].delay = D[2].delay] = D
        <5>1. [D[2] EXCEPT !.delay = D[2].delay] = D[2]
          BY <4>1 DEF T
        <5>2. D = [i \in 1..n |-> D[i]]
          BY <1>2, LenProperties
        <5> QED
          BY <4>1, <5>1, <5>2
      <4>5. 1 + 1 = 2
        OBVIOUS
      <4> QED
        BY <1>2, <3>1, <4>3, <4>4, <4>5 DEF Removed
    <3>2. CASE ~(1 < n)
      BY <1>2, <3>2 DEF Removed
    <3> QED
      BY <3>1, <3>2
  <2>5. timer_bitmap' = timer_bitmap \cup {s[1]}
    BY <2>1 DEF Unlinked
  <2> QED
    BY <1>6, <1>7, <2>2, <2>3, <2>4, <2>5 DEF s, D
<1>11. CASE left # 0
  <2>1. timer' = [timer EXCEPT ![s[1]].delay = left] /\ UNCHANGED <<delay_list, timer_bitmap>>
    BY <1>5, <1>6, <1>11
  <2> HIDE DEF left
  <2>2. ASSUME NEW u \in TimerIds
        PROVE  /\ timer'[u] \in TimerFields
               /\ timer'[u].next = timer[u].next /\ timer'[u].prev = timer[u].prev
               /\ timer'[u].task = timer[u].task
               /\ timer'[u].delay = IF u = s[1] THEN left ELSE timer[u].delay
    <3>1. timer[u] \in TimerFields
      BY <1>1
    <3>2. timer'[u] = IF u = s[1] THEN [timer[u] EXCEPT !.delay = left] ELSE timer[u]
      BY <1>1, <2>1
    <3> QED
      BY <1>9, <3>1, <3>2 DEF TimerFields
  <2>3. timer' \in [TimerIds -> TimerFields]
    <3>1. timer' = [u \in TimerIds |-> timer'[u]]
      BY <1>1, <2>1
    <3> QED
      BY <2>2, <3>1
  <2>4. NextOf(timer') = NextOf(timer) /\ PrevOf(timer') = PrevOf(timer)
    BY <2>2 DEF NextOf, PrevOf
  <2>5. \A i \in 1..n : timer'[s[i]].task = timer[s[i]].task
    BY <1>1, <2>2
  <2>6. TimersLinked(timer', delay_list', timer_bitmap', s)
    BY <1>3, <2>1, <2>3, <2>4, <2>5 DEF TimersLinked
  <2>7. DelaysOf(timer', s) = [D EXCEPT ![1].delay = left]
    <3> DEFINE delays == DelaysOf(timer', s)
               new == [D EXCEPT ![1].delay = left]
    <3>1. /\ delays = [i \in 1..n |-> delays[i]]
          /\ \A i \in 1..n : delays[i] = [id |-> s[i], task |-> timer'[s[i]].task,
                                          delay |-> timer'[s[i]].delay]
      BY DEF DelaysOf
    <3>2. DOMAIN D = 1..n
      BY <1>2, LenProperties
    <3>3. new = [i \in 1..n |-> new[i]]
      BY <3>2
    <3>4. \A i \in 1..n : new[i] = IF i = 1 THEN [D[1] EXCEPT !.delay = left] ELSE D[i]
      BY <1>6, <3>2
    <3> HIDE DEF delays, new
    <3>5. ASSUME NEW i \in 1..n PROVE delays[i] = new[i]
      <4>1. CASE i = 1
        <5>1. [D[1] EXCEPT !.delay = left] =
                [id |-> s[1], task |-> timer[s[1]].task, delay |-> left]
          <6>1. D[1] = [id |-> s[1], task |-> timer[s[1]].task, delay |-> timer[s[1]].delay]
            BY <1>2, <1>6
          <6> QED
            BY <6>1
        <5>2. timer'[s[1]].delay = left /\ timer'[s[1]].task = timer[s[1]].task
          BY <1>1, <1>6, <2>2
        <5> QED
          BY <1>6, <3>1, <3>4, <4>1, <5>1, <5>2
      <4>2. CASE i # 1
        <5>1. s[i] # s[1] /\ s[i] \in TimerIds
          BY <1>1, <1>6, <4>2
        <5>2. timer'[s[i]].delay = timer[s[i]].delay /\ timer'[s[i]].task = timer[s[i]].task
          BY <2>2, <5>1
        <5> QED
          BY <1>2, <3>1, <3>4, <4>2, <5>2
      <4> QED
        BY <4>1, <4>2
    <3>6. delays = new
      BY <3>1, <3>3, <3>5
    <3> QED
      BY <3>6 DEF delays, new
  <2>8. [D EXCEPT ![1].delay = left] = [D EXCEPT ![1].delay = Sequences!Decremented(@)]
    BY <1>7, <1>8
  <2> QED
    BY <1>6, <1>8, <1>11, <2>1, <2>6, <2>7, <2>8 DEF s, D
<1> QED
  BY <1>10, <1>11

-----------------------------------------------------------------------------
(* The lists after a step.                                                 *)

LinkedInv == TaskListsLinked /\ TimerListLinked

LEMMA TasksAfter ==
  ASSUME NEW rs, NEW bs, TasksLinked(next', prev', ready_list', blocked_list', rs, bs)
  PROVE  ReadySequences' = rs /\ BlockedSequences' = bs /\ TaskListsLinked'
<1>1. ReadyFound(next', ready_list') = rs /\ BlockedFound(next', blocked_list') = bs
  BY TasksFound
<1>2. ReadySequences' = ReadyFound(next', ready_list')
  BY DEF ReadySequences, ReadyTasks, ReadyFound
<1>3. BlockedSequences' = BlockedFound(next', blocked_list')
  BY DEF BlockedSequences, BlockedTasks, BlockedFound
<1> QED
  BY <1>1, <1>2, <1>3 DEF TaskListsLinked

LEMMA TimersAfter ==
  ASSUME NEW ds, TimersLinked(timer', delay_list', timer_bitmap', ds)
  PROVE  /\ TimerChain' = ds /\ DelaySequence' = DelaysOf(timer', ds)
         /\ TimerListLinked'
<1>1. ChainFound(timer', delay_list') = ds
  BY TimersFound
<1>2. TimerChain' = ChainFound(timer', delay_list')
  BY DEF TimerChain, ChainFound, NextOf
<1>3. DelaySequence' = DelaysOf(timer', TimerChain')
  BY DEF DelaySequence, DelaysOf
<1> QED
  BY <1>1, <1>2, <1>3 DEF TimerListLinked

LEMMA LinkedInit == Init => LinkedInv
<1> SUFFICES ASSUME Init PROVE LinkedInv
  OBVIOUS
<1> DEFINE rs == [p \in Priorities |-> <<>>]
           bs == [l \in BlockedLists |-> <<>>]
<1>1. /\ <<>> \in Seq(Tasks) /\ <<>> \in Seq(TimerIds) /\ Len(<<>>) = 0
      /\ Range(<<>>) = {} /\ IsInjective(<<>>)
  BY EmptySeq DEF Range, IsInjective
<1>2. /\ \A null : Behind(<<>>, 1, null) = null
      /\ \A nx, pv, stop, start : Linked(nx, pv, <<>>, stop, start)
  BY <1>1 DEF Behind, Linked
<1>3. TasksLinked(next, prev, ready_list, blocked_list, rs, bs)
  BY <1>1, <1>2 DEF Init, TasksLinked, Chained, Ringed
<1>4. ReadySequences = rs /\ BlockedSequences = bs
  <2>1. ReadyFound(next, ready_list) = rs /\ BlockedFound(next, blocked_list) = bs
    BY <1>3, TasksFound
  <2> QED
    BY <2>1 DEF ReadySequences, ReadyTasks, ReadyFound, BlockedSequences, BlockedTasks,
                BlockedFound
<1>5. TimersLinked(timer, delay_list, timer_bitmap, <<>>)
  <2>1. FreeTimer \in TimerFields
    BY TicksAreNumbers DEF FreeTimer, TimerFields
  <2>2. timer \in [TimerIds -> TimerFields]
    BY <2>1 DEF Init
  <2> QED
    BY <1>1, <1>2, <2>2 DEF Init, TimersLinked, Chained
<1>6. TimerChain = <<>>
  <2>1. ChainFound(timer, delay_list) = <<>>
    BY <1>5, TimersFound
  <2> QED
    BY <2>1 DEF TimerChain, ChainFound, NextOf
<1> QED
  BY <1>3, <1>4, <1>5, <1>6 DEF LinkedInv, TaskListsLinked, TimerListLinked

\* What is left alone stays linked, and is the same sequences.
LEMMA TasksUntouched ==
  ASSUME TaskListsLinked, UNCHANGED taskVars
  PROVE  TaskListsLinked' /\ UNCHANGED <<ReadySequences, BlockedSequences>>
<1>1. TasksLinked(next', prev', ready_list', blocked_list', ReadySequences, BlockedSequences)
  BY DEF TaskListsLinked, taskVars
<1> QED
  BY <1>1, TasksAfter

LEMMA TimersUntouched ==
  ASSUME TimerListLinked, UNCHANGED timerVars
  PROVE  TimerListLinked' /\ UNCHANGED DelaySequence
<1>1. TimersLinked(timer', delay_list', timer_bitmap', TimerChain)
  BY DEF TimerListLinked, timerVars
<1>2. timer' = timer
  BY DEF timerVars
<1>3. DelaySequence = DelaysOf(timer, TimerChain)
  BY DEF DelaySequence, DelaysOf
<1> QED
  BY <1>1, <1>2, <1>3, TimersAfter

\* The steps on the lists of the tasks, and those on the delay list.
TaskStep ==
  \E t \in Tasks :
    \/ InNoList(t) /\ insert_into_ready_list(t)
    \/ remove_from_ready_list(t)
    \/ yield_task(t)
    \/ \E l \in BlockedLists :
         \/ InNoList(t) /\ insert_into_blocked_list(l, t)
         \/ remove_from_blocked_list(l, t)

TimerStep ==
  \/ \E t \in Tasks : \/ HasNoTimer(t) /\ \E ms \in Delays : set_timer(t, ms)
                      \/ clear_timer(t)
  \/ service_timers

LEMMA StepsApart ==
  ASSUME [Next]_vars
  PROVE  \/ TaskStep /\ UNCHANGED timerVars
         \/ TimerStep /\ UNCHANGED taskVars
         \/ UNCHANGED taskVars /\ UNCHANGED timerVars
<1>1. TaskStep => UNCHANGED timerVars
  BY DEF TaskStep, insert_into_ready_list, remove_from_ready_list, yield_task,
         insert_into_blocked_list, remove_from_blocked_list
<1>2. TimerStep => UNCHANGED taskVars
  BY DEF TimerStep, set_timer, clear_timer, service_timers
<1>3. Next => TaskStep \/ TimerStep
  BY DEF Next, TaskStep, TimerStep
<1>4. UNCHANGED vars => UNCHANGED taskVars /\ UNCHANGED timerVars
  BY DEF vars
<1> QED
  BY <1>1, <1>2, <1>3, <1>4

LEMMA TaskStepLinks ==
  ASSUME TaskListsLinked, TaskStep
  PROVE  TaskListsLinked'
<1> PICK t \in Tasks :
      \/ InNoList(t) /\ insert_into_ready_list(t)
      \/ remove_from_ready_list(t)
      \/ yield_task(t)
      \/ \E l \in BlockedLists :
           \/ InNoList(t) /\ insert_into_blocked_list(l, t)
           \/ remove_from_blocked_list(l, t)
  BY DEF TaskStep
<1>1. CASE InNoList(t) /\ insert_into_ready_list(t)
  BY <1>1, InsertReadyLinks, TasksAfter
<1>2. CASE remove_from_ready_list(t)
  BY <1>2, RemoveReadyLinks, TasksAfter
<1>3. CASE yield_task(t)
  BY <1>3, YieldLinks, TasksAfter
<1>4. ASSUME NEW l \in BlockedLists, InNoList(t), insert_into_blocked_list(l, t)
      PROVE  TaskListsLinked'
  BY <1>4, InsertBlockedLinks, TasksAfter
<1>5. ASSUME NEW l \in BlockedLists, remove_from_blocked_list(l, t)
      PROVE  TaskListsLinked'
  BY <1>5, RemoveBlockedLinks, TasksAfter
<1> QED
  BY <1>1, <1>2, <1>3, <1>4, <1>5

LEMMA TimerStepLinks ==
  ASSUME TimerListLinked, TimerStep
  PROVE  TimerListLinked'
<1>1. ASSUME NEW t \in Tasks, HasNoTimer(t), NEW ms \in Delays, set_timer(t, ms)
      PROVE  TimerListLinked'
  BY <1>1, SetTimerLinks, TimersAfter
<1>2. ASSUME NEW t \in Tasks, clear_timer(t) PROVE TimerListLinked'
  BY <1>2, ClearTimerLinks, TimersAfter
<1>3. ASSUME service_timers PROVE TimerListLinked'
  BY <1>3, ServiceTimersLinks, TimersAfter
<1> QED
  BY <1>1, <1>2, <1>3 DEF TimerStep

LEMMA LinkedStep == LinkedInv /\ [Next]_vars => LinkedInv'
<1> SUFFICES ASSUME LinkedInv, [Next]_vars PROVE LinkedInv'
  OBVIOUS
<1>1. CASE TaskStep /\ UNCHANGED timerVars
  BY <1>1, TaskStepLinks, TimersUntouched DEF LinkedInv
<1>2. CASE TimerStep /\ UNCHANGED taskVars
  BY <1>2, TimerStepLinks, TasksUntouched DEF LinkedInv
<1>3. CASE UNCHANGED taskVars /\ UNCHANGED timerVars
  BY <1>3, TasksUntouched, TimersUntouched DEF LinkedInv
<1> QED
  BY <1>1, <1>2, <1>3, StepsApart

LEMMA LinkedInvariance == Spec => []LinkedInv
BY LinkedInit, LinkedStep, PTL DEF Spec

LEMMA LinkedListsAreDoublyLinked == LinkedInv => DoublyLinked
<1> SUFFICES ASSUME LinkedInv PROVE DoublyLinked
  OBVIOUS
<1>1. TasksLinked(next, prev, ready_list, blocked_list, ReadySequences, BlockedSequences)
  BY DEF LinkedInv, TaskListsLinked
<1>2. ASSUME NEW p \in Priorities, NEW t \in Tasks, t \in Range(ReadyTasks(p))
      PROVE  next[prev[t]] = t /\ prev[next[t]] = t
  <2> DEFINE s == ReadySequences[p]
             n == Len(s)
  <2>1. s = ReadyTasks(p)
    BY DEF ReadySequences
  <2>2. s \in Seq(Tasks) /\ IsInjective(s) /\ Ringed(next, prev, s)
    BY <1>1 DEF TasksLinked
  <2>3. /\ \A i \in 1..n : next[s[i]] = Behind(s, i + 1, s[1])
        /\ \A i \in 1..n : prev[s[i]] = Before(s, i, s[n])
    BY <2>2 DEF Ringed, Linked
  <2> HIDE DEF s
  <2>4. n \in Nat
    BY <2>2, LenProperties
  <2>5. PICK i \in 1..n : s[i] = t
    BY <1>2, <2>1, <2>2, LenProperties DEF Range
  <2>6. prev[next[t]] = t
    <3>1. CASE i = n
      BY <2>3, <2>4, <2>5, <3>1 DEF Before, Behind
    <3>2. CASE i < n
      BY <2>3, <2>4, <2>5, <3>2 DEF Before, Behind
    <3> QED
      BY <2>4, <3>1, <3>2
  <2>7. next[prev[t]] = t
    <3>1. CASE i = 1
      BY <2>3, <2>4, <2>5, <3>1 DEF Before, Behind
    <3>2. CASE i > 1
      BY <2>3, <2>4, <2>5, <3>2 DEF Before, Behind
    <3> QED
      BY <2>4, <3>1, <3>2
  <2> QED
    BY <2>6, <2>7
<1>3. ASSUME NEW l \in BlockedLists, NEW k \in DOMAIN BlockedTasks(l)
      PROVE  /\ prev[BlockedTasks(l)[k]] = Before(BlockedTasks(l), k, NULL)
             /\ next[BlockedTasks(l)[k]] = Behind(BlockedTasks(l), k + 1, NULL)
  <2>1. BlockedSequences[l] = BlockedTasks(l)
    BY DEF BlockedSequences
  <2>2. BlockedTasks(l) \in Seq(Tasks) /\ Chained(next, prev, BlockedTasks(l), NULL)
    BY <1>1, <2>1 DEF TasksLinked
  <2>3. k \in 1..Len(BlockedTasks(l))
    BY <2>2, LenProperties
  <2> QED
    BY <2>2, <2>3 DEF Chained, Linked
<1>4. ASSUME NEW k \in DOMAIN TimerChain
      PROVE  timer[TimerChain[k]].prev = Before(TimerChain, k, NO_TIMER)
  <2>1. TimerChain \in Seq(TimerIds)
    BY TimerEnds DEF LinkedInv
  <2>2. k \in 1..Len(TimerChain)
    BY <2>1, LenProperties
  <2> QED
    BY <2>2, TimerEnds DEF LinkedInv
<1>5. ASSUME NEW t \in Tasks, InNoList(t) PROVE next[t] = NULL /\ prev[t] = NULL
  <2>1. Unlisted(t, ReadySequences, BlockedSequences)
    BY <1>5 DEF InNoList, Unlisted, ReadySequences, BlockedSequences
  <2> QED
    BY <1>1, <2>1 DEF TasksLinked
<1> QED
  BY <1>2, <1>3, <1>4, <1>5 DEF DoublyLinked

\* In every list of the kernel the next and the prev pointers agree, and a task
\* that is in none has NULL for both: list.c, yield_task and timer.c never
\* leave a task or a timer that can be reached one way only, or one that still
\* points into a list it has left.
THEOREM PointersCorrect == Spec => []DoublyLinked
BY LinkedInvariance, LinkedListsAreDoublyLinked, PTL

-----------------------------------------------------------------------------
(* The operations on the pointers are the operations on the sequences.     *)

LEMMA TaskOperations ==
  ASSUME TaskListsLinked, TimerListLinked, UNCHANGED timerVars
  PROVE  TaskListsAreSequences
<1>1. UNCHANGED DelaySequence
  BY TimersUntouched
<1>2. ASSUME NEW t \in Tasks, insert_into_ready_list(t), InNoList(t)
      PROVE  Sequences!insert_into_ready_list(t) /\ UNCHANGED BlockedSequences
  <2>1. /\ ReadySequences' = [ReadySequences EXCEPT ![Priority[t]] = Append(@, t)]
        /\ BlockedSequences' = BlockedSequences
    BY <1>2, InsertReadyLinks, TasksAfter
  <2>2. ready_bitmap' = ready_bitmap \cup {Priority[t]}
    BY <1>2 DEF insert_into_ready_list
  <2> QED
    BY <2>1, <2>2 DEF Sequences!insert_into_ready_list
<1>3. ASSUME NEW t \in Tasks, remove_from_ready_list(t)
      PROVE  Sequences!remove_from_ready_list(t) /\ UNCHANGED BlockedSequences
  <2>1. /\ ReadySequences' = [ReadySequences EXCEPT ![Priority[t]] = Tail(@)]
        /\ BlockedSequences' = BlockedSequences
    BY <1>3, RemoveReadyLinks, TasksAfter
  <2>2. ready_bitmap' = IF Tail(ReadySequences[Priority[t]]) = <<>>
                          THEN ready_bitmap \ {Priority[t]} ELSE ready_bitmap
    BY <1>3, RemoveReadyLinks
  <2> QED
    BY <2>1, <2>2 DEF Sequences!remove_from_ready_list
<1>4. ASSUME NEW t \in Tasks, yield_task(t)
      PROVE  /\ \E i \in DOMAIN ReadySequences[Priority[t]] :
                  /\ ReadySequences[Priority[t]][i] = t
                  /\ ReadySequences' = [ReadySequences EXCEPT
                                          ![Priority[t]] = Append(RemoveAt(@, i), t)]
             /\ UNCHANGED BlockedSequences
  <2>1. PICK k \in 1..Len(ReadySequences[Priority[t]]) :
          /\ ReadySequences[Priority[t]][k] = t
          /\ TasksLinked(next', prev', ready_list', blocked_list',
               [ReadySequences EXCEPT ![Priority[t]] = Append(RemoveAt(@, k), t)],
               BlockedSequences)
    BY <1>4, YieldLinks
  <2>2. /\ ReadySequences' = [ReadySequences EXCEPT ![Priority[t]] = Append(RemoveAt(@, k), t)]
        /\ BlockedSequences' = BlockedSequences
    BY <2>1, TasksAfter
  <2>3. k \in DOMAIN ReadySequences[Priority[t]]
    <3>1. Priority[t] \in Priorities
      BY NodesAssumption DEF Priorities
    <3>2. ReadySequences[Priority[t]] \in Seq(Tasks)
      BY <3>1, RingEnds
    <3> QED
      BY <3>2, LenProperties
  <2> QED
    BY <2>1, <2>2, <2>3
<1>5. ASSUME NEW t \in Tasks, NEW l \in BlockedLists, insert_into_blocked_list(l, t), InNoList(t)
      PROVE  /\ \E k \in 1..(Len(BlockedSequences[l]) + 1) :
                  /\ Sequences!BlockedPlace(BlockedSequences[l], t, k)
                  /\ BlockedSequences' = [BlockedSequences EXCEPT ![l] = InsertAt(@, k, t)]
             /\ UNCHANGED ReadySequences
  BY <1>5, InsertBlockedLinks, TasksAfter
<1>6. ASSUME NEW t \in Tasks, NEW l \in BlockedLists, remove_from_blocked_list(l, t)
      PROVE  /\ \E k \in DOMAIN BlockedSequences[l] :
                  /\ BlockedSequences[l][k] = t
                  /\ BlockedSequences' = [BlockedSequences EXCEPT ![l] = RemoveAt(@, k)]
             /\ UNCHANGED ReadySequences
  <2>1. PICK k \in 1..Len(BlockedSequences[l]) :
          /\ BlockedSequences[l][k] = t
          /\ TasksLinked(next', prev', ready_list', blocked_list', ReadySequences,
               [BlockedSequences EXCEPT ![l] = RemoveAt(@, k)])
    BY <1>6, RemoveBlockedLinks
  <2>2. /\ BlockedSequences' = [BlockedSequences EXCEPT ![l] = RemoveAt(@, k)]
        /\ ReadySequences' = ReadySequences
    BY <2>1, TasksAfter
  <2>3. k \in DOMAIN BlockedSequences[l]
    BY ChainEnds, LenProperties
  <2> QED
    BY <2>1, <2>2, <2>3
<1> QED
  BY <1>1, <1>2, <1>3, <1>4, <1>5, <1>6 DEF TaskListsAreSequences

LEMMA TimerOperations ==
  ASSUME TaskListsLinked, TimerListLinked, UNCHANGED taskVars
  PROVE  DelayListIsSequence
<1> DEFINE D == DelaySequence
<1>1. UNCHANGED <<ReadySequences, BlockedSequences>>
  BY TasksUntouched
<1>2. ASSUME NEW t \in Tasks, NEW ms \in Delays, set_timer(t, ms), HasNoTimer(t)
      PROVE  \E id \in TimerIds, k \in 1..(Len(D) + 1), left \in 0..ms :
               /\ Sequences!get_timer_instance(id)
               /\ Sequences!ScanStopsAt(ms, k, left)
               /\ Sequences!InsertTimer([id |-> id, task |-> t, delay |-> left], k)
  <2>1. PICK id \in TimerIds, k \in 1..(Len(D) + 1), left \in 0..ms :
          /\ Sequences!get_timer_instance(id)
          /\ Sequences!ScanStopsAt(ms, k, left)
          /\ TimersLinked(timer', delay_list', timer_bitmap', InsertAt(TimerChain, k, id))
          /\ DelaysOf(timer', InsertAt(TimerChain, k, id)) =
               Inserted(D, k, [id |-> id, task |-> t, delay |-> left])
    BY <1>2, SetTimerLinks
  <2>2. D' = Inserted(D, k, [id |-> id, task |-> t, delay |-> left])
    BY <2>1, TimersAfter
  <2>3. Sequences!InsertTimer([id |-> id, task |-> t, delay |-> left], k)
    BY <2>2 DEF Inserted, Sequences!InsertTimer, InsertAt, Sequences!InsertAt
  <2> QED
    BY <2>1, <2>3
<1>3. ASSUME NEW t \in Tasks, clear_timer(t) PROVE Sequences!clear_timer(t)
  <2>1. PICK k \in 1..Len(D) :
          /\ D[k].task = t /\ \A i \in 1..(k - 1) : D[i].task # t
          /\ timer_bitmap' = timer_bitmap \cup {D[k].id}
          /\ TimersLinked(timer', delay_list', timer_bitmap', RemoveAt(TimerChain, k))
          /\ DelaysOf(timer', RemoveAt(TimerChain, k)) = Removed(D, k, D[k].delay)
    BY <1>3, ClearTimerLinks
  <2>2. k \in DOMAIN D
    BY TimerEnds, LenProperties
  <2>3. D' = Removed(D, k, D[k].delay)
    BY <2>1, TimersAfter
  <2>4. D' = Sequences!Unlinked(k)
    BY <2>3 DEF Removed, Sequences!Unlinked, RemoveAt, Sequences!RemoveAt
  <2>5. Sequences!return_timer_instance(D[k].id)
    BY <2>1 DEF Sequences!return_timer_instance
  <2>6. Sequences!HasTimer(t)
    BY <2>1, <2>2 DEF Sequences!HasTimer
  <2>7. D[k].id # NO_TIMER
    <3>1. D[k] \in [id : TimerIds, task : Tasks, delay : Ticks]
      BY TimerEnds, ElementOfSeq
    <3> QED
      BY <3>1, NoTimerIsNoId
  <2>8. Sequences!Reassigned(D[k].id, NULL) = [u \in Tasks |-> [id |-> NO_TIMER, task |-> NULL]]
    BY <2>7 DEF Sequences!Reassigned
  <2> QED
    BY <2>1, <2>2, <2>4, <2>5, <2>6, <2>8 DEF Sequences!clear_timer
<1>4. ASSUME service_timers
      PROVE  \/ Sequences!TickCount
             \/ /\ D' = Tail(D)
                /\ Sequences!return_timer_instance(Head(D).id)
  <2>1. D # <<>>
    BY <1>4, ServiceTimersLinks
  <2>2. CASE /\ Sequences!Decremented(Head(D).delay) # 0
             /\ TimersLinked(timer', delay_list', timer_bitmap', TimerChain)
             /\ DelaysOf(timer', TimerChain) = [D EXCEPT ![1].delay = Sequences!Decremented(@)]
             /\ timer_bitmap' = timer_bitmap
    <3>1. D' = [D EXCEPT ![1].delay = Sequences!Decremented(@)]
      BY <2>2, TimersAfter
    <3>2. Sequences!Tick
      BY DEF Sequences!Tick, Sequences!SysTickMasked, Sequences!Masked,
             Sequences!Implemented, Sequences!PriorityStep
    <3>3. UNCHANGED Sequences!platformVars /\ UNCHANGED Sequences!schedVars
      BY DEF Sequences!platformVars, Sequences!schedVars
    <3>4. UNCHANGED Sequences!listVars
      BY <1>1 DEF Sequences!listVars, taskVars
    <3> QED
      BY <2>1, <2>2, <3>1, <3>2, <3>3, <3>4 DEF Sequences!TickCount
  <2>3. CASE /\ TimersLinked(timer', delay_list', timer_bitmap', Tail(TimerChain))
             /\ DelaysOf(timer', Tail(TimerChain)) = Tail(D)
             /\ timer_bitmap' = timer_bitmap \cup {Head(D).id}
    <3>1. D' = Tail(D)
      BY <2>3, TimersAfter
    <3> QED
      BY <2>3, <3>1 DEF Sequences!return_timer_instance
  <2> QED
    BY <1>4, <2>2, <2>3, ServiceTimersLinks
<1> QED
  BY <1>1, <1>2, <1>3, <1>4 DEF DelayListIsSequence

LEMMA LinkedSequences ==
  LinkedInv /\ [Next]_vars =>
    [IF UNCHANGED timerVars THEN TaskListsAreSequences ELSE DelayListIsSequence]_vars
<1> SUFFICES ASSUME LinkedInv, [Next]_vars
             PROVE  IF UNCHANGED timerVars THEN TaskListsAreSequences ELSE DelayListIsSequence
  OBVIOUS
<1>1. CASE UNCHANGED timerVars
  BY <1>1, TaskOperations DEF LinkedInv
<1>2. CASE UNCHANGED taskVars /\ ~UNCHANGED timerVars
  BY <1>2, TimerOperations DEF LinkedInv
<1> QED
  BY <1>1, <1>2, StepsApart

\* Whatever pointers an operation of list.c, of yield_task or of timer.c
\* writes, the list they make afterwards is the one that the other modules take
\* the operation for, and the other lists are what they were: a task is neither
\* lost nor left in two lists, and a timer keeps its ticks.
THEOREM PointersRefineSequences == Spec => ListsAreSequences
BY LinkedInvariance, LinkedSequences, PTL DEF Spec, ListsAreSequences
=============================================================================
