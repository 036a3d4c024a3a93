--------------------------- MODULE SequenceProofs ---------------------------
(***************************************************************************)
(* What putting an element into a sequence and taking one out of it does   *)
(* to its elements and their places, and induction over numbers.           *)
(***************************************************************************)
EXTENDS SequencesExt, SequenceTheorems, FiniteSetTheorems, WellFoundedInduction, TLAPS

LEMMA InsertAtType ==
  ASSUME NEW E, NEW s \in Seq(E), NEW k \in 1..(Len(s) + 1), NEW e \in E
  PROVE  InsertAt(s, k, e) \in Seq(E)
<1>1. SubSeq(s, 1, k - 1) \in Seq(E)
  BY SubSeqProperties
<1>2. SubSeq(s, k, Len(s)) \in Seq(E)
  BY SubSeqProperties
<1> QED
  BY <1>1, <1>2, ConcatProperties DEF InsertAt

LEMMA RemoveAtType ==
  ASSUME NEW E, NEW s \in Seq(E), NEW k \in 1..Len(s)
  PROVE  RemoveAt(s, k) \in Seq(E)
<1>1. SubSeq(s, 1, k - 1) \in Seq(E)
  BY SubSeqProperties
<1>2. SubSeq(s, k + 1, Len(s)) \in Seq(E)
  BY SubSeqProperties
<1> QED
  BY <1>1, <1>2, ConcatProperties DEF RemoveAt

LEMMA AppendElements ==
  ASSUME NEW E, NEW s \in Seq(E), NEW e \in E
  PROVE  /\ Range(Append(s, e)) = Range(s) \cup {e}
         /\ IsInjective(s) /\ e \notin Range(s) => IsInjective(Append(s, e))
<1> DEFINE r == Append(s, e)
<1>1. /\ r \in Seq(E) /\ Len(r) = Len(s) + 1
      /\ \A i \in 1..Len(s) : r[i] = s[i]
      /\ r[Len(s) + 1] = e
  BY AppendProperties
<1>2. DOMAIN s = 1..Len(s) /\ DOMAIN r = 1..(Len(s) + 1) /\ Len(s) \in Nat
  BY <1>1, LenProperties
<1> HIDE DEF r
<1>3. Range(r) = Range(s) \cup {e}
  <2>1. \A i \in DOMAIN r : r[i] \in Range(s) \cup {e}
    BY <1>1, <1>2 DEF Range
  <2>2. Range(s) \cup {e} \subseteq Range(r)
    BY <1>1, <1>2 DEF Range
  <2> QED
    BY <2>1, <2>2 DEF Range
<1>4. ASSUME IsInjective(s), e \notin Range(s) PROVE IsInjective(r)
  BY <1>1, <1>2, <1>4 DEF IsInjective, Range
<1> QED
  BY <1>3, <1>4 DEF r

LEMMA TailElements ==
  ASSUME NEW E, NEW s \in Seq(E), s # <<>>, IsInjective(s)
  PROVE  Range(Tail(s)) = Range(s) \ {Head(s)} /\ IsInjective(Tail(s)) /\ Head(s) \in Range(s)
<1> DEFINE r == Tail(s)
<1>1. /\ r \in Seq(E) /\ Len(r) = Len(s) - 1
      /\ \A i \in 1..Len(r) : r[i] = s[i + 1]
      /\ Head(s) = s[1]
  BY HeadTailProperties
<1>2. /\ Len(s) \in Nat \ {0} /\ Len(r) \in Nat
      /\ DOMAIN s = 1..Len(s) /\ DOMAIN r = 1..Len(r)
  BY <1>1, EmptySeq, LenProperties
<1> HIDE DEF r
<1>3. IsInjective(r)
  <2> SUFFICES ASSUME NEW a \in DOMAIN r, NEW b \in DOMAIN r, r[a] = r[b] PROVE a = b
    BY DEF IsInjective
  <2>1. /\ a + 1 \in DOMAIN s /\ b + 1 \in DOMAIN s
        /\ s[a + 1] = s[b + 1]
    BY <1>1, <1>2
  <2>2. a + 1 = b + 1
    BY <2>1 DEF IsInjective
  <2> QED
    BY <1>2, <2>2
<1>4. \A i \in DOMAIN r : r[i] \in Range(s) \ {Head(s)}
  <2> TAKE i \in DOMAIN r
  <2>1. r[i] = s[i + 1] /\ i + 1 \in DOMAIN s /\ 1 \in DOMAIN s /\ i + 1 # 1
    BY <1>1, <1>2
  <2>2. s[i + 1] # s[1]
    BY <2>1 DEF IsInjective
  <2> QED
    BY <1>1, <2>1, <2>2 DEF Range
<1>5. ASSUME NEW i \in DOMAIN s, s[i] # Head(s) PROVE s[i] \in Range(r)
  <2>1. i - 1 \in DOMAIN r /\ s[i] = r[i - 1]
    BY <1>1, <1>2, <1>5
  <2> QED
    BY <2>1 DEF Range
<1>6. Head(s) \in Range(s)
  BY <1>1, <1>2 DEF Range
<1>7. Range(s) \ {Head(s)} \subseteq Range(r)
  BY <1>5 DEF Range
<1>8. Range(r) \subseteq Range(s) \ {Head(s)}
  BY <1>4 DEF Range
<1> QED
  BY <1>3, <1>6, <1>7, <1>8 DEF r

LEMMA InsertAtElements ==
  ASSUME NEW E, NEW s \in Seq(E), NEW k \in 1..(Len(s) + 1), NEW e \in E
  PROVE  /\ Len(InsertAt(s, k, e)) = Len(s) + 1
         /\ \A i \in 1..(Len(s) + 1) :
              InsertAt(s, k, e)[i] = IF i < k THEN s[i] ELSE IF i = k THEN e ELSE s[i - 1]
<1> DEFINE a == SubSeq(s, 1, k - 1)
           b == SubSeq(s, k, Len(s))
<1>1. /\ Len(s) \in Nat
      /\ \A i \in 1..Len(s) : s[i] \in E
  BY LenProperties, ElementOfSeq
<1>2. /\ a \in Seq(E) /\ Len(a) = k - 1
      /\ \A i \in 1..(k - 1) : a[i] = s[i]
  BY <1>1, SubSeqProperties
<1>3. /\ b \in Seq(E) /\ Len(b) = Len(s) - k + 1
      /\ \A i \in 1..(Len(s) - k + 1) : b[i] = s[k + i - 1]
  BY <1>1, SubSeqProperties
<1>4. <<e>> \in Seq(E) /\ Len(<<e>>) = 1 /\ <<e>>[1] = e
  OBVIOUS
<1> HIDE DEF a, b
<1>5. /\ a \o <<e>> \in Seq(E) /\ Len(a \o <<e>>) = k
      /\ \A i \in 1..k : (a \o <<e>>)[i] = IF i < k THEN s[i] ELSE e
  BY <1>1, <1>2, <1>4, ConcatProperties
<1> DEFINE c == a \o <<e>>
<1>6. InsertAt(s, k, e) = c \o b
  BY DEF InsertAt, a, b
<1>7. c \in Seq(E) /\ Len(c) = k /\ \A i \in 1..k : c[i] = IF i < k THEN s[i] ELSE e
  BY <1>5
<1> HIDE DEF c
<1>8. /\ Len(c \o b) = Len(s) + 1
      /\ \A i \in 1..(Len(s) + 1) : (c \o b)[i] = IF i <= k THEN c[i] ELSE b[i - k]
  <2>1. Len(c) + Len(b) = Len(s) + 1
    BY <1>1, <1>3, <1>7
  <2> QED
    BY <1>3, <1>7, <2>1, ConcatProperties
<1>9. ASSUME NEW i \in 1..(Len(s) + 1), i > k PROVE b[i - k] = s[i - 1]
  BY <1>1, <1>3, <1>9
<1> QED
  BY <1>1, <1>6, <1>7, <1>8, <1>9

LEMMA InsertAtRange ==
  ASSUME NEW E, NEW s \in Seq(E), NEW k \in 1..(Len(s) + 1), NEW e \in E
  PROVE  /\ Range(InsertAt(s, k, e)) = Range(s) \cup {e}
         /\ IsInjective(s) /\ e \notin Range(s) => IsInjective(InsertAt(s, k, e))
<1> DEFINE r == InsertAt(s, k, e)
<1>1. /\ Len(r) = Len(s) + 1
      /\ \A i \in 1..(Len(s) + 1) :
           r[i] = IF i < k THEN s[i] ELSE IF i = k THEN e ELSE s[i - 1]
  <2>1. Len(r) = Len(s) + 1
    BY InsertAtElements
  <2>2. \A i \in 1..(Len(s) + 1) :
          r[i] = IF i < k THEN s[i] ELSE IF i = k THEN e ELSE s[i - 1]
    BY InsertAtElements
  <2> QED
    BY <2>1, <2>2
<1>2. r \in Seq(E)
  BY InsertAtType
<1>3. DOMAIN s = 1..Len(s) /\ DOMAIN r = 1..(Len(s) + 1) /\ Len(s) \in Nat
  BY <1>1, <1>2, LenProperties
<1> HIDE DEF r
<1>4. ASSUME NEW i \in DOMAIN r PROVE r[i] \in Range(s) \cup {e}
  <2>1. CASE i < k
    <3>1. i \in DOMAIN s /\ r[i] = s[i]
      BY <1>1, <1>3, <2>1
    <3> QED
      BY <3>1 DEF Range
  <2>2. CASE i = k
    BY <1>1, <1>3, <2>2
  <2>3. CASE i > k
    <3>1. i - 1 \in DOMAIN s /\ r[i] = s[i - 1]
      BY <1>1, <1>3, <2>3
    <3> QED
      BY <3>1 DEF Range
  <2> QED
    BY <1>3, <2>1, <2>2, <2>3
<1>5. ASSUME NEW i \in DOMAIN s PROVE s[i] \in Range(r)
  <2>1. CASE i < k
    BY <1>1, <1>3, <2>1 DEF Range
  <2>2. CASE i >= k
    <3>1. i + 1 \in DOMAIN r /\ r[i + 1] = s[i]
      BY <1>1, <1>3, <2>2
    <3> QED
      BY <3>1 DEF Range
  <2> QED
    BY <1>3, <2>1, <2>2
<1>6. e \in Range(r)
  BY <1>1, <1>3 DEF Range
<1>7. Range(r) = Range(s) \cup {e}
  BY <1>4, <1>5, <1>6 DEF Range
<1>8. ASSUME IsInjective(s), e \notin Range(s) PROVE IsInjective(r)
  <2> DEFINE old(i) == IF i < k THEN i ELSE i - 1
  <2>1. \A i \in DOMAIN r : i # k => old(i) \in DOMAIN s /\ r[i] = s[old(i)]
    BY <1>1, <1>3
  <2>2. \A i \in DOMAIN r : r[i] = e => i = k
    BY <1>8, <2>1 DEF Range
  <2>3. ASSUME NEW i \in DOMAIN r, NEW j \in DOMAIN r, r[i] = r[j], i # k, j # k
        PROVE  i = j
    <3>1. old(i) = old(j)
      BY <1>8, <2>1, <2>3 DEF IsInjective
    <3> QED
      BY <1>3, <2>3, <3>1
  <2>4. r[k] = e
    BY <1>1, <1>3
  <2> QED
    BY <2>2, <2>3, <2>4 DEF IsInjective
<1> QED
  BY <1>7, <1>8 DEF r

LEMMA RemoveAtElements ==
  ASSUME NEW E, NEW s \in Seq(E), NEW i \in 1..Len(s)
  PROVE  /\ Len(RemoveAt(s, i)) = Len(s) - 1
         /\ \A j \in 1..(Len(s) - 1) : RemoveAt(s, i)[j] = IF j < i THEN s[j] ELSE s[j + 1]
<1> DEFINE a == SubSeq(s, 1, i - 1)
           b == SubSeq(s, i + 1, Len(s))
<1>1. /\ Len(s) \in Nat
      /\ \A j \in 1..Len(s) : s[j] \in E
  BY LenProperties, ElementOfSeq
<1>2. /\ a \in Seq(E) /\ Len(a) = i - 1
      /\ \A j \in 1..(i - 1) : a[j] = s[j]
  BY <1>1, SubSeqProperties
<1>3. /\ b \in Seq(E) /\ Len(b) = Len(s) - i
      /\ \A j \in 1..(Len(s) - i) : b[j] = s[i + j]
  <2>1. \A j \in (i + 1)..Len(s) : s[j] \in E
    BY <1>1
  <2>2. /\ b \in Seq(E)
        /\ Len(b) = IF i + 1 <= Len(s) THEN Len(s) - (i + 1) + 1 ELSE 0
        /\ \A j \in 1..(Len(s) - (i + 1) + 1) : b[j] = s[(i + 1) + j - 1]
    BY <1>1, <2>1, SubSeqProperties
  <2> HIDE DEF b
  <2>3. \A j \in 1..(Len(s) - i) : (i + 1) + j - 1 = i + j
    BY <1>1
  <2> QED
    BY <1>1, <2>2, <2>3
<1>4. RemoveAt(s, i) = a \o b
  BY DEF RemoveAt
<1> HIDE DEF a, b
<1>5. /\ Len(a \o b) = Len(s) - 1
      /\ \A j \in 1..(Len(s) - 1) : (a \o b)[j] = IF j <= i - 1 THEN a[j] ELSE b[j - (i - 1)]
  <2>1. Len(a) + Len(b) = Len(s) - 1
    BY <1>1, <1>2, <1>3
  <2>2. /\ Len(a \o b) = Len(a) + Len(b)
        /\ \A j \in 1..(Len(a) + Len(b)) :
             (a \o b)[j] = IF j <= Len(a) THEN a[j] ELSE b[j - Len(a)]
    BY <1>2, <1>3, ConcatProperties
  <2> QED
    BY <1>2, <2>1, <2>2
<1>6. ASSUME NEW j \in 1..(Len(s) - 1), j >= i PROVE b[j - (i - 1)] = s[j + 1]
  <2>1. j - (i - 1) \in 1..(Len(s) - i) /\ i + (j - (i - 1)) = j + 1
    BY <1>1, <1>6
  <2> QED
    BY <1>3, <2>1
<1> QED
  BY <1>1, <1>2, <1>4, <1>5, <1>6

LEMMA RemoveAtRange ==
  ASSUME NEW E, NEW s \in Seq(E), NEW i \in 1..Len(s), IsInjective(s)
  PROVE  /\ Range(RemoveAt(s, i)) = Range(s) \ {s[i]}
         /\ IsInjective(RemoveAt(s, i))
<1> DEFINE r == RemoveAt(s, i)
<1>1. Len(s) \in Nat /\ DOMAIN s = 1..Len(s)
  BY LenProperties
<1>2. /\ r \in Seq(E) /\ Len(r) = Len(s) - 1
      /\ \A j \in 1..(Len(s) - 1) : r[j] = IF j < i THEN s[j] ELSE s[j + 1]
  BY RemoveAtType, RemoveAtElements
<1>3. DOMAIN r = 1..(Len(s) - 1)
  BY <1>2, LenProperties
<1> HIDE DEF r
<1> DEFINE old(j) == IF j < i THEN j ELSE j + 1
<1>4. \A j \in DOMAIN r : old(j) \in DOMAIN s /\ old(j) # i /\ r[j] = s[old(j)]
  BY <1>1, <1>2, <1>3
<1>5. IsInjective(r)
  <2>1. ASSUME NEW j \in DOMAIN r, NEW k \in DOMAIN r, r[j] = r[k] PROVE j = k
    <3>1. old(j) = old(k)
      BY <1>4, <2>1 DEF IsInjective
    <3> QED
      BY <1>1, <1>3, <3>1
  <2> QED
    BY <2>1 DEF IsInjective
<1>6. \A j \in DOMAIN r : r[j] \in Range(s) \ {s[i]}
  BY <1>1, <1>4 DEF IsInjective, Range
<1>7. ASSUME NEW j \in DOMAIN s, j # i PROVE s[j] \in Range(r)
  <2>1. CASE j < i
    <3>1. j \in DOMAIN r /\ r[j] = s[j]
      BY <1>1, <1>2, <1>3, <2>1
    <3> QED
      BY <3>1 DEF Range
  <2>2. CASE j > i
    <3>1. j - 1 \in DOMAIN r /\ r[j - 1] = s[j]
      BY <1>1, <1>2, <1>3, <2>2
    <3> QED
      BY <3>1 DEF Range
  <2> QED
    BY <1>1, <1>7, <2>1, <2>2
<1>8. Range(r) \subseteq Range(s) \ {s[i]}
  BY <1>6 DEF Range
<1>9. Range(s) \ {s[i]} \subseteq Range(r)
  BY <1>7 DEF Range
<1> QED
  BY <1>5, <1>8, <1>9 DEF r

\* Taking out the first element leaves the tail.
LEMMA RemoveAtFirst ==
  ASSUME NEW E, NEW s \in Seq(E), s # <<>>
  PROVE  Len(s) \in Nat /\ Len(s) >= 1 /\ RemoveAt(s, 1) = Tail(s)
<1> DEFINE n == Len(s)
<1>1. n \in Nat /\ n >= 1 /\ 1 \in 1..n
  <2>1. n \in Nat \ {0}
    BY EmptySeq
  <2> HIDE DEF n
  <2> QED
    BY <2>1
<1>2. /\ RemoveAt(s, 1) \in Seq(E) /\ Len(RemoveAt(s, 1)) = n - 1
      /\ \A j \in 1..(n - 1) : RemoveAt(s, 1)[j] = IF j < 1 THEN s[j] ELSE s[j + 1]
  BY <1>1, RemoveAtType, RemoveAtElements
<1>3. /\ Tail(s) \in Seq(E) /\ Len(Tail(s)) = n - 1
      /\ \A j \in 1..(n - 1) : Tail(s)[j] = s[j + 1]
  BY HeadTailProperties
<1>4. \A j \in 1..(n - 1) : RemoveAt(s, 1)[j] = Tail(s)[j]
  BY <1>1, <1>2, <1>3
<1> QED
  BY <1>1, <1>2, <1>3, <1>4, SeqEqual

\* Moving the first element to the end, and the last.
LEMMA MoveEnds ==
  ASSUME NEW E, NEW s \in Seq(E), s # <<>>
  PROVE  /\ Append(RemoveAt(s, 1), s[1]) = Append(Tail(s), s[1])
         /\ Append(RemoveAt(s, Len(s)), s[Len(s)]) = s
<1> DEFINE n == Len(s)
<1>1. n \in Nat /\ n >= 1 /\ n \in 1..n
  <2>1. n \in Nat /\ n >= 1
    BY RemoveAtFirst
  <2> HIDE DEF n
  <2> QED
    BY <2>1
<1>2. RemoveAt(s, 1) = Tail(s)
  BY RemoveAtFirst
<1>3. Append(RemoveAt(s, n), s[n]) = s
  <2> DEFINE r == Append(RemoveAt(s, n), s[n])
  <2>1. /\ RemoveAt(s, n) \in Seq(E) /\ Len(RemoveAt(s, n)) = n - 1
        /\ \A j \in 1..(n - 1) : RemoveAt(s, n)[j] = IF j < n THEN s[j] ELSE s[j + 1]
    BY <1>1, RemoveAtType, RemoveAtElements
  <2>2. s[n] \in E
    BY <1>1, ElementOfSeq
  <2>3. /\ r \in Seq(E) /\ Len(r) = n
        /\ \A j \in 1..(n - 1) : r[j] = RemoveAt(s, n)[j]
        /\ r[n] = s[n]
    <3>1. Len(RemoveAt(s, n)) + 1 = n
      BY <1>1, <2>1
    <3> QED
      BY <2>1, <2>2, <3>1, AppendProperties
  <2> HIDE DEF r
  <2>4. \A j \in 1..n : r[j] = s[j]
    BY <1>1, <2>1, <2>3
  <2> QED
    BY <2>3, <2>4, SeqEqual DEF r
<1> QED
  BY <1>2, <1>3

\* An element moves to the end of its sequence.
LEMMA MoveToTailElements ==
  ASSUME NEW E, NEW s \in Seq(E), NEW i \in 1..Len(s), IsInjective(s)
  PROVE  /\ Range(Append(RemoveAt(s, i), s[i])) = Range(s)
         /\ IsInjective(Append(RemoveAt(s, i), s[i]))
<1>1. s[i] \in E /\ s[i] \in Range(s)
  BY LenProperties, ElementOfSeq DEF Range
<1>2. RemoveAt(s, i) \in Seq(E)
  BY RemoveAtType
<1>3. Range(RemoveAt(s, i)) = Range(s) \ {s[i]} /\ IsInjective(RemoveAt(s, i))
  BY RemoveAtRange
<1>4. s[i] \notin Range(RemoveAt(s, i))
  BY <1>3
<1>5. /\ Range(Append(RemoveAt(s, i), s[i])) = Range(RemoveAt(s, i)) \cup {s[i]}
      /\ IsInjective(Append(RemoveAt(s, i), s[i]))
  BY <1>1, <1>2, <1>3, <1>4, AppendElements
<1> QED
  BY <1>1, <1>3, <1>5

-----------------------------------------------------------------------------
(***************************************************************************)
(* The induction theorems of the library take a predicate as an argument;  *)
(* what they give is had from sets: a set of numbers that is not empty has *)
(* a least element, because inclusion is a well-founded relation between   *)
(* finite sets.                                                            *)
(***************************************************************************)
LEMMA LeastNumber ==
  ASSUME NEW S \in SUBSET Nat, S # {}
  PROVE  \E m \in S : \A k \in S : m <= k
<1> DEFINE T == {0..n : n \in S}
<1>1. T \subseteq FiniteSubsetsOf(Nat)
  <2> SUFFICES ASSUME NEW n \in S PROVE 0..n \in FiniteSubsetsOf(Nat)
    OBVIOUS
  <2> QED
    BY FS_Interval DEF FiniteSubsetsOf
<1>2. T # {}
  OBVIOUS
<1> HIDE DEF T
<1>3. PICK x \in T : \A y \in T : <<y, x>> \notin StrictSubsetOrdering(Nat)
  BY <1>1, <1>2, FS_StrictSubsetOrderingWellFounded, WFMin, Zenon
<1>4. PICK m \in S : x = 0..m
  BY <1>3 DEF T
<1>5. ASSUME NEW k \in S PROVE m <= k
  <2> SUFFICES ASSUME k < m PROVE FALSE
    OBVIOUS
  <2>1. 0..k \in T
    BY DEF T
  <2>2. 0..k \subseteq 0..m /\ m \in 0..m /\ m \notin 0..k
    OBVIOUS
  <2>3. <<0..k, x>> \in StrictSubsetOrdering(Nat)
    BY <1>4, <2>2 DEF StrictSubsetOrdering
  <2> QED
    BY <1>3, <2>1, <2>3
<1> QED
  BY <1>5

\* What holds at a and is passed on from i - 1 to i holds from a to b.
LEMMA UpTo ==
  ASSUME NEW a \in Nat, NEW b \in Nat, NEW Good \in SUBSET (a..b), a <= b => a \in Good,
         \A i \in (a + 1)..b : i - 1 \in Good => i \in Good
  PROVE  a..b \subseteq Good
<1> DEFINE Bad == (a..b) \ Good
<1> SUFFICES ASSUME Bad # {} PROVE FALSE
  OBVIOUS
<1>1. Bad \in SUBSET Nat
  OBVIOUS
<1> PICK m \in Bad : \A k \in Bad : m <= k
  BY <1>1, LeastNumber
<1>2. m \in (a + 1)..b /\ m - 1 \in a..b /\ ~(m <= m - 1)
  OBVIOUS
<1> QED
  BY <1>2
-----------------------------------------------------------------------------
(* Running sums.                                                           *)

\* What a + d[1] + ... + d[i] is for every i, by recursion on i.
IsSum(f, n, a, d) == f = [i \in 0..n |-> IF i = 0 THEN a ELSE f[i - 1] + d[i]]

\* The recursion has a solution.
LEMMA SumExists ==
  ASSUME NEW n \in Nat, NEW a, NEW d
  PROVE  \E f : IsSum(f, n, a, d)
<1> DEFINE Good == {k \in 0..n : \E f : IsSum(f, k, a, d)}
<1>1. 0 \in Good
  <2>1. IsSum([i \in 0..0 |-> a], 0, a, d)
    BY DEF IsSum
  <2> QED
    BY <2>1
<1>2. ASSUME NEW k \in (0 + 1)..n, k - 1 \in Good PROVE k \in Good
  <2> PICK f : IsSum(f, k - 1, a, d)
    BY <1>2
  <2>1. f = [i \in 0..(k - 1) |-> IF i = 0 THEN a ELSE f[i - 1] + d[i]]
    BY DEF IsSum
  <2> DEFINE g == [i \in 0..k |-> IF i = k THEN f[k - 1] + d[k] ELSE f[i]]
  <2>2. \A i \in 0..k : g[i] = IF i = 0 THEN a ELSE g[i - 1] + d[i]
    <3> SUFFICES ASSUME NEW i \in 0..k PROVE g[i] = IF i = 0 THEN a ELSE g[i - 1] + d[i]
      OBVIOUS
    <3>1. CASE i = 0
      <4>1. f[0] = a /\ 0 # k
        BY <2>1
      <4> QED
        BY <3>1, <4>1
    <3>2. CASE i = k
      <4>1. k - 1 \in 0..k /\ k - 1 # k /\ k # 0
        OBVIOUS
      <4> QED
        BY <3>2, <4>1
    <3>3. CASE i # 0 /\ i # k
      <4>1. i \in 0..(k - 1) /\ i - 1 \in 0..k /\ i - 1 # k
        BY <3>3
      <4>2. f[i] = f[i - 1] + d[i]
        BY <2>1, <3>3, <4>1
      <4> QED
        BY <3>3, <4>1, <4>2
    <3> QED
      BY <3>1, <3>2, <3>3
  <2>3. IsSum(g, k, a, d)
    BY <2>2 DEF IsSum
  <2> QED
    BY <2>3
<1>3. 0..n \subseteq Good
  <2>1. Good \in SUBSET (0..n)
    OBVIOUS
  <2> HIDE DEF Good
  <2> QED
    BY <1>1, <1>2, <2>1, UpTo
<1> QED
  BY <1>3

\* Sums of integers are integers.
LEMMA SumIsInt ==
  ASSUME NEW n \in Nat, NEW a \in Int, NEW d, \A i \in 1..n : d[i] \in Int,
         NEW f, IsSum(f, n, a, d)
  PROVE  /\ \A i \in 0..n : f[i] \in Int
         /\ f[0] = a /\ \A i \in 1..n : f[i] = f[i - 1] + d[i]
<1> DEFINE Good == {i \in 0..n : f[i] \in Int}
<1>1. f[0] = a /\ \A i \in 1..n : f[i] = f[i - 1] + d[i]
  BY DEF IsSum
<1>2. 0 \in Good
  BY <1>1
<1>3. ASSUME NEW i \in (0 + 1)..n, i - 1 \in Good PROVE i \in Good
  BY <1>1, <1>3
<1>4. 0..n \subseteq Good
  <2>1. Good \in SUBSET (0..n)
    OBVIOUS
  <2> HIDE DEF Good
  <2> QED
    BY <1>2, <1>3, <2>1, UpTo
<1> QED
  BY <1>1, <1>4
=============================================================================
