----------------------------- MODULE TimerProofs -----------------------------
(***************************************************************************)
(* Both kinds of timers are kept as differences on a list (DeltaList).      *)
(* First what an insertion, a removal and a tick do to the time at which    *)
(* each timer of such a list expires; then the wheel of the task timers,    *)
(* which implements the countdown LosTask works with, and the software      *)
(* timers, which implement TimerService.                                    *)
(***************************************************************************)
EXTENDS TimerWheel, LosSwtmr, TLAPS, WellFoundedInduction, FiniteSetTheorems, SequenceTheorems

\* A non-empty set of numbers has a least one.
LEMMA LeastNumber ==
  ASSUME NEW T, T \subseteq Nat, T # {}
  PROVE  \E p \in T : \A q \in T : p <= q
<1>1. PICK p \in T : \A q \in T : <<q, p>> \notin OpToRel(<, Nat)
  BY WFMin, NatLessThanWellFounded, Zenon
<1>2. \A q \in T : ~ (q < p)
  BY <1>1, Zenon DEF OpToRel
<1> QED BY <1>2

\* Induction up to n, on a set.
LEMMA UpTo ==
  ASSUME NEW n \in Nat, NEW S, 0 \in S, \A j \in 0 .. n : j < n /\ j \in S => j + 1 \in S
  PROVE  \A j \in 0 .. n : j \in S
<1> SUFFICES ASSUME NEW i \in 0 .. n, i \notin S PROVE FALSE
  OBVIOUS
<1> DEFINE T == {j \in 0 .. n : j \notin S}
<1>1. T \subseteq Nat /\ T # {}
  OBVIOUS
<1>2. PICK p \in T : \A q \in T : p <= q
  BY <1>1, LeastNumber
<1>3. p \in Nat /\ p # 0 /\ p <= n
  BY <1>2
<1>4. p - 1 \in 0 .. n /\ p - 1 < n /\ ~(p <= p - 1) /\ (p - 1) + 1 = p
  BY <1>3
<1>5. p - 1 \in S
  BY <1>2, <1>4
<1> QED BY <1>2, <1>4, <1>5

\* The recursion of Until has a value.
LEMMA SumIs ==
  ASSUME NEW q, NEW d, NEW n \in Nat
  PROVE  \E f : f = [j \in 0 .. n |-> IF j = 0 THEN 0 ELSE f[j - 1] + d[q[j]]]
<1> DEFINE S == {m \in 0 .. n :
                   \E f : f = [j \in 0 .. m |-> IF j = 0 THEN 0 ELSE f[j - 1] + d[q[j]]]}
<1>1. 0 \in S
  <2> DEFINE f == [j \in 0 .. 0 |-> 0]
  <2>0. \A j \in 0 .. 0 : j = 0
    OBVIOUS
  <2>1. f = [j \in 0 .. 0 |-> IF j = 0 THEN 0 ELSE f[j - 1] + d[q[j]]]
    BY <2>0, Zenon
  <2>2. 0 \in 0 .. n
    OBVIOUS
  <2> QED BY <2>1, <2>2, Zenon
<1>2. ASSUME NEW m \in 0 .. n, m < n, m \in S PROVE m + 1 \in S
  <2>1. PICK f : f = [j \in 0 .. m |-> IF j = 0 THEN 0 ELSE f[j - 1] + d[q[j]]]
    BY <1>2, Zenon
  <2> DEFINE g == [j \in 0 .. m + 1 |-> IF j <= m THEN f[j] ELSE f[m] + d[q[j]]]
  <2>2. \A j \in 0 .. m : f[j] = IF j = 0 THEN 0 ELSE f[j - 1] + d[q[j]]
    BY <2>1, Zenon
  <2>3. ASSUME NEW j \in 0 .. m + 1
        PROVE  g[j] = IF j = 0 THEN 0 ELSE g[j - 1] + d[q[j]]
    <3>1. CASE j <= m
      <4>1. j \in 0 .. m /\ (j # 0 => j - 1 \in 0 .. m + 1 /\ j - 1 <= m)
        BY <3>1
      <4>2. g[j] = f[j] /\ (j # 0 => g[j - 1] = f[j - 1])
        BY <3>1, <4>1, Zenon
      <4> QED BY <2>2, <4>1, <4>2, Zenon
    <3>2. CASE ~(j <= m)
      <4>1. j = m + 1 /\ j # 0 /\ j - 1 = m /\ m \in 0 .. m + 1 /\ m <= m
        BY <3>2
      <4>2. g[j] = f[m] + d[q[j]] /\ g[m] = f[m]
        BY <3>2, <4>1, Zenon
      <4> QED BY <4>1, <4>2, Zenon
    <3> QED BY <3>1, <3>2, Zenon
  <2>4. g = [j \in 0 .. m + 1 |-> IF j = 0 THEN 0 ELSE g[j - 1] + d[q[j]]]
    BY <2>3, Zenon
  <2> HIDE DEF g
  <2>5. \E h : h = [j \in 0 .. m + 1 |-> IF j = 0 THEN 0 ELSE h[j - 1] + d[q[j]]]
    BY <2>4, Zenon
  <2> QED BY <1>2, <2>5
<1> HIDE DEF S
<1>3. n \in S
  BY <1>1, <1>2, UpTo
<1> QED BY <1>3, Zenon DEF S

LEMMA UntilIs ==
  ASSUME NEW q, Len(q) \in Nat, NEW d
  PROVE  /\ Until(q, d, 0) = 0
         /\ \A k \in 1 .. Len(q) : Until(q, d, k) = Until(q, d, k - 1) + d[q[k]]
<1> DEFINE F == CHOOSE f : f = [j \in 0 .. Len(q) |-> IF j = 0 THEN 0 ELSE f[j - 1] + d[q[j]]]
<1>1. \E f : f = [j \in 0 .. Len(q) |-> IF j = 0 THEN 0 ELSE f[j - 1] + d[q[j]]]
  BY SumIs, Zenon
<1>2. F = [j \in 0 .. Len(q) |-> IF j = 0 THEN 0 ELSE F[j - 1] + d[q[j]]]
  BY <1>1, Zenon
<1>3. \A k : Until(q, d, k) = F[k]
  BY Zenon DEF Until
<1> HIDE DEF F
<1>4. \A j \in 0 .. Len(q) : F[j] = IF j = 0 THEN 0 ELSE F[j - 1] + d[q[j]]
  BY <1>2, Zenon
<1>5. F[0] = 0
  BY <1>4, 0 \in 0 .. Len(q), Zenon
<1>6. ASSUME NEW k \in 1 .. Len(q) PROVE F[k] = F[k - 1] + d[q[k]]
  <2>1. k \in 0 .. Len(q) /\ k # 0
    OBVIOUS
  <2> QED BY <1>4, <2>1, Zenon
<1> QED BY <1>3, <1>5, <1>6, Zenon

\* Until is the only function that adds up the counts.
LEMMA UntilUnique ==
  ASSUME NEW q, Len(q) \in Nat, NEW d, NEW f, f[0] = 0,
         \A k \in 1 .. Len(q) : f[k] = f[k - 1] + d[q[k]]
  PROVE  \A k \in 0 .. Len(q) : Until(q, d, k) = f[k]
<1> DEFINE S == {k \in 0 .. Len(q) : Until(q, d, k) = f[k]}
<1>1. 0 \in S
  BY UntilIs
<1>2. ASSUME NEW j \in 0 .. Len(q), j < Len(q), j \in S PROVE j + 1 \in S
  <2>1. j + 1 \in 1 .. Len(q) /\ (j + 1) - 1 = j /\ j + 1 \in 0 .. Len(q)
    BY <1>2
  <2>2. Until(q, d, j + 1) = Until(q, d, j) + d[q[j + 1]] /\ f[j + 1] = f[j] + d[q[j + 1]]
    BY <2>1, UntilIs
  <2> QED BY <1>2, <2>1, <2>2, Zenon
<1> HIDE DEF S
<1>3. \A k \in 0 .. Len(q) : k \in S
  BY <1>1, <1>2, UpTo
<1> QED BY <1>3 DEF S

\* A list of timers: each once, with a count.
Delta(T, q, d) == q \in Seq(T) /\ IsInjective(q) /\ d \in [T -> Nat]

LEMMA UntilNat ==
  ASSUME NEW T, NEW q, NEW d, Delta(T, q, d)
  PROVE  /\ \A k \in 0 .. Len(q) : Until(q, d, k) \in Nat
         /\ \A k \in 1 .. Len(q) : Until(q, d, k) = Until(q, d, k - 1) + d[q[k]]
         /\ \A j, k \in 0 .. Len(q) : j <= k => Until(q, d, j) <= Until(q, d, k)
         /\ Until(q, d, 0) = 0
<1>0. Len(q) \in Nat /\ \A k \in 1 .. Len(q) : d[q[k]] \in Nat
  BY DEF Delta
<1> DEFINE S == {k \in 0 .. Len(q) : Until(q, d, k) \in Nat}
<1>1. 0 \in S
  BY <1>0, UntilIs
<1>2. ASSUME NEW j \in 0 .. Len(q), j < Len(q), j \in S PROVE j + 1 \in S
  <2>1. j + 1 \in 1 .. Len(q) /\ (j + 1) - 1 = j /\ j + 1 \in 0 .. Len(q)
    BY <1>0, <1>2
  <2>2. Until(q, d, j + 1) = Until(q, d, j) + d[q[j + 1]]
    BY <1>0, <2>1, UntilIs
  <2> QED BY <1>0, <1>2, <2>1, <2>2
<1>3. \A k \in 0 .. Len(q) : k \in S
  <2> HIDE DEF S
  <2> QED BY <1>0, <1>1, <1>2, UpTo
<1>4. \A k \in 1 .. Len(q) : Until(q, d, k) = Until(q, d, k - 1) + d[q[k]]
  BY <1>0, UntilIs
<1>5. ASSUME NEW j \in 0 .. Len(q)
      PROVE  \A k \in 0 .. Len(q) : j <= k => Until(q, d, j) <= Until(q, d, k)
  <2> DEFINE R == {k \in 0 .. Len(q) : j <= k => Until(q, d, j) <= Until(q, d, k)}
  <2>1. 0 \in R
    BY <1>0, <1>3
  <2>2. ASSUME NEW k \in 0 .. Len(q), k < Len(q), k \in R PROVE k + 1 \in R
    <3>1. k + 1 \in 1 .. Len(q) /\ (k + 1) - 1 = k /\ k + 1 \in 0 .. Len(q)
      BY <1>0, <2>2
    <3>2. Until(q, d, k + 1) = Until(q, d, k) + d[q[k + 1]]
      BY <1>4, <3>1
    <3> QED BY <1>0, <1>3, <2>2, <3>1, <3>2
  <2> HIDE DEF R
  <2>3. \A k \in 0 .. Len(q) : k \in R
    BY <1>0, <2>1, <2>2, UpTo
  <2> QED BY <2>3 DEF R
<1> QED BY <1>0, <1>3, <1>4, <1>5, UntilIs

\* The walk of an insertion stops at the first timer that expires later.
LEMMA PlaceForIs ==
  ASSUME NEW T, NEW q, NEW d, Delta(T, q, d), NEW n \in Nat
  PROVE  /\ PlaceFor(q, d, n) \in 1 .. Len(q) + 1
         /\ \A j \in 0 .. Len(q) : j < PlaceFor(q, d, n) <=> Until(q, d, j) <= n
<1>0. Len(q) \in Nat /\ DOMAIN q = 1 .. Len(q)
  BY DEF Delta
<1> DEFINE R == {j \in 1 .. Len(q) + 1 : j = Len(q) + 1 \/ ~(Until(q, d, j) <= n)}
<1>1. R \subseteq Nat /\ R # {}
  <2>1. Len(q) + 1 \in R
    BY <1>0
  <2> QED BY <1>0, <2>1
<1>2. PICK p \in R : \A j \in R : p <= j
  BY <1>1, LeastNumber, Zenon
<1>3. p \in 1 .. Len(q) + 1 /\ (p = Len(q) + 1 \/ ~(Until(q, d, p) <= n))
  OBVIOUS
<1>4. \A j \in 1 .. Len(q) : j < p <=> Until(q, d, j) <= n
  <2> SUFFICES ASSUME NEW j \in 1 .. Len(q) PROVE j < p <=> Until(q, d, j) <= n
    OBVIOUS
  <2>1. Until(q, d, j) \in Nat /\ (p <= j => Until(q, d, p) <= Until(q, d, j) /\ Until(q, d, p) \in Nat)
    BY <1>0, <1>3, UntilNat
  <2>2. ~(Until(q, d, j) <= n) => p <= j
    BY <1>0, <1>2
  <2> QED BY <1>0, <1>3, <2>1, <2>2
<1>5. {j \in DOMAIN q : Until(q, d, j) <= n} = 1 .. p - 1
  BY <1>0, <1>3, <1>4
<1>6. Cardinality(1 .. p - 1) = p - 1
  <2>1. 1 \in Int /\ p - 1 \in Int /\ ~(1 > p - 1 /\ p # 1)
    BY <1>0, <1>3
  <2>2. Cardinality(1 .. p - 1) = IF 1 > p - 1 THEN 0 ELSE (p - 1) - 1 + 1
    BY <2>1, FS_Interval
  <2> QED BY <1>0, <1>3, <2>2
<1>7. PlaceFor(q, d, n) = p
  <2>1. PlaceFor(q, d, n) = Cardinality(1 .. p - 1) + 1
    BY <1>5, Zenon DEF PlaceFor
  <2> QED BY <1>0, <1>3, <1>6, <2>1
<1>8. Until(q, d, 0) = 0
  BY UntilNat
<1> QED BY <1>0, <1>3, <1>4, <1>7, <1>8

\* Every timer of the list has one place.
LEMMA PlaceOfIs ==
  ASSUME NEW T, NEW q, NEW d, Delta(T, q, d)
  PROVE  /\ \A t \in ToSet(q) : PlaceOf(q, t) \in 1 .. Len(q) /\ q[PlaceOf(q, t)] = t
         /\ \A k \in 1 .. Len(q) : PlaceOf(q, q[k]) = k /\ q[k] \in ToSet(q) /\ q[k] \in T
         /\ ToSet(q) \subseteq T /\ Len(q) \in Nat
<1>0. Len(q) \in Nat /\ DOMAIN q = 1 .. Len(q) /\ \A k \in 1 .. Len(q) : q[k] \in T
  BY DEF Delta
<1>1. ASSUME NEW t \in ToSet(q) PROVE PlaceOf(q, t) \in 1 .. Len(q) /\ q[PlaceOf(q, t)] = t
  <2>1. \E k \in DOMAIN q : q[k] = t
    BY Zenon DEF ToSet
  <2> QED BY <1>0, <2>1, Zenon DEF PlaceOf
<1>2. ASSUME NEW k \in 1 .. Len(q) PROVE PlaceOf(q, q[k]) = k /\ q[k] \in ToSet(q) /\ q[k] \in T
  <2>1. q[k] \in ToSet(q)
    BY <1>0 DEF ToSet
  <2> QED BY <1>0, <1>1, <2>1 DEF Delta, IsInjective
<1> QED BY <1>0, <1>1, <1>2 DEF ToSet

LEMMA TimeOfIs ==
  ASSUME NEW T, NEW q, NEW d, Delta(T, q, d), NEW t \in ToSet(q)
  PROVE  /\ TimeOf(q, d, t) \in Nat /\ d[t] \in Nat /\ d[t] <= TimeOf(q, d, t)
         /\ q # <<>> /\ Head(q) \in ToSet(q) /\ TimeOf(q, d, Head(q)) = d[Head(q)]
         /\ d[Head(q)] \in Nat /\ d[Head(q)] <= TimeOf(q, d, t)
<1>1. /\ PlaceOf(q, t) \in 1 .. Len(q) /\ q[PlaceOf(q, t)] = t /\ Len(q) \in Nat /\ t \in T
      /\ 1 \in 1 .. Len(q) /\ q # <<>> /\ Head(q) = q[1] /\ q[1] \in ToSet(q) /\ q[1] \in T
      /\ PlaceOf(q, q[1]) = 1
  BY PlaceOfIs DEF Delta
<1> DEFINE k == PlaceOf(q, t)
<1>2. /\ Until(q, d, k) \in Nat /\ Until(q, d, k) = Until(q, d, k - 1) + d[t]
      /\ Until(q, d, k - 1) \in Nat /\ Until(q, d, 1) <= Until(q, d, k)
      /\ Until(q, d, 1) = Until(q, d, 1 - 1) + d[q[1]] /\ Until(q, d, 0) = 0 /\ Until(q, d, 1) \in Nat
  BY <1>1, UntilNat
<1>3. d[t] \in Nat /\ d[q[1]] \in Nat
  BY <1>1 DEF Delta
<1> QED BY <1>1, <1>2, <1>3 DEF TimeOf

\* The lists of InsertAt, RemoveAt and Tail, place by place.
LEMMA InsertAtIs ==
  ASSUME NEW T, NEW q \in Seq(T), NEW t \in T, NEW k \in 1 .. Len(q) + 1
  PROVE  /\ InsertAt(q, k, t) \in Seq(T) /\ Len(InsertAt(q, k, t)) = Len(q) + 1
         /\ \A j \in 1 .. Len(q) + 1 :
              InsertAt(q, k, t)[j] = IF j < k THEN q[j] ELSE IF j = k THEN t ELSE q[j - 1]
<1> DEFINE a == SubSeq(q, 1, k - 1)
           b == SubSeq(q, k, Len(q))
           c == a \o <<t>>
<1>1. /\ Len(q) \in Nat /\ k - 1 \in Nat /\ 1 \in 1 .. Len(q) + 1 /\ k - 1 \in 0 .. Len(q)
      /\ \A j \in 1 .. Len(q) : q[j] \in T
  OBVIOUS
<1>2. a \in Seq(T) /\ Len(a) = k - 1 /\ \A j \in 1 .. k - 1 : a[j] = q[j]
  BY <1>1, SubSeqProperties
<1>3. /\ b \in Seq(T) /\ Len(b) = Len(q) - k + 1
      /\ \A j \in 1 .. Len(q) - k + 1 : b[j] = q[k + j - 1]
  <2>1. k <= Len(q) + 1 /\ Len(q) - k + 1 = (IF k <= Len(q) THEN Len(q) - k + 1 ELSE 0)
    BY <1>1
  <2>2. /\ Len(b) = IF k <= Len(q) THEN Len(q) - k + 1 ELSE 0
        /\ \A j \in 1 .. Len(q) - k + 1 : b[j] = q[k + j - 1]
    BY <1>1, SubSeqProperties
  <2>3. b \in Seq(T)
    BY <1>1
  <2> HIDE DEF b
  <2> QED BY <2>1, <2>2, <2>3
<1> HIDE DEF a, b
<1>4. /\ c \in Seq(T) /\ Len(c) = k /\ \A j \in 1 .. k : c[j] = IF j < k THEN q[j] ELSE t
  BY <1>1, <1>2
<1>5. InsertAt(q, k, t) = c \o b
  BY DEF InsertAt, a, b
<1> HIDE DEF c
<1>6. /\ c \o b \in Seq(T) /\ Len(c \o b) = Len(c) + Len(b)
      /\ \A j \in 1 .. Len(c) + Len(b) : (c \o b)[j] = IF j <= Len(c) THEN c[j] ELSE b[j - Len(c)]
  <2>1. b \in Seq(T) /\ c \in Seq(T)
    BY <1>3, <1>4
  <2> QED BY <2>1, ConcatProperties
<1>7. \A j \in 1 .. Len(q) + 1 : j > k => b[j - k] = q[j - 1]
  <2> SUFFICES ASSUME NEW j \in 1 .. Len(q) + 1, j > k PROVE b[j - k] = q[j - 1]
    OBVIOUS
  <2>1. j - k \in 1 .. Len(q) - k + 1 /\ k + (j - k) - 1 = j - 1
    BY <1>1
  <2> QED BY <1>3, <2>1
<1>8. Len(c) + Len(b) = Len(q) + 1
  BY <1>1, <1>3, <1>4
<1>9. \A j \in 1 .. Len(q) + 1 :
        (c \o b)[j] = IF j < k THEN q[j] ELSE IF j = k THEN t ELSE q[j - 1]
  <2> SUFFICES ASSUME NEW j \in 1 .. Len(q) + 1
               PROVE  (c \o b)[j] = IF j < k THEN q[j] ELSE IF j = k THEN t ELSE q[j - 1]
    OBVIOUS
  <2>1. (c \o b)[j] = IF j <= k THEN c[j] ELSE b[j - k]
    BY <1>4, <1>6, <1>8
  <2>2. CASE j <= k
    <3>1. j \in 1 .. k
      BY <1>1, <2>2
    <3> QED BY <1>1, <1>4, <2>1, <2>2, <3>1
  <2>3. CASE ~(j <= k)
    <3>1. j > k
      BY <1>1, <2>3
    <3>2. b[j - k] = q[j - 1] /\ ~(j < k) /\ j # k
      BY <1>1, <1>7, <3>1
    <3> QED BY <2>1, <2>3, <3>2, Zenon
  <2> QED BY <2>2, <2>3
<1> QED BY <1>5, <1>6, <1>8, <1>9

LEMMA RemoveAtIs ==
  ASSUME NEW T, NEW q \in Seq(T), NEW k \in 1 .. Len(q)
  PROVE  /\ RemoveAt(q, k) \in Seq(T) /\ Len(RemoveAt(q, k)) = Len(q) - 1
         /\ \A j \in 1 .. Len(q) - 1 :
              RemoveAt(q, k)[j] = IF j < k THEN q[j] ELSE q[j + 1]
<1> DEFINE a == SubSeq(q, 1, k - 1)
           b == SubSeq(q, k + 1, Len(q))
<1>1. /\ Len(q) \in Nat /\ k - 1 \in Nat /\ 1 \in 1 .. Len(q) + 1 /\ k - 1 \in 0 .. Len(q)
      /\ k + 1 \in 1 .. Len(q) + 1 /\ \A j \in 1 .. Len(q) : q[j] \in T
  OBVIOUS
<1>2. a \in Seq(T) /\ Len(a) = k - 1 /\ \A j \in 1 .. k - 1 : a[j] = q[j]
  BY <1>1, SubSeqProperties, SMTT(60)
<1>3. /\ b \in Seq(T) /\ Len(b) = Len(q) - k
      /\ \A j \in 1 .. Len(q) - k : b[j] = q[k + j]
  <2>1. /\ Len(q) - k = (IF k + 1 <= Len(q) THEN Len(q) - (k + 1) + 1 ELSE 0)
        /\ Len(q) - (k + 1) + 1 = Len(q) - k
        /\ \A j \in 1 .. Len(q) - k : (k + 1) + j - 1 = k + j
    BY <1>1
  <2>2. /\ Len(b) = IF k + 1 <= Len(q) THEN Len(q) - (k + 1) + 1 ELSE 0
        /\ \A j \in 1 .. Len(q) - (k + 1) + 1 : b[j] = q[(k + 1) + j - 1]
    BY <1>1, SubSeqProperties
  <2>3. b \in Seq(T)
    BY <1>1
  <2> HIDE DEF b
  <2> QED BY <2>1, <2>2, <2>3, Zenon
<1> HIDE DEF a, b
<1>4. RemoveAt(q, k) = a \o b
  BY DEF RemoveAt, a, b
<1>5. /\ a \o b \in Seq(T) /\ Len(a \o b) = Len(a) + Len(b)
      /\ \A j \in 1 .. Len(a) + Len(b) : (a \o b)[j] = IF j <= Len(a) THEN a[j] ELSE b[j - Len(a)]
  <2>1. a \in Seq(T) /\ b \in Seq(T)
    BY <1>2, <1>3
  <2> QED BY <2>1, ConcatProperties
<1>6. \A j \in 1 .. Len(q) - 1 : j >= k => b[j - (k - 1)] = q[j + 1]
  <2> SUFFICES ASSUME NEW j \in 1 .. Len(q) - 1, j >= k PROVE b[j - (k - 1)] = q[j + 1]
    OBVIOUS
  <2>1. j - (k - 1) \in 1 .. Len(q) - k /\ k + (j - (k - 1)) = j + 1
    BY <1>1
  <2> QED BY <1>3, <2>1
<1>7. Len(a) + Len(b) = Len(q) - 1
  BY <1>1, <1>2, <1>3
<1>8. \A j \in 1 .. Len(q) - 1 : (a \o b)[j] = IF j < k THEN q[j] ELSE q[j + 1]
  <2> SUFFICES ASSUME NEW j \in 1 .. Len(q) - 1
               PROVE  (a \o b)[j] = IF j < k THEN q[j] ELSE q[j + 1]
    OBVIOUS
  <2>1. (a \o b)[j] = IF j <= k - 1 THEN a[j] ELSE b[j - (k - 1)]
    BY <1>2, <1>5, <1>7
  <2>2. (j <= k - 1 <=> j < k) /\ (j < k => j \in 1 .. k - 1)
    BY <1>1
  <2> QED BY <1>1, <1>2, <1>6, <2>1, <2>2
<1> QED BY <1>4, <1>5, <1>7, <1>8

LEMMA DeltaNodes ==
  ASSUME NEW T, NEW q, NEW d, Delta(T, q, d)
  PROVE  /\ q \in Seq(T) /\ Len(q) \in Nat /\ DOMAIN q = 1 .. Len(q)
         /\ \A k \in 1 .. Len(q) : q[k] \in T /\ q[k] \in ToSet(q) /\ d[q[k]] \in Nat
         /\ \A j, k \in 1 .. Len(q) : q[j] = q[k] => j = k
         /\ \A t \in ToSet(q) : \E k \in 1 .. Len(q) : q[k] = t
         /\ ToSet(q) \subseteq T
<1>1. q \in Seq(T) /\ Len(q) \in Nat /\ DOMAIN q = 1 .. Len(q) /\ \A k \in 1 .. Len(q) : q[k] \in T
  BY DEF Delta
<1> QED BY <1>1 DEF Delta, IsInjective, ToSet

\* What an insertion does to the counts.
Inserted(q, d, t, n, e) ==
  LET k == PlaceFor(q, d, n)
  IN  /\ e[t] = n - Until(q, d, k - 1)
      /\ k <= Len(q) => e[q[k]] = Until(q, d, k) - n
      /\ \A u \in ToSet(q) : (k > Len(q) \/ u # q[k]) => e[u] = d[u]

\* A timer inserted for n expires after n, and the others when they would have.
LEMMA InsertKeepsTimes ==
  ASSUME NEW T, NEW q, NEW d, Delta(T, q, d), NEW t \in T \ ToSet(q), NEW n \in Nat,
         NEW e \in [T -> Int], Inserted(q, d, t, n, e),
         NEW r, r = InsertAt(q, PlaceFor(q, d, n), t),
         \A u \in T \ (ToSet(q) \cup {t}) : e[u] = d[u]
  PROVE  /\ Delta(T, r, e) /\ ToSet(r) = ToSet(q) \cup {t}
         /\ TimeOf(r, e, t) = n
         /\ \A u \in ToSet(q) : TimeOf(r, e, u) = TimeOf(q, d, u)
<1> DEFINE k == PlaceFor(q, d, n)
           U(j) == Until(q, d, j)
<1>1. /\ k \in 1 .. Len(q) + 1 /\ Len(q) \in Nat
      /\ \A j \in 0 .. Len(q) : j < k <=> U(j) <= n
  BY PlaceForIs, DeltaNodes
<1>2. /\ \A j \in 0 .. Len(q) : U(j) \in Nat
      /\ \A j \in 1 .. Len(q) : U(j) = U(j - 1) + d[q[j]]
      /\ U(0) = 0
  BY UntilNat
<1>0. k \in 1 .. Len(q) + 1 /\ Len(q) \in Nat /\ q \in Seq(T) /\ t \in T /\ r = InsertAt(q, k, t)
  BY <1>1 DEF Delta
<1> HIDE DEF k, U
<1>3. /\ r \in Seq(T) /\ Len(r) = Len(q) + 1
      /\ \A i \in 1 .. Len(q) + 1 : r[i] = IF i < k THEN q[i] ELSE IF i = k THEN t ELSE q[i - 1]
  <2>1. /\ InsertAt(q, k, t) \in Seq(T) /\ Len(InsertAt(q, k, t)) = Len(q) + 1
        /\ \A i \in 1 .. Len(q) + 1 :
             InsertAt(q, k, t)[i] = IF i < k THEN q[i] ELSE IF i = k THEN t ELSE q[i - 1]
    <3>1. q \in Seq(T)
      BY <1>0
    <3>2. t \in T
      BY <1>0
    <3>3. k \in 1 .. Len(q) + 1
      BY <1>0
    <3> QED BY <3>1, <3>2, <3>3, InsertAtIs, SMTT(60)
  <2> QED BY <1>0, <2>1, Zenon
\* The places of r are that of t and those of q.
<1>p. /\ DOMAIN r = 1 .. Len(q) + 1 /\ k \in DOMAIN r /\ r[k] = t
      /\ \A j \in 1 .. Len(q) :
           /\ j < k => j \in DOMAIN r /\ r[j] = q[j]
           /\ j >= k => j + 1 \in DOMAIN r /\ r[j + 1] = q[j]
  <2>1. DOMAIN r = 1 .. Len(q) + 1 /\ k \in DOMAIN r /\ r[k] = t
    BY <1>0, <1>3
  <2>2. ASSUME NEW j \in 1 .. Len(q), j < k PROVE j \in DOMAIN r /\ r[j] = q[j]
    <3>1. j \in 1 .. Len(q) + 1
      BY <1>0
    <3> QED BY <1>3, <2>1, <2>2, <3>1
  <2>3. ASSUME NEW j \in 1 .. Len(q), j >= k PROVE j + 1 \in DOMAIN r /\ r[j + 1] = q[j]
    <3>1. j + 1 \in 1 .. Len(q) + 1 /\ ~(j + 1 < k) /\ j + 1 # k /\ (j + 1) - 1 = j
      BY <1>0, <2>3
    <3> QED BY <1>3, <2>1, <3>1
  <2> QED BY <2>1, <2>2, <2>3
<1>w. \A i \in DOMAIN r : i = k \/ \E j \in 1 .. Len(q) : (j < k /\ i = j) \/ (j >= k /\ i = j + 1)
  <2> SUFFICES ASSUME NEW i \in 1 .. Len(q) + 1, i # k
               PROVE  \E j \in 1 .. Len(q) : (j < k /\ i = j) \/ (j >= k /\ i = j + 1)
    BY <1>p
  <2>1. CASE i < k
    <3>1. i \in 1 .. Len(q)
      BY <1>0, <2>1
    <3> QED BY <2>1, <3>1
  <2>2. CASE ~(i < k)
    <3>1. i - 1 \in 1 .. Len(q) /\ i - 1 >= k /\ i = (i - 1) + 1
      BY <1>0, <2>2
    <3> QED BY <3>1
  <2> QED BY <2>1, <2>2
<1>4. /\ \A j \in 1 .. Len(q) : q[j] \in T /\ q[j] \in ToSet(q) /\ q[j] # t /\ d[q[j]] \in Nat
      /\ \A i, j \in 1 .. Len(q) : q[i] = q[j] => i = j
  BY DeltaNodes
<1>5. /\ e[t] = n - U(k - 1)
      /\ k <= Len(q) => e[q[k]] = U(k) - n
      /\ \A j \in 1 .. Len(q) : j # k => e[q[j]] = d[q[j]]
  <2>1. \A j \in 1 .. Len(q) : j # k => k > Len(q) \/ q[j] # q[k]
    BY <1>1, <1>4
  <2> QED BY <1>4, <2>1 DEF Inserted, k, U
<1>6. k - 1 \in 0 .. Len(q) /\ U(k - 1) \in Nat /\ U(k - 1) <= n
  BY <1>1, <1>2
<1>7. k <= Len(q) => k \in 1 .. Len(q) /\ U(k) \in Nat /\ U(k) > n
  BY <1>1, <1>2
<1>8. \A u \in T : e[u] \in Nat
  <2> SUFFICES ASSUME NEW u \in T PROVE e[u] \in Nat
    OBVIOUS
  <2>1. CASE u = t
    BY <1>5, <1>6, <2>1
  <2>2. CASE u \in ToSet(q)
    <3>1. PICK j \in 1 .. Len(q) : q[j] = u
      BY <2>2, DeltaNodes
    <3> QED BY <1>1, <1>4, <1>5, <1>7, <3>1
  <2>3. CASE u \notin ToSet(q) \cup {t}
    BY <2>3 DEF Delta
  <2> QED BY <2>1, <2>2, <2>3
<1>9. \A i, j \in DOMAIN r : r[i] = r[j] => i = j
  <2> SUFFICES ASSUME NEW i \in DOMAIN r, NEW j \in DOMAIN r, r[i] = r[j] PROVE i = j
    OBVIOUS
  <2>0. ASSUME NEW a \in DOMAIN r, a # k PROVE r[a] # t
    <3>1. PICK b \in 1 .. Len(q) : (b < k /\ a = b) \/ (b >= k /\ a = b + 1)
      BY <1>w, <2>0
    <3>2. r[a] = q[b]
      BY <1>p, <3>1
    <3> QED BY <1>4, <3>2
  <2>1. CASE i = k
    BY <1>p, <2>0, <2>1, Zenon
  <2>2. CASE j = k
    BY <1>p, <2>0, <2>2, Zenon
  <2>3. CASE i # k /\ j # k
    <3>1. PICK a \in 1 .. Len(q) : (a < k /\ i = a) \/ (a >= k /\ i = a + 1)
      BY <1>w, <2>3
    <3>2. PICK b \in 1 .. Len(q) : (b < k /\ j = b) \/ (b >= k /\ j = b + 1)
      BY <1>w, <2>3
    <3>3. r[i] = q[a] /\ r[j] = q[b]
      BY <1>p, <3>1, <3>2
    <3>4. a = b
      BY <1>4, <3>3
    <3> QED BY <1>0, <3>1, <3>2, <3>4
  <2> QED BY <2>1, <2>2, <2>3
<1>10. Delta(T, r, e)
  BY <1>3, <1>8, <1>9 DEF Delta, IsInjective
<1>11. ToSet(r) = ToSet(q) \cup {t}
  <2>1. ASSUME NEW x \in ToSet(r) PROVE x \in ToSet(q) \cup {t}
    <3>1. PICK i \in DOMAIN r : r[i] = x
      BY Zenon DEF ToSet
    <3>2. CASE i = k
      BY <1>p, <3>1, <3>2
    <3>3. CASE i # k
      <4>1. PICK j \in 1 .. Len(q) : (j < k /\ i = j) \/ (j >= k /\ i = j + 1)
        BY <1>w, <3>3
      <4>2. r[i] = q[j]
        BY <1>p, <4>1
      <4> QED BY <1>4, <3>1, <4>2
    <3> QED BY <3>2, <3>3
  <2>2. ASSUME NEW x \in ToSet(q) PROVE x \in ToSet(r)
    <3>1. PICK j \in 1 .. Len(q) : q[j] = x
      BY DeltaNodes
    <3>2. j < k \/ j >= k
      BY <1>0
    <3>3. \E i \in DOMAIN r : r[i] = x
      BY <1>p, <3>1, <3>2
    <3> QED BY <3>3, Zenon DEF ToSet
  <2>3. t \in ToSet(r)
    BY <1>p, Zenon DEF ToSet
  <2> QED BY <2>1, <2>2, <2>3
<1> DEFINE f == [j \in 0 .. Len(q) + 1 |-> IF j < k THEN U(j) ELSE IF j = k THEN n ELSE U(j - 1)]
<1>f. \A j \in 0 .. Len(q) + 1 : f[j] = IF j < k THEN U(j) ELSE IF j = k THEN n ELSE U(j - 1)
  OBVIOUS
<1> HIDE DEF f
<1>g. /\ f[k] = n /\ f[0] = 0
      /\ \A j \in 0 .. Len(q) : (j < k => f[j] = U(j)) /\ (j >= k => f[j + 1] = U(j))
  <2>1. k \in 0 .. Len(q) + 1 /\ ~(k < k) /\ 0 \in 0 .. Len(q) + 1 /\ 0 < k
    BY <1>0
  <2>2. ASSUME NEW j \in 0 .. Len(q), j < k PROVE f[j] = U(j)
    <3>1. j \in 0 .. Len(q) + 1
      BY <1>0
    <3> QED BY <1>f, <2>2, <3>1
  <2>3. ASSUME NEW j \in 0 .. Len(q), j >= k PROVE f[j + 1] = U(j)
    <3>1. j + 1 \in 0 .. Len(q) + 1 /\ ~(j + 1 < k) /\ j + 1 # k /\ (j + 1) - 1 = j
      BY <1>0, <2>3
    <3> QED BY <1>f, <3>1
  <2> QED BY <1>2, <1>f, <2>1, <2>2, <2>3
<1>12. \A i \in 0 .. Len(r) : Until(r, e, i) = f[i]
  <2>1. ASSUME NEW i \in 1 .. Len(r) PROVE f[i] = f[i - 1] + e[r[i]]
    <3>0. i \in DOMAIN r
      BY <1>3, <1>p
    <3>1. CASE i = k
      <4>1. k - 1 < k /\ f[k - 1] = U(k - 1)
        BY <1>0, <1>6, <1>g
      <4> QED BY <1>5, <1>6, <1>p, <1>g, <3>1, <4>1
    <3>2. CASE i # k
      <4>1. PICK j \in 1 .. Len(q) : (j < k /\ i = j) \/ (j >= k /\ i = j + 1)
        BY <1>w, <3>0, <3>2
      <4>2. j - 1 \in 0 .. Len(q) /\ j \in 0 .. Len(q) /\ U(j) = U(j - 1) + d[q[j]] /\ U(j) \in Nat
        BY <1>0, <1>2
      <4>3. r[i] = q[j] /\ f[i] = U(j)
        BY <1>p, <1>g, <4>1, <4>2
      <4>4. CASE j = k
        <5>1. f[i - 1] = n /\ e[r[i]] = U(j) - n
          BY <1>0, <1>5, <1>g, <4>1, <4>3, <4>4
        <5> QED BY <4>2, <4>3, <5>1
      <4>5. CASE j # k
        <5>1. e[r[i]] = d[q[j]]
          BY <1>5, <4>3, <4>5
        <5>2. f[i - 1] = U(j - 1)
          <6>1. CASE j < k
            <7>1. j - 1 < k /\ i - 1 = j - 1
              BY <1>0, <4>1, <6>1
            <7> QED BY <1>g, <4>2, <7>1
          <6>2. CASE j > k
            <7>1. j - 1 >= k /\ i - 1 = (j - 1) + 1
              BY <1>0, <4>1, <6>2
            <7> QED BY <1>g, <4>2, <7>1
          <6> QED BY <1>0, <4>5, <6>1, <6>2
        <5> QED BY <4>2, <4>3, <5>1, <5>2
      <4> QED BY <4>4, <4>5
    <3> QED BY <3>1, <3>2
  <2>2. Len(r) \in Nat /\ f[0] = 0 /\ \A i \in 1 .. Len(r) : f[i] = f[i - 1] + e[r[i]]
    BY <1>0, <1>3, <1>g, <2>1
  <2> QED BY <2>2, UntilUnique, SMTT(60)
<1>13. TimeOf(r, e, t) = n
  <2>1. k \in 1 .. Len(r) /\ k \in 0 .. Len(r)
    BY <1>0, <1>3
  <2>2. PlaceOf(r, t) = k
    BY <1>10, <1>p, <2>1, PlaceOfIs
  <2> QED BY <1>12, <1>g, <2>1, <2>2 DEF TimeOf
<1>14. ASSUME NEW u \in ToSet(q) PROVE TimeOf(r, e, u) = TimeOf(q, d, u)
  <2>1. PICK j \in 1 .. Len(q) : q[j] = u /\ PlaceOf(q, u) = j
    BY PlaceOfIs
  <2>2. TimeOf(q, d, u) = U(j) /\ j \in 0 .. Len(q)
    BY <1>0, <2>1 DEF TimeOf, U
  <2>3. PICK i \in DOMAIN r : r[i] = u /\ f[i] = U(j)
    <3>1. j < k \/ j >= k
      BY <1>0
    <3> QED BY <1>p, <1>g, <2>1, <2>2, <3>1
  <2>4. i \in 1 .. Len(r) /\ i \in 0 .. Len(r)
    BY <1>0, <1>3, <1>p
  <2>5. PlaceOf(r, u) = i
    BY <1>10, <2>3, <2>4, PlaceOfIs
  <2> QED BY <1>12, <2>2, <2>3, <2>4, <2>5 DEF TimeOf
<1> QED BY <1>10, <1>11, <1>13, <1>14

\* The counts of a list matter, and no others.
LEMMA SameTimes ==
  ASSUME NEW T, NEW q, NEW d, Delta(T, q, d), NEW e \in [T -> Nat],
         \A u \in ToSet(q) : e[u] = d[u]
  PROVE  /\ Delta(T, q, e)
         /\ \A j \in 0 .. Len(q) : Until(q, e, j) = Until(q, d, j)
         /\ \A n \in Nat : PlaceFor(q, e, n) = PlaceFor(q, d, n)
         /\ \A u \in ToSet(q) : TimeOf(q, e, u) = TimeOf(q, d, u)
<1>1. Delta(T, q, e)
  BY DEF Delta
<1>2. Len(q) \in Nat /\ DOMAIN q = 1 .. Len(q) /\ \A j \in 1 .. Len(q) : e[q[j]] = d[q[j]]
  BY DeltaNodes
<1> DEFINE f == [j \in 0 .. Len(q) |-> Until(q, d, j)]
<1>3. \A j \in 0 .. Len(q) : f[j] = Until(q, d, j)
  BY Zenon
<1> HIDE DEF f
<1>4. f[0] = 0
  BY <1>2, <1>3, UntilNat
<1>5. ASSUME NEW j \in 1 .. Len(q) PROVE f[j] = f[j - 1] + e[q[j]]
  <2>1. j \in 0 .. Len(q) /\ j - 1 \in 0 .. Len(q)
    BY <1>2
  <2>2. Until(q, d, j) = Until(q, d, j - 1) + d[q[j]]
    BY UntilNat
  <2> QED BY <1>2, <1>3, <2>1, <2>2, Zenon
<1>6. \A j \in 0 .. Len(q) : Until(q, e, j) = f[j]
  BY <1>2, <1>4, <1>5, UntilUnique, SMTT(60)
<1>7. \A j \in 0 .. Len(q) : Until(q, e, j) = Until(q, d, j)
  BY <1>3, <1>6, Zenon
<1>8. ASSUME NEW n \in Nat PROVE PlaceFor(q, e, n) = PlaceFor(q, d, n)
  <2>1. \A j \in DOMAIN q : Until(q, e, j) = Until(q, d, j)
    BY <1>2, <1>7
  <2>2. {j \in DOMAIN q : Until(q, e, j) <= n} = {j \in DOMAIN q : Until(q, d, j) <= n}
    BY <2>1
  <2> QED BY <2>2, Zenon DEF PlaceFor
<1>9. ASSUME NEW u \in ToSet(q) PROVE TimeOf(q, e, u) = TimeOf(q, d, u)
  <2>1. PlaceOf(q, u) \in 0 .. Len(q)
    BY <1>2, PlaceOfIs
  <2> QED BY <1>7, <2>1, Zenon DEF TimeOf
<1> QED BY <1>1, <1>7, <1>8, <1>9

\* What a removal does to the counts.
Removed(q, d, t, e) ==
  LET k == PlaceOf(q, t)
  IN  /\ k < Len(q) => e[q[k + 1]] = d[q[k + 1]] + d[t]
      /\ \A u \in ToSet(q) \ {t} : (k = Len(q) \/ u # q[k + 1]) => e[u] = d[u]

\* A removal changes the time of no other timer.
LEMMA RemoveKeepsTimes ==
  ASSUME NEW T, NEW q, NEW d, Delta(T, q, d), NEW t \in ToSet(q),
         NEW e \in [T -> Nat], Removed(q, d, t, e),
         NEW r, r = RemoveAt(q, PlaceOf(q, t))
  PROVE  /\ Delta(T, r, e) /\ ToSet(r) = ToSet(q) \ {t}
         /\ \A u \in ToSet(r) : TimeOf(r, e, u) = TimeOf(q, d, u)
<1> DEFINE k == PlaceOf(q, t)
           U(j) == Until(q, d, j)
<1>1. /\ k \in 1 .. Len(q) /\ Len(q) \in Nat /\ q[k] = t /\ q \in Seq(T)
      /\ r = RemoveAt(q, k)
  BY PlaceOfIs DEF Delta
<1>2. /\ \A j \in 0 .. Len(q) : U(j) \in Nat
      /\ \A j \in 1 .. Len(q) : U(j) = U(j - 1) + d[q[j]]
      /\ U(0) = 0
  BY UntilNat
<1>3. /\ \A j \in 1 .. Len(q) : q[j] \in T /\ q[j] \in ToSet(q) /\ d[q[j]] \in Nat
      /\ \A i, j \in 1 .. Len(q) : q[i] = q[j] => i = j
  BY DeltaNodes
<1> HIDE DEF k, U
<1>4. /\ r \in Seq(T) /\ Len(r) = Len(q) - 1
      /\ \A i \in 1 .. Len(q) - 1 : r[i] = IF i < k THEN q[i] ELSE q[i + 1]
  <2>1. /\ RemoveAt(q, k) \in Seq(T) /\ Len(RemoveAt(q, k)) = Len(q) - 1
        /\ \A i \in 1 .. Len(q) - 1 : RemoveAt(q, k)[i] = IF i < k THEN q[i] ELSE q[i + 1]
    <3>1. q \in Seq(T)
      BY <1>1
    <3>2. k \in 1 .. Len(q)
      BY <1>1
    <3> QED BY <3>1, <3>2, RemoveAtIs, SMTT(60)
  <2> QED BY <1>1, <2>1, Zenon
\* The places of r are those of q but for k.
<1>p. /\ DOMAIN r = 1 .. Len(q) - 1
      /\ \A j \in 1 .. Len(q) :
           /\ j < k => j \in DOMAIN r /\ r[j] = q[j]
           /\ j > k => j - 1 \in DOMAIN r /\ r[j - 1] = q[j]
  <2>1. DOMAIN r = 1 .. Len(q) - 1
    BY <1>1, <1>4
  <2>2. ASSUME NEW j \in 1 .. Len(q), j < k PROVE j \in DOMAIN r /\ r[j] = q[j]
    <3>1. j \in 1 .. Len(q) - 1
      BY <1>1, <2>2
    <3> QED BY <1>4, <2>1, <2>2, <3>1
  <2>3. ASSUME NEW j \in 1 .. Len(q), j > k PROVE j - 1 \in DOMAIN r /\ r[j - 1] = q[j]
    <3>1. j - 1 \in 1 .. Len(q) - 1 /\ ~(j - 1 < k) /\ (j - 1) + 1 = j
      BY <1>1, <2>3
    <3> QED BY <1>4, <2>1, <3>1
  <2> QED BY <2>1, <2>2, <2>3
<1>w. \A i \in DOMAIN r : \E j \in 1 .. Len(q) : (j < k /\ i = j) \/ (j > k /\ i = j - 1)
  <2> SUFFICES ASSUME NEW i \in 1 .. Len(q) - 1
               PROVE  \E j \in 1 .. Len(q) : (j < k /\ i = j) \/ (j > k /\ i = j - 1)
    BY <1>p
  <2>1. CASE i < k
    <3>1. i \in 1 .. Len(q)
      BY <1>1, <2>1
    <3> QED BY <2>1, <3>1
  <2>2. CASE ~(i < k)
    <3>1. i + 1 \in 1 .. Len(q) /\ i + 1 > k /\ i = (i + 1) - 1
      BY <1>1, <2>2
    <3> QED BY <3>1
  <2> QED BY <2>1, <2>2
<1>5. /\ k < Len(q) => e[q[k + 1]] = d[q[k + 1]] + d[t]
      /\ \A j \in 1 .. Len(q) : j # k /\ j # k + 1 => e[q[j]] = d[q[j]]
  <2>1. ASSUME NEW j \in 1 .. Len(q), j # k, j # k + 1
        PROVE  q[j] \in ToSet(q) \ {t} /\ (k = Len(q) \/ q[j] # q[k + 1])
    <3>1. q[j] # t
      BY <1>1, <1>3, <2>1
    <3>2. k = Len(q) \/ k + 1 \in 1 .. Len(q)
      BY <1>1
    <3> QED BY <1>3, <2>1, <3>1, <3>2
  <2> QED BY <2>1 DEF Removed, k
<1>9. \A i, j \in DOMAIN r : r[i] = r[j] => i = j
  <2> SUFFICES ASSUME NEW i \in DOMAIN r, NEW j \in DOMAIN r, r[i] = r[j] PROVE i = j
    OBVIOUS
  <2>1. PICK a \in 1 .. Len(q) : (a < k /\ i = a) \/ (a > k /\ i = a - 1)
    BY <1>w
  <2>2. PICK b \in 1 .. Len(q) : (b < k /\ j = b) \/ (b > k /\ j = b - 1)
    BY <1>w
  <2>3. r[i] = q[a] /\ r[j] = q[b]
    BY <1>p, <2>1, <2>2
  <2>4. a = b
    BY <1>3, <2>3
  <2> QED BY <1>1, <2>1, <2>2, <2>4
<1>10. Delta(T, r, e)
  BY <1>4, <1>9 DEF Delta, IsInjective
<1>11. ToSet(r) = ToSet(q) \ {t}
  <2>1. ASSUME NEW x \in ToSet(r) PROVE x \in ToSet(q) \ {t}
    <3>1. PICK i \in DOMAIN r : r[i] = x
      BY Zenon DEF ToSet
    <3>2. PICK j \in 1 .. Len(q) : (j < k /\ i = j) \/ (j > k /\ i = j - 1)
      BY <1>w
    <3>3. r[i] = q[j]
      BY <1>p, <3>2
    <3>4. q[j] # q[k]
      BY <1>1, <1>3, <3>2
    <3> QED BY <1>1, <1>3, <3>1, <3>3, <3>4
  <2>2. ASSUME NEW x \in ToSet(q), x # t PROVE x \in ToSet(r)
    <3>1. PICK j \in 1 .. Len(q) : q[j] = x
      BY DeltaNodes
    <3>2. j < k \/ j > k
      BY <1>1, <2>2, <3>1
    <3>3. \E i \in DOMAIN r : r[i] = x
      BY <1>p, <3>1, <3>2
    <3> QED BY <3>3, Zenon DEF ToSet
  <2> QED BY <2>1, <2>2
<1> DEFINE f == [i \in 0 .. Len(q) - 1 |-> IF i < k THEN U(i) ELSE U(i + 1)]
<1>f. \A i \in 0 .. Len(q) - 1 : f[i] = IF i < k THEN U(i) ELSE U(i + 1)
  OBVIOUS
<1> HIDE DEF f
<1>g. /\ f[0] = 0
      /\ \A j \in 0 .. Len(q) : (j < k => f[j] = U(j)) /\ (j > k => f[j - 1] = U(j))
  <2>1. 0 \in 0 .. Len(q) /\ 0 < k
    BY <1>1
  <2>2. ASSUME NEW j \in 0 .. Len(q), j < k PROVE f[j] = U(j)
    <3>1. j \in 0 .. Len(q) - 1
      BY <1>1, <2>2
    <3> QED BY <1>f, <2>2, <3>1
  <2>3. ASSUME NEW j \in 0 .. Len(q), j > k PROVE f[j - 1] = U(j)
    <3>1. j - 1 \in 0 .. Len(q) - 1 /\ ~(j - 1 < k) /\ (j - 1) + 1 = j
      BY <1>1, <2>3
    <3> QED BY <1>f, <3>1
  <2> QED BY <1>2, <2>1, <2>2, <2>3
<1>12. \A i \in 0 .. Len(r) : Until(r, e, i) = f[i]
  <2>1. ASSUME NEW i \in 1 .. Len(r) PROVE f[i] = f[i - 1] + e[r[i]]
    <3>0. i \in DOMAIN r
      BY <1>4, <1>p
    <3>1. PICK j \in 1 .. Len(q) : (j < k /\ i = j) \/ (j > k /\ i = j - 1)
      BY <1>w, <3>0
    <3>2. j - 1 \in 0 .. Len(q) /\ j \in 0 .. Len(q) /\ U(j) = U(j - 1) + d[q[j]] /\ d[q[j]] \in Nat
      BY <1>1, <1>2, <1>3
    <3>3. r[i] = q[j] /\ f[i] = U(j)
      BY <1>p, <1>g, <3>1, <3>2
    <3>4. CASE j = k + 1
      <4>1. /\ k - 1 \in 0 .. Len(q) /\ U(k) = U(k - 1) + d[q[k]] /\ U(k - 1) \in Nat
            /\ d[q[k]] \in Nat /\ k - 1 < k /\ k < Len(q)
        BY <1>1, <1>2, <1>3, <3>4
      <4>2. f[i - 1] = U(k - 1)
        BY <1>1, <1>g, <3>1, <3>4, <4>1, SMTT(60)
      <4>3. e[r[i]] = d[q[j]] + d[q[k]] /\ U(j - 1) = U(k)
        BY <1>1, <1>5, <3>3, <3>4, <4>1, SMTT(60)
      <4> QED BY <3>2, <3>3, <4>1, <4>2, <4>3, SMTT(60)
    <3>5. CASE j # k + 1
      <4>1. e[r[i]] = d[q[j]]
        BY <1>1, <1>5, <3>1, <3>3, <3>5
      <4>2. f[i - 1] = U(j - 1)
        <5>1. CASE j < k
          <6>1. j - 1 < k /\ i - 1 = j - 1
            BY <1>1, <3>1, <5>1
          <6> QED BY <1>g, <3>2, <6>1
        <5>2. CASE j > k
          <6>1. j - 1 > k /\ i - 1 = (j - 1) - 1
            BY <1>1, <3>1, <3>5, <5>2
          <6> QED BY <1>g, <3>2, <6>1
        <5> QED BY <3>1, <5>1, <5>2
      <4> QED BY <3>2, <3>3, <4>1, <4>2
    <3> QED BY <3>4, <3>5
  <2>2. Len(r) \in Nat /\ f[0] = 0 /\ \A i \in 1 .. Len(r) : f[i] = f[i - 1] + e[r[i]]
    BY <1>1, <1>4, <1>g, <2>1
  <2> QED BY <2>2, UntilUnique, SMTT(60)
<1>14. ASSUME NEW u \in ToSet(r) PROVE TimeOf(r, e, u) = TimeOf(q, d, u)
  <2>1. PICK j \in 1 .. Len(q) : q[j] = u /\ PlaceOf(q, u) = j
    BY <1>11, PlaceOfIs
  <2>2. TimeOf(q, d, u) = U(j) /\ j \in 0 .. Len(q)
    BY <1>1, <2>1 DEF TimeOf, U
  <2>3. PICK i \in DOMAIN r : r[i] = u /\ f[i] = U(j)
    <3>1. j < k \/ j > k
      BY <1>1, <1>11, <2>1
    <3> QED BY <1>p, <1>g, <2>1, <2>2, <3>1
  <2>4. i \in 1 .. Len(r) /\ i \in 0 .. Len(r)
    BY <1>1, <1>4, <1>p
  <2>5. PlaceOf(r, u) = i
    BY <1>10, <2>3, <2>4, PlaceOfIs
  <2> QED BY <1>12, <2>2, <2>3, <2>4, <2>5 DEF TimeOf
<1> QED BY <1>10, <1>11, <1>14

\* The first timer of a list leaves it when nothing is left of its count.
Popped(T, q, d) ==
  /\ Delta(T, Tail(q), d) /\ ToSet(Tail(q)) = ToSet(q) \ {Head(q)}
  /\ Head(q) \in ToSet(q) /\ TimeOf(q, d, Head(q)) = 0
  /\ \A u \in ToSet(Tail(q)) : TimeOf(Tail(q), d, u) = TimeOf(q, d, u)

LEMMA TailKeepsTimes ==
  ASSUME NEW T, NEW q, NEW d, Delta(T, q, d), q # <<>>, d[Head(q)] = 0
  PROVE  Popped(T, q, d)
<1>1. /\ q \in Seq(T) /\ Len(q) \in Nat /\ 1 \in 1 .. Len(q) /\ Head(q) = q[1]
      /\ d \in [T -> Nat]
  BY DEF Delta
<1>2. Head(q) \in ToSet(q) /\ PlaceOf(q, Head(q)) = 1 /\ Head(q) \in T
  BY <1>1, PlaceOfIs
<1>3. TimeOf(q, d, Head(q)) = 0
  BY <1>2, TimeOfIs
<1>4. Tail(q) = RemoveAt(q, 1)
  <2>1. /\ RemoveAt(q, 1) \in Seq(T) /\ Len(RemoveAt(q, 1)) = Len(q) - 1
        /\ \A j \in 1 .. Len(q) - 1 : RemoveAt(q, 1)[j] = IF j < 1 THEN q[j] ELSE q[j + 1]
    <3>1. q \in Seq(T)
      BY <1>1
    <3>2. 1 \in 1 .. Len(q)
      BY <1>1
    <3> QED BY <3>1, <3>2, RemoveAtIs, SMTT(60)
  <2>2. /\ Tail(q) \in Seq(T) /\ Len(Tail(q)) = Len(q) - 1
        /\ \A j \in 1 .. Len(q) - 1 : Tail(q)[j] = q[j + 1]
    BY <1>1
  <2>3. \A j \in 1 .. Len(q) - 1 : RemoveAt(q, 1)[j] = q[j + 1]
    BY <1>1, <2>1
  <2> QED BY <2>1, <2>2, <2>3, SeqEqual, SMTT(60)
<1>5. Removed(q, d, Head(q), d)
  <2>1. 1 < Len(q) => 1 + 1 \in 1 .. Len(q) /\ q[1 + 1] \in T
    BY <1>1
  <2>2. 1 < Len(q) => d[q[1 + 1]] = d[q[1 + 1]] + d[Head(q)]
    BY <1>1, <2>1
  <2> QED BY <1>2, <2>2, Zenon DEF Removed
<1>6. /\ Delta(T, Tail(q), d) /\ ToSet(Tail(q)) = ToSet(q) \ {Head(q)}
      /\ \A u \in ToSet(Tail(q)) : TimeOf(Tail(q), d, u) = TimeOf(q, d, u)
  <2>1. Tail(q) = RemoveAt(q, PlaceOf(q, Head(q)))
    BY <1>2, <1>4, Zenon
  <2> DEFINE t == Head(q)
             r == Tail(q)
  <2>2. t \in ToSet(q) /\ d \in [T -> Nat] /\ Removed(q, d, t, d) /\ r = RemoveAt(q, PlaceOf(q, t))
    BY <1>1, <1>2, <1>5, <2>1, Zenon
  <2> HIDE DEF t, r
  <2>3. /\ Delta(T, r, d) /\ ToSet(r) = ToSet(q) \ {t}
        /\ \A u \in ToSet(r) : TimeOf(r, d, u) = TimeOf(q, d, u)
    BY <2>2, RemoveKeepsTimes, SMTT(60)
  <2> QED BY <2>3 DEF t, r
<1> QED BY <1>2, <1>3, <1>6, Zenon DEF Popped

\* To count the first timer down counts all of them down.
LEMMA HeadCountsAll ==
  ASSUME NEW T, NEW q, NEW d, Delta(T, q, d), q # <<>>, d[Head(q)] > 0,
         NEW e \in [T -> Int], e[Head(q)] = d[Head(q)] - 1,
         \A u \in T \ {Head(q)} : e[u] = d[u]
  PROVE  /\ Delta(T, q, e) /\ Head(q) \in ToSet(q) /\ d[Head(q)] \in Nat
         /\ \A u \in ToSet(q) : /\ TimeOf(q, d, u) \in Nat /\ TimeOf(q, d, u) > 0
                                /\ TimeOf(q, e, u) = TimeOf(q, d, u) - 1
<1>1. /\ q \in Seq(T) /\ Len(q) \in Nat /\ 1 \in 1 .. Len(q) /\ Head(q) = q[1]
      /\ d \in [T -> Nat] /\ Head(q) \in T
  BY DEF Delta
<1>2. d[Head(q)] \in Nat /\ d[Head(q)] - 1 \in Nat /\ Head(q) \in ToSet(q)
  BY <1>1, DeltaNodes
<1>3. Delta(T, q, e)
  <2>1. \A u \in T : e[u] \in Nat
    BY <1>1, <1>2
  <2> QED BY <2>1 DEF Delta
<1>4. /\ e[q[1]] = d[q[1]] - 1
      /\ \A j \in 1 .. Len(q) : j # 1 => e[q[j]] = d[q[j]]
  BY <1>1, DeltaNodes
<1> DEFINE f == [j \in 0 .. Len(q) |-> IF j = 0 THEN 0 ELSE Until(q, d, j) - 1]
<1>5. \A j \in 0 .. Len(q) : f[j] = IF j = 0 THEN 0 ELSE Until(q, d, j) - 1
  BY Zenon
<1> HIDE DEF f
<1>6. f[0] = 0
  BY <1>1, <1>5
<1>7. ASSUME NEW j \in 1 .. Len(q) PROVE f[j] = f[j - 1] + e[q[j]]
  <2>0. j \in 0 .. Len(q) /\ j - 1 \in 0 .. Len(q) /\ j # 0
    BY <1>1
  <2>a. d[q[j]] \in Nat
    BY DeltaNodes
  <2>b. /\ Until(q, d, j) = Until(q, d, j - 1) + d[q[j]] /\ Until(q, d, 0) = 0
        /\ Until(q, d, j - 1) \in Nat
    BY <2>0, UntilNat
  <2>1. /\ j \in 0 .. Len(q) /\ j - 1 \in 0 .. Len(q) /\ j # 0
        /\ Until(q, d, j) = Until(q, d, j - 1) + d[q[j]] /\ Until(q, d, 0) = 0
        /\ Until(q, d, j - 1) \in Nat /\ d[q[j]] \in Nat
    BY <2>0, <2>a, <2>b
  <2>2. f[j] = Until(q, d, j) - 1 /\ f[j - 1] = IF j - 1 = 0 THEN 0 ELSE Until(q, d, j - 1) - 1
    BY <1>5, <2>1, Zenon
  <2>3. CASE j = 1
    BY <1>4, <2>1, <2>2, <2>3
  <2>4. CASE j # 1
    <3>1. j - 1 # 0 /\ e[q[j]] = d[q[j]]
      BY <1>4, <2>1, <2>4
    <3> QED BY <2>1, <2>2, <3>1
  <2> QED BY <2>3, <2>4
<1>8. \A j \in 0 .. Len(q) : Until(q, e, j) = f[j]
  <2>1. Len(q) \in Nat /\ f[0] = 0 /\ \A j \in 1 .. Len(q) : f[j] = f[j - 1] + e[q[j]]
    BY <1>1, <1>6, <1>7
  <2> QED BY <2>1, UntilUnique, SMTT(60)
<1>9. ASSUME NEW u \in ToSet(q)
      PROVE  /\ TimeOf(q, d, u) \in Nat /\ TimeOf(q, d, u) > 0
             /\ TimeOf(q, e, u) = TimeOf(q, d, u) - 1
  <2>1. TimeOf(q, d, u) \in Nat /\ d[Head(q)] <= TimeOf(q, d, u)
    BY TimeOfIs
  <2>2. PlaceOf(q, u) \in 0 .. Len(q) /\ PlaceOf(q, u) # 0
    BY <1>1, PlaceOfIs
  <2>3. Until(q, e, PlaceOf(q, u)) = Until(q, d, PlaceOf(q, u)) - 1
    BY <1>5, <1>8, <2>2, Zenon
  <2> QED BY <1>2, <2>1, <2>3 DEF TimeOf
<1> QED BY <1>2, <1>3, <1>9

----------------------------------------------------------------------------
\* The wheel: remainders, the way ahead of the cursor and the ticks of a node.

LEMMA ModIs ==
  ASSUME NEW n \in Nat \ {0}, NEW a \in Nat, a < n + n
  PROVE  a % n = IF a < n THEN a ELSE a - n
<1>1. CASE a < n
  BY <1>1
<1>2. CASE a >= n
  <2>1. a - n \in 0 .. n - 1
    BY <1>2
  <2> QED BY <1>2, <2>1
<1> QED BY <1>1, <1>2

LEMMA DivIs ==
  ASSUME NEW a \in Nat, NEW n \in Nat \ {0}
  PROVE  /\ a \div n \in Nat /\ a % n \in 0 .. n - 1
         /\ (a \div n) * n \in Nat /\ a = (a \div n) * n + (a % n)
OBVIOUS

LEMMA DivMonotonic ==
  ASSUME NEW a \in Nat, NEW b \in Nat, a <= b, NEW n \in Nat \ {0}
  PROVE  a \div n <= b \div n
<1> DEFINE c == a \div n
           d == b \div n
<1>1. c \in Nat /\ d \in Nat /\ a >= c * n /\ b < d * n + n
  BY DivIs
<1> HIDE DEF c, d
<1>2. CASE c <= d
  BY <1>2 DEF c, d
<1>3. CASE c >= d + 1
  <2>1. PICK m \in Nat : c = (d + 1) + m
    <3>1. c - (d + 1) \in Nat /\ c = (d + 1) + (c - (d + 1))
      BY <1>1, <1>3
    <3> QED BY <3>1
  <2>2. c * n = (d * n + n) + m * n /\ m * n \in Nat /\ d * n \in Nat
    BY <1>1, <2>1
  <2> QED BY <1>1, <2>2
<1> QED BY <1>1, <1>2, <1>3

\* The way from the cursor c to slot i.
Ahead(i, c) == (i + SortLinkLen - c) % SortLinkLen

LEMMA AheadIs ==
  ASSUME NEW i \in Slot, NEW c \in Slot
  PROVE  /\ Ahead(i, c) \in Slot
         /\ Ahead(i, c) = IF c <= i THEN i - c ELSE i + SortLinkLen - c
         /\ Ahead(i, c) = 0 <=> i = c
<1>1. SortLinkLen \in Nat \ {0} /\ i \in 0 .. SortLinkLen - 1 /\ c \in 0 .. SortLinkLen - 1
  BY WheelAssumption DEF Slot
<1>2. i + SortLinkLen - c \in Nat /\ i + SortLinkLen - c < SortLinkLen + SortLinkLen
  BY <1>1
<1>3. Ahead(i, c) = IF i + SortLinkLen - c < SortLinkLen THEN i + SortLinkLen - c
                    ELSE (i + SortLinkLen - c) - SortLinkLen
  <2> DEFINE a == i + SortLinkLen - c
  <2>1. a \in Nat /\ a < SortLinkLen + SortLinkLen /\ SortLinkLen \in Nat \ {0}
    BY <1>1, <1>2
  <2> HIDE DEF a
  <2>2. a % SortLinkLen = IF a < SortLinkLen THEN a ELSE a - SortLinkLen
    BY <2>1, ModIs, Zenon
  <2> QED BY <2>2, Zenon DEF a, Ahead
<1> QED BY <1>1, <1>3 DEF Slot

\* One tick brings a slot one place nearer, or the cursor's own a whole turn away.
LEMMA AheadNext ==
  ASSUME NEW i \in Slot, NEW c \in Slot
  PROVE  /\ (c + 1) % SortLinkLen \in Slot
         /\ Ahead(i, (c + 1) % SortLinkLen) =
              IF Ahead(i, c) = 0 THEN SortLinkLen - 1 ELSE Ahead(i, c) - 1
<1>1. SortLinkLen \in Nat \ {0} /\ i \in 0 .. SortLinkLen - 1 /\ c \in 0 .. SortLinkLen - 1
  BY WheelAssumption DEF Slot
<1>2. c + 1 \in Nat /\ c + 1 < SortLinkLen + SortLinkLen
  BY <1>1
<1>3. (c + 1) % SortLinkLen = IF c + 1 < SortLinkLen THEN c + 1 ELSE (c + 1) - SortLinkLen
  <2> DEFINE a == c + 1
  <2>1. a \in Nat /\ a < SortLinkLen + SortLinkLen /\ SortLinkLen \in Nat \ {0}
    BY <1>1, <1>2
  <2> HIDE DEF a
  <2>2. a % SortLinkLen = IF a < SortLinkLen THEN a ELSE a - SortLinkLen
    BY <2>1, ModIs, Zenon
  <2> QED BY <2>2, Zenon DEF a
<1> DEFINE x == (c + 1) % SortLinkLen
<1>4. x \in Slot /\ x = IF c + 1 < SortLinkLen THEN c + 1 ELSE 0
  BY <1>1, <1>3 DEF Slot
<1> HIDE DEF x
<1>5. /\ Ahead(i, x) = IF x <= i THEN i - x ELSE i + SortLinkLen - x
      /\ Ahead(i, c) = IF c <= i THEN i - c ELSE i + SortLinkLen - c
  BY <1>4, AheadIs
<1> QED BY <1>1, <1>4, <1>5 DEF x

\* A timeout of n ticks ends in the slot that far ahead.
LEMMA AheadOf ==
  ASSUME NEW c \in Slot, NEW m \in Slot
  PROVE  (c + m) % SortLinkLen \in Slot /\ Ahead((c + m) % SortLinkLen, c) = m
<1>1. SortLinkLen \in Nat \ {0} /\ m \in 0 .. SortLinkLen - 1 /\ c \in 0 .. SortLinkLen - 1
  BY WheelAssumption DEF Slot
<1>2. c + m \in Nat /\ c + m < SortLinkLen + SortLinkLen
  BY <1>1
<1>3. (c + m) % SortLinkLen = IF c + m < SortLinkLen THEN c + m ELSE (c + m) - SortLinkLen
  <2> DEFINE a == c + m
  <2>1. a \in Nat /\ a < SortLinkLen + SortLinkLen /\ SortLinkLen \in Nat \ {0}
    BY <1>1, <1>2
  <2> HIDE DEF a
  <2>2. a % SortLinkLen = IF a < SortLinkLen THEN a ELSE a - SortLinkLen
    BY <2>1, ModIs, Zenon
  <2> QED BY <2>2, Zenon DEF a
<1> DEFINE i == (c + m) % SortLinkLen
<1>4. i \in Slot /\ i = IF c + m < SortLinkLen THEN c + m ELSE (c + m) - SortLinkLen
  BY <1>1, <1>3 DEF Slot
<1> HIDE DEF i
<1>5. Ahead(i, c) = IF c <= i THEN i - c ELSE i + SortLinkLen - c
  BY <1>4, AheadIs
<1> QED BY <1>1, <1>4, <1>5 DEF i

LEMMA TurnsFacts ==
  ASSUME NEW n \in 1 .. MaxTicks
  PROVE  /\ TurnsOf(n) \in 0 .. MaxRolls /\ n % SortLinkLen \in Slot
         /\ n = IF n % SortLinkLen = 0 THEN (TurnsOf(n) + 1) * SortLinkLen
                ELSE (n % SortLinkLen) + TurnsOf(n) * SortLinkLen
<1> DEFINE a == n \div SortLinkLen
           m == n % SortLinkLen
<1>1. n \in Nat /\ n > 0 /\ n <= MaxTicks /\ MaxTicks \in Nat /\ SortLinkLen \in Nat \ {0}
  BY WheelAssumption
<1>2. a \in Nat /\ m \in 0 .. SortLinkLen - 1 /\ n = a * SortLinkLen + m
  BY <1>1, DivIs
<1>3. a <= MaxRolls /\ MaxRolls \in Nat
  BY <1>1, DivMonotonic, DivIs DEF MaxRolls
<1>4. TurnsOf(n) = IF m = 0 THEN a - 1 ELSE a
  BY DEF TurnsOf
<1> HIDE DEF a, m
<1>5. CASE m = 0
  <2>1. a # 0
    BY <1>1, <1>2, <1>5
  <2>2. TurnsOf(n) = a - 1 /\ a - 1 \in 0 .. MaxRolls /\ (a - 1) + 1 = a
    BY <1>2, <1>3, <1>4, <1>5, <2>1
  <2>3. n = a * SortLinkLen
    BY <1>1, <1>2, <1>5
  <2>4. n = (TurnsOf(n) + 1) * SortLinkLen
    BY <2>2, <2>3
  <2> QED BY <1>2, <1>5, <2>2, <2>4 DEF m, Slot
<1>6. CASE m # 0
  <2>1. TurnsOf(n) = a /\ a \in 0 .. MaxRolls
    BY <1>2, <1>3, <1>4, <1>6
  <2>2. n = m + TurnsOf(n) * SortLinkLen
    BY <1>1, <1>2, <2>1
  <2> QED BY <1>2, <1>6, <2>1, <2>2 DEF m, Slot
<1> QED BY <1>5, <1>6

\* No node waits for more turns than the longest timeout takes; a deletion adds the turns
\* of two nodes, and only the sum over the whole slot bounds that.
TurnsBounded == \A i \in Slot : \A t \in ToSet(slots[i]) : TimeOf(slots[i], rolls, t) <= MaxRolls

WheelInv == IndexAgrees /\ TurnsBounded

LEMMA MaxRollsNat == MaxRolls \in Nat
BY WheelAssumption, DivIs DEF MaxRolls

LEMMA WheelLists ==
  ASSUME WheelInv
  PROVE  /\ slots \in [Slot -> Seq(Task)] /\ index \in [Task -> Slot]
         /\ rolls \in [Task -> Nat] /\ cursor \in Slot /\ scan \in BOOLEAN
         /\ \A t \in Task : rolls[t] \in 0 .. MaxRolls /\ index[t] \in Slot
         /\ \A i \in Slot : Delta(Task, slots[i], rolls)
         /\ \A i \in Slot : \A t \in ToSet(slots[i]) :
              /\ t \in Task /\ index[t] = i /\ Linked(t)
              /\ TurnsLeft(t) = TimeOf(slots[i], rolls, t) /\ TurnsLeft(t) \in 0 .. MaxRolls
         /\ \A t \in Task : Linked(t) => t \in ToSet(slots[index[t]])
<1>1. /\ slots \in [Slot -> Seq(Task)] /\ index \in [Task -> Slot] /\ cursor \in Slot
      /\ scan \in BOOLEAN /\ rolls \in [Task -> 0 .. MaxRolls]
      /\ \A i \in Slot : IsInjective(slots[i]) /\ \A t \in ToSet(slots[i]) : index[t] = i
      /\ \A i \in Slot : \A t \in ToSet(slots[i]) : TimeOf(slots[i], rolls, t) <= MaxRolls
  BY DEF WheelInv, IndexAgrees, WheelTypeOK, TurnsBounded
<1>2. rolls \in [Task -> Nat]
  <2>1. 0 .. MaxRolls \subseteq Nat
    BY MaxRollsNat
  <2> QED BY <1>1, <2>1
<1>3. ASSUME NEW i \in Slot PROVE Delta(Task, slots[i], rolls)
  BY <1>1, <1>2 DEF Delta
<1>4. ASSUME NEW i \in Slot, NEW t \in ToSet(slots[i])
      PROVE  /\ t \in Task /\ index[t] = i /\ Linked(t)
             /\ TurnsLeft(t) = TimeOf(slots[i], rolls, t) /\ TurnsLeft(t) \in 0 .. MaxRolls
  <2>1. t \in Task
    BY <1>3, DeltaNodes
  <2>2. index[t] = i /\ TimeOf(slots[i], rolls, t) <= MaxRolls
    BY <1>1
  <2>3. TimeOf(slots[i], rolls, t) \in Nat
    BY <1>3, TimeOfIs
  <2> QED BY <2>1, <2>2, <2>3, MaxRollsNat DEF Linked, TurnsLeft
<1>5. ASSUME NEW t \in Task, Linked(t) PROVE t \in ToSet(slots[index[t]])
  BY <1>1, <1>5 DEF Linked
<1> QED BY <1>1, <1>2, <1>3, <1>4, <1>5, Zenon

\* A step that changes one slot leaves the nodes of the others as they are.
LEMMA SlotChanged ==
  ASSUME WheelInv, NEW i \in Slot, NEW q, slots' = [slots EXCEPT ![i] = q],
         Delta(Task, q, rolls'), cursor' \in Slot, scan' \in BOOLEAN,
         index' \in [Task -> Slot],
         \A u \in ToSet(q) : /\ u \in ToSet(slots[i]) \/ ~Linked(u)
                             /\ index'[u] = i /\ TimeOf(q, rolls', u) <= MaxRolls,
         \A u \in Task \ ToSet(q) : rolls'[u] = rolls[u] /\ index'[u] = index[u]
  PROVE  /\ WheelInv'
         /\ \A u \in Task : Linked(u)' <=> u \in ToSet(q) \/ (Linked(u) /\ index[u] # i)
         /\ \A u \in ToSet(q) : TurnsLeft(u)' = TimeOf(q, rolls', u)
         /\ \A u \in Task : Linked(u) /\ index[u] # i =>
              index'[u] = index[u] /\ TurnsLeft(u)' = TurnsLeft(u)
<1>1. slots' \in [Slot -> Seq(Task)] /\ slots'[i] = q
  BY WheelLists DEF Delta
<1>2. \A j \in Slot \ {i} : slots'[j] = slots[j]
  BY WheelLists
<1>3. rolls' \in [Task -> Nat] /\ ToSet(q) \subseteq Task
  BY DeltaNodes DEF Delta
<1>4. ASSUME NEW j \in Slot, j # i
      PROVE  /\ Delta(Task, slots[j], rolls')
             /\ \A u \in ToSet(slots[j]) :
                  /\ u \in Task /\ u \notin ToSet(q) /\ index'[u] = j
                  /\ TimeOf(slots[j], rolls', u) = TimeOf(slots[j], rolls, u)
                  /\ TimeOf(slots[j], rolls, u) <= MaxRolls
  <2>1. ASSUME NEW u \in ToSet(slots[j])
        PROVE  u \in Task /\ u \notin ToSet(q) /\ index'[u] = j /\ rolls'[u] = rolls[u]
    <3>1. u \in Task /\ index[u] = j /\ Linked(u)
      BY WheelLists
    <3>2. u \notin ToSet(slots[i])
      BY <1>4, <3>1, WheelLists
    <3> QED BY <3>1, <3>2
  <2>2. Delta(Task, slots[j], rolls)
    BY WheelLists
  <2>3. /\ Delta(Task, slots[j], rolls')
        /\ \A u \in ToSet(slots[j]) : TimeOf(slots[j], rolls', u) = TimeOf(slots[j], rolls, u)
    BY <1>3, <2>1, <2>2, SameTimes
  <2>4. \A u \in ToSet(slots[j]) : TimeOf(slots[j], rolls, u) <= MaxRolls
    BY DEF WheelInv, TurnsBounded
  <2> QED BY <2>1, <2>3, <2>4
<1>5. rolls' \in [Task -> 0 .. MaxRolls]
  <2> SUFFICES ASSUME NEW u \in Task PROVE rolls'[u] \in 0 .. MaxRolls
    BY <1>3
  <2>1. CASE u \in ToSet(q)
    <3>1. rolls'[u] \in Nat /\ rolls'[u] <= TimeOf(q, rolls', u) /\ TimeOf(q, rolls', u) \in Nat
      BY <2>1, TimeOfIs
    <3>2. TimeOf(q, rolls', u) <= MaxRolls
      BY <2>1
    <3> QED BY <3>1, <3>2, MaxRollsNat
  <2>2. CASE u \notin ToSet(q)
    BY <2>2, WheelLists
  <2> QED BY <2>1, <2>2
<1>6. ASSUME NEW j \in Slot
      PROVE  /\ IsInjective(slots'[j])
             /\ \A u \in ToSet(slots'[j]) : index'[u] = j /\ TimeOf(slots'[j], rolls', u) <= MaxRolls
  <2>1. CASE j = i
    BY <1>1, <2>1 DEF Delta
  <2>2. CASE j # i
    <3>1. slots'[j] = slots[j]
      BY <1>2, <2>2
    <3>2. IsInjective(slots[j])
      BY WheelLists DEF Delta
    <3> QED BY <1>4, <2>2, <3>1, <3>2
  <2> QED BY <2>1, <2>2
<1>7. WheelInv'
  BY <1>1, <1>5, <1>6, Zenon DEF WheelInv, IndexAgrees, WheelTypeOK, TurnsBounded
<1>8. ASSUME NEW u \in Task
      PROVE  Linked(u)' <=> u \in ToSet(q) \/ (Linked(u) /\ index[u] # i)
  <2>1. ASSUME Linked(u)' PROVE u \in ToSet(q) \/ (Linked(u) /\ index[u] # i)
    <3>1. PICK j \in Slot : u \in ToSet(slots'[j])
      BY <2>1, Zenon DEF Linked
    <3>2. CASE j = i
      BY <1>1, <3>1, <3>2
    <3>3. CASE j # i
      <4>1. u \in ToSet(slots[j])
        BY <1>2, <3>1, <3>3
      <4> QED BY <3>3, <4>1, WheelLists
    <3> QED BY <3>2, <3>3
  <2>2. ASSUME u \in ToSet(q) PROVE Linked(u)'
    BY <1>1, <2>2, Zenon DEF Linked
  <2>3. ASSUME Linked(u), index[u] # i PROVE Linked(u)'
    <3>1. index[u] \in Slot /\ u \in ToSet(slots[index[u]])
      BY <2>3, WheelLists
    <3>2. u \in ToSet(slots'[index[u]])
      BY <1>2, <2>3, <3>1
    <3> QED BY <3>1, <3>2, Zenon DEF Linked
  <2> QED BY <2>1, <2>2, <2>3
<1>9. ASSUME NEW u \in ToSet(q) PROVE TurnsLeft(u)' = TimeOf(q, rolls', u)
  <2>1. index'[u] = i
    OBVIOUS
  <2> QED BY <1>1, <2>1, Zenon DEF TurnsLeft
<1>10. ASSUME NEW u \in Task, Linked(u), index[u] # i
       PROVE  index'[u] = index[u] /\ TurnsLeft(u)' = TurnsLeft(u)
  <2>1. index[u] \in Slot /\ u \in ToSet(slots[index[u]])
    BY <1>10, WheelLists
  <2>2. index'[u] = index[u] /\ TimeOf(slots[index[u]], rolls', u) = TimeOf(slots[index[u]], rolls, u)
    BY <1>4, <1>10, <2>1
  <2>3. slots'[index[u]] = slots[index[u]]
    BY <1>2, <1>10, <2>1
  <2> QED BY <2>2, <2>3, Zenon DEF TurnsLeft
<1> QED BY <1>7, <1>8, <1>9, <1>10

\* The ticks of a node in slot i with r turns left, as the scan runs (sc) or does not.
Ticks(i, r, c, sc) ==
  IF Ahead(i, c) > 0 THEN Ahead(i, c) + r * SortLinkLen
  ELSE IF ~sc THEN (r + 1) * SortLinkLen
  ELSE IF r = 0 THEN 1 ELSE r * SortLinkLen

LEMMA TicksIs ==
  ASSUME NEW t \in Task
  PROVE  TicksLeft(t) = IF Linked(t) THEN Ticks(index[t], TurnsLeft(t), cursor, scan) ELSE 0
<1>1. CASE Linked(t)
  BY <1>1, Zenon DEF TicksLeft, Ticks, Ahead
<1>2. CASE ~Linked(t)
  BY <1>2, Zenon DEF TicksLeft
<1> QED BY <1>1, <1>2

LEMMA NextTicksIs ==
  ASSUME NEW t \in Task
  PROVE  TicksLeft(t)' = IF Linked(t)' THEN Ticks(index'[t], TurnsLeft(t)', cursor', scan') ELSE 0
<1>1. CASE Linked(t)'
  BY <1>1, Zenon DEF TicksLeft, Ticks, Ahead
<1>2. CASE ~Linked(t)'
  BY <1>2, Zenon DEF TicksLeft
<1> QED BY <1>1, <1>2

LEMMA TicksPositive ==
  ASSUME NEW i \in Slot, NEW r \in Nat, NEW c \in Slot, NEW sc \in BOOLEAN
  PROVE  Ticks(i, r, c, sc) \in Nat /\ Ticks(i, r, c, sc) > 0
<1>1. SortLinkLen \in Nat \ {0} /\ Ahead(i, c) \in Nat
  BY WheelAssumption, AheadIs DEF Slot
<1>2. (r + 1) * SortLinkLen = r * SortLinkLen + SortLinkLen /\ r * SortLinkLen \in Nat
  BY <1>1
<1>3. r # 0 => r * SortLinkLen > 0
  <2> SUFFICES ASSUME r # 0 PROVE r * SortLinkLen > 0
    OBVIOUS
  <2> DEFINE p == r - 1
  <2>1. p \in Nat /\ r = p + 1
    OBVIOUS
  <2> HIDE DEF p
  <2>2. r * SortLinkLen = p * SortLinkLen + SortLinkLen /\ p * SortLinkLen \in Nat
    BY <1>1, <2>1
  <2> QED BY <1>1, <2>2
<1> DEFINE m == r * SortLinkLen
<1> HIDE DEF m
<1>4. m \in Nat /\ (r # 0 => m > 0)
  BY <1>2, <1>3 DEF m
<1>5. Ticks(i, r, c, sc) = IF Ahead(i, c) > 0 THEN Ahead(i, c) + m
                         ELSE IF ~sc THEN m + SortLinkLen ELSE IF r = 0 THEN 1 ELSE m
  BY <1>2 DEF Ticks, m
<1> QED BY <1>1, <1>4, <1>5

LEMMA TicksLeftNat ==
  ASSUME WheelInv, NEW t \in Task
  PROVE  TicksLeft(t) \in Nat /\ (TicksLeft(t) > 0 <=> Linked(t))
<1>1. CASE Linked(t)
  <2>1. index[t] \in Slot /\ TurnsLeft(t) \in Nat /\ cursor \in Slot /\ scan \in BOOLEAN
    BY <1>1, WheelLists
  <2> QED BY <1>1, <2>1, TicksIs, TicksPositive
<1>2. CASE ~Linked(t)
  BY <1>2, TicksIs
<1> QED BY <1>1, <1>2

\* A node of which a step changes nothing keeps its ticks.
LEMMA TicksKept ==
  ASSUME NEW t \in Task, Linked(t)' <=> Linked(t), UNCHANGED <<cursor, scan>>,
         Linked(t) => index'[t] = index[t] /\ TurnsLeft(t)' = TurnsLeft(t)
  PROVE  TicksLeft(t)' = TicksLeft(t)
<1>1. TicksLeft(t) = IF Linked(t) THEN Ticks(index[t], TurnsLeft(t), cursor, scan) ELSE 0
  BY TicksIs
<1>2. TicksLeft(t)' = IF Linked(t)' THEN Ticks(index'[t], TurnsLeft(t)', cursor', scan') ELSE 0
  BY NextTicksIs
<1>3. cursor' = cursor /\ scan' = scan
  OBVIOUS
<1>4. CASE Linked(t)
  BY <1>1, <1>2, <1>3, <1>4
<1>5. CASE ~Linked(t)
  BY <1>1, <1>2, <1>5
<1> QED BY <1>4, <1>5

----------------------------------------------------------------------------
\* The actions, each with what it is in the countdown.

\* A step that changes the ticks of t to n, and nothing else.
LEMMA OneTimer ==
  ASSUME NEW t \in Task, NEW n, \A u \in Task : TicksLeft(u)' = IF u = t THEN n ELSE TicksLeft(u)
  PROVE  [u \in Task |-> TicksLeft(u)'] = [[u \in Task |-> TicksLeft(u)] EXCEPT ![t] = n]
OBVIOUS

LEMMA AddStep ==
  ASSUME WheelInv, NEW t \in Task, NEW n \in 1 .. MaxTicks, osTaskAdd2TimerList(t, n)
  PROVE  WheelInv' /\ Abstract!Add(t, n)
<1> DEFINE i == (cursor + (n % SortLinkLen)) % SortLinkLen
           r == TurnsOf(n)
           q == slots[i]
           k == PlaceFor(q, rolls, r)
           l == InsertAt(q, k, t)
<1>1. /\ ~scan /\ ~Linked(t) /\ slots' = [slots EXCEPT ![i] = l]
      /\ index' = [index EXCEPT ![t] = i]
      /\ rolls' = [u \in Task |-> IF u = t THEN r - Until(q, rolls, k - 1)
                               ELSE IF k <= Len(q) /\ u = q[k] THEN Until(q, rolls, k) - r
                               ELSE rolls[u]]
      /\ cursor' = cursor /\ scan' = scan
  BY DEF osTaskAdd2TimerList
<1>2. /\ i \in Slot /\ Ahead(i, cursor) = n % SortLinkLen /\ r \in 0 .. MaxRolls
      /\ n = IF n % SortLinkLen = 0 THEN (r + 1) * SortLinkLen
             ELSE (n % SortLinkLen) + r * SortLinkLen
  BY WheelLists, TurnsFacts, AheadOf
<1> HIDE DEF i, r
<1>3. Delta(Task, q, rolls) /\ t \notin ToSet(q) /\ r \in Nat
  BY <1>1, <1>2, WheelLists, MaxRollsNat
<1> HIDE DEF q
<1>4. /\ k \in 1 .. Len(q) + 1 /\ Len(q) \in Nat /\ Until(q, rolls, k - 1) \in Nat
      /\ \A j \in 1 .. Len(q) : Until(q, rolls, j) \in Nat /\ q[j] \in ToSet(q) /\ q[j] \in Task
      /\ ToSet(q) \subseteq Task /\ rolls \in [Task -> Nat]
  <2>1. k \in 1 .. Len(q) + 1 /\ Len(q) \in Nat
    BY <1>3, PlaceForIs, DeltaNodes
  <2> HIDE DEF k
  <2>2. k - 1 \in 0 .. Len(q) /\ \A j \in 1 .. Len(q) : j \in 0 .. Len(q)
    BY <2>1
  <2> QED BY <1>3, <2>1, <2>2, UntilNat, DeltaNodes, WheelLists
<1>5. Inserted(q, rolls, t, r, rolls')
  <2>1. rolls'[t] = r - Until(q, rolls, k - 1)
    BY <1>1
  <2>2. ASSUME k <= Len(q) PROVE rolls'[q[k]] = Until(q, rolls, k) - r
    <3> HIDE DEF k
    <3>1. k \in 1 .. Len(q)
      BY <1>4, <2>2
    <3> QED BY <1>1, <1>3, <1>4, <2>2, <3>1
  <2>3. ASSUME NEW u \in ToSet(q), k > Len(q) \/ u # q[k] PROVE rolls'[u] = rolls[u]
    <3>1. u # t /\ u \in Task /\ ~(k <= Len(q) /\ u = q[k])
      BY <1>3, <1>4, <2>3
    <3> QED BY <1>1, <3>1
  <2> QED BY <2>1, <2>2, <2>3, Zenon DEF Inserted
<1>6. /\ rolls' \in [Task -> Int]
      /\ \A u \in Task \ (ToSet(q) \cup {t}) : rolls'[u] = rolls[u]
  <2> HIDE DEF k
  <2>1. ASSUME NEW u \in Task \ (ToSet(q) \cup {t}) PROVE rolls'[u] = rolls[u]
    <3>1. k <= Len(q) => u # q[k]
      BY <1>4, <2>1
    <3> QED BY <1>1, <2>1, <3>1
  <2>2. ASSUME NEW u \in Task PROVE rolls'[u] \in Int
    <3>1. k <= Len(q) => Until(q, rolls, k) \in Nat
      BY <1>4
    <3> QED BY <1>1, <1>3, <1>4, <3>1
  <2>3. DOMAIN rolls' = Task /\ rolls' = [u \in Task |-> rolls'[u]]
    BY <1>1
  <2> QED BY <2>1, <2>2, <2>3
<1>7. /\ Delta(Task, l, rolls') /\ ToSet(l) = ToSet(q) \cup {t}
      /\ TimeOf(l, rolls', t) = r
      /\ \A u \in ToSet(q) : TimeOf(l, rolls', u) = TimeOf(q, rolls, u)
  <2> DEFINE e == rolls'
  <2>1. t \in Task \ ToSet(q) /\ e \in [Task -> Int] /\ Inserted(q, rolls, t, r, e)
        /\ l = InsertAt(q, PlaceFor(q, rolls, r), t)
        /\ \A u \in Task \ (ToSet(q) \cup {t}) : e[u] = rolls[u]
    BY <1>3, <1>5, <1>6
  <2> HIDE DEF e, l, k
  <2>2. /\ Delta(Task, l, e) /\ ToSet(l) = ToSet(q) \cup {t}
        /\ TimeOf(l, e, t) = r
        /\ \A u \in ToSet(q) : TimeOf(l, e, u) = TimeOf(q, rolls, u)
    BY <1>3, <2>1, InsertKeepsTimes, SMTT(60)
  <2> QED BY <2>2 DEF e
<1> HIDE DEF l, k
<1>8. /\ cursor' \in Slot /\ scan' \in BOOLEAN /\ index' \in [Task -> Slot]
      /\ \A u \in ToSet(q) : u \in ToSet(slots[i]) /\ index'[u] = i /\ TimeOf(q, rolls, u) <= MaxRolls
      /\ index'[t] = i
      /\ \A u \in Task \ ToSet(l) : rolls'[u] = rolls[u] /\ index'[u] = index[u]
  <2>1. ASSUME NEW u \in ToSet(q)
        PROVE  u \in ToSet(slots[i]) /\ index'[u] = i /\ TimeOf(q, rolls, u) <= MaxRolls
    <3>1. /\ u \in ToSet(slots[i]) /\ index[u] = i /\ u \in Task /\ u # t
          /\ TimeOf(q, rolls, u) = TurnsLeft(u) /\ TurnsLeft(u) \in 0 .. MaxRolls
      BY <1>2, <1>3, WheelLists DEF q
    <3> QED BY <1>1, <3>1, WheelLists, MaxRollsNat
  <2> QED BY <1>1, <1>2, <1>6, <1>7, <2>1, WheelLists
<1>9. /\ WheelInv'
      /\ \A u \in Task : Linked(u)' <=> u \in ToSet(l) \/ (Linked(u) /\ index[u] # i)
      /\ \A u \in ToSet(l) : TurnsLeft(u)' = TimeOf(l, rolls', u)
      /\ \A u \in Task : Linked(u) /\ index[u] # i =>
           index'[u] = index[u] /\ TurnsLeft(u)' = TurnsLeft(u)
  <2>1. \A u \in ToSet(l) : /\ u \in ToSet(slots[i]) \/ ~Linked(u)
                            /\ index'[u] = i /\ TimeOf(l, rolls', u) <= MaxRolls
    BY <1>1, <1>2, <1>7, <1>8, MaxRollsNat
  <2> QED BY <1>1, <1>2, <1>7, <1>8, <2>1, SlotChanged
<1>10. \A u \in Task : TicksLeft(u)' = IF u = t THEN n ELSE TicksLeft(u)
  <2>1. TicksLeft(t)' = n
    <3>1. Linked(t)' /\ index'[t] = i /\ TurnsLeft(t)' = r
      BY <1>7, <1>8, <1>9
    <3>2. TicksLeft(t)' = Ticks(i, r, cursor, scan)
      BY <1>1, <3>1, NextTicksIs
    <3>3. n % SortLinkLen \in Slot /\ (n % SortLinkLen) \in Nat
      BY TurnsFacts, WheelAssumption DEF Slot
    <3> QED BY <1>1, <1>2, <3>2, <3>3 DEF Ticks
  <2>2. ASSUME NEW u \in Task, u # t PROVE TicksLeft(u)' = TicksLeft(u)
    <3>1. CASE u \in ToSet(q)
      <4>1. Linked(u) /\ index[u] = i /\ TurnsLeft(u) = TimeOf(q, rolls, u)
        BY <1>2, <3>1, WheelLists DEF q
      <4>2. Linked(u)' /\ index'[u] = i /\ TurnsLeft(u)' = TimeOf(q, rolls, u)
        BY <1>7, <1>8, <1>9, <3>1
      <4> QED BY <1>1, <4>1, <4>2, TicksKept
    <3>2. CASE u \notin ToSet(q)
      <4>1. u \notin ToSet(l) /\ (Linked(u) => index[u] # i)
        BY <1>7, <2>2, <3>2, WheelLists DEF q
      <4>2. (Linked(u)' <=> Linked(u)) /\ (Linked(u) => index'[u] = index[u] /\ TurnsLeft(u)' = TurnsLeft(u))
        BY <1>9, <4>1
      <4> QED BY <1>1, <4>2, TicksKept
    <3> QED BY <3>1, <3>2
  <2> QED BY <2>1, <2>2
<1>11. Abstract!Add(t, n)
  <2>1. [u \in Task |-> TicksLeft(u)][t] = 0
    BY <1>1, TicksIs
  <2>2. Due' = Due
    BY <1>1 DEF Due
  <2>3. [u \in Task |-> TicksLeft(u)'] = [[u \in Task |-> TicksLeft(u)] EXCEPT ![t] = n]
    BY <1>10, OneTimer
  <2> QED BY <1>1, <2>1, <2>2, <2>3, Zenon DEF Abstract!Add
<1> QED BY <1>9, <1>11

LEMMA DeleteStep ==
  ASSUME WheelInv, NEW t \in Task, osTimerListDelete(t)
  PROVE  WheelInv' /\ Abstract!Delete(t)
<1> DEFINE i == index[t]
           q == slots[i]
           k == PlaceOf(q, t)
           l == RemoveAt(q, k)
<1>1. /\ Linked(t) /\ slots' = [slots EXCEPT ![i] = l]
      /\ rolls' = IF k < Len(q) THEN [rolls EXCEPT ![q[k + 1]] = @ + rolls[t]] ELSE rolls
      /\ cursor' = cursor /\ index' = index /\ scan' = scan
  BY DEF osTimerListDelete
<1>2. i \in Slot /\ t \in ToSet(q) /\ Delta(Task, q, rolls)
  BY <1>1, WheelLists
<1> HIDE DEF i, q
<1>3. /\ k \in 1 .. Len(q) /\ q[k] = t /\ Len(q) \in Nat /\ rolls \in [Task -> Nat]
      /\ \A j \in 1 .. Len(q) : q[j] \in Task
      /\ k < Len(q) => k + 1 \in 1 .. Len(q) /\ q[k + 1] \in ToSet(q)
      /\ ToSet(q) \subseteq Task
  BY <1>2, PlaceOfIs, WheelLists
<1> HIDE DEF k
<1>4. rolls' \in [Task -> Nat] /\ Removed(q, rolls, t, rolls')
  <2>1. CASE k < Len(q)
    <3> DEFINE x == q[k + 1]
    <3>1. rolls' = [rolls EXCEPT ![x] = rolls[x] + rolls[t]] /\ x \in Task /\ t \in Task
      BY <1>1, <1>2, <1>3, <2>1
    <3> HIDE DEF x
    <3>2. rolls' \in [Task -> Nat] /\ rolls'[x] = rolls[x] + rolls[t] /\ \A u \in Task \ {x} : rolls'[u] = rolls[u]
      BY <1>3, <3>1
    <3>3. \A u \in ToSet(q) \ {t} : (k = Len(q) \/ u # q[k + 1]) => rolls'[u] = rolls[u]
      BY <1>3, <2>1, <3>2 DEF x
    <3> QED BY <3>2, <3>3 DEF Removed, k, x
  <2>2. CASE ~(k < Len(q))
    BY <1>1, <1>3, <2>2 DEF Removed, k
  <2> QED BY <2>1, <2>2
<1>5. /\ Delta(Task, l, rolls') /\ ToSet(l) = ToSet(q) \ {t}
      /\ \A u \in ToSet(l) : TimeOf(l, rolls', u) = TimeOf(q, rolls, u)
  <2> DEFINE e == rolls'
  <2>1. e \in [Task -> Nat] /\ Removed(q, rolls, t, e) /\ l = RemoveAt(q, PlaceOf(q, t))
    BY <1>4 DEF k
  <2> HIDE DEF e, l
  <2>2. /\ Delta(Task, l, e) /\ ToSet(l) = ToSet(q) \ {t}
        /\ \A u \in ToSet(l) : TimeOf(l, e, u) = TimeOf(q, rolls, u)
    BY <1>2, <2>1, RemoveKeepsTimes, SMTT(60)
  <2> QED BY <2>2 DEF e
<1> HIDE DEF l
<1>6. \A u \in ToSet(q) : /\ u \in ToSet(slots[i]) /\ u \in Task /\ index'[u] = i /\ Linked(u) /\ index[u] = i
                          /\ TimeOf(q, rolls, u) <= MaxRolls /\ TurnsLeft(u) = TimeOf(q, rolls, u)
  BY <1>1, <1>2, WheelLists, MaxRollsNat DEF q
<1>7. /\ WheelInv'
      /\ \A u \in Task : Linked(u)' <=> u \in ToSet(l) \/ (Linked(u) /\ index[u] # i)
      /\ \A u \in ToSet(l) : TurnsLeft(u)' = TimeOf(l, rolls', u)
      /\ \A u \in Task : Linked(u) /\ index[u] # i =>
           index'[u] = index[u] /\ TurnsLeft(u)' = TurnsLeft(u)
  <2>1. \A u \in ToSet(l) : /\ u \in ToSet(slots[i]) \/ ~Linked(u)
                            /\ index'[u] = i /\ TimeOf(l, rolls', u) <= MaxRolls
    BY <1>5, <1>6
  <2>2. ASSUME NEW u \in Task \ ToSet(l) PROVE rolls'[u] = rolls[u] /\ index'[u] = index[u]
    <3>1. CASE u \in ToSet(q)
      <4>1. u = t
        BY <1>5, <2>2, <3>1
      <4>2. k < Len(q) => q[k + 1] # t
        BY <1>2, <1>3, DeltaNodes
      <4> QED BY <1>1, <1>3, <4>1, <4>2
    <3>2. CASE u \notin ToSet(q)
      BY <1>1, <1>3, <3>2
    <3> QED BY <3>1, <3>2
  <2>3. cursor' \in Slot /\ scan' \in BOOLEAN /\ index' \in [Task -> Slot]
    BY <1>1, WheelLists
  <2> QED BY <1>1, <1>2, <1>5, <2>1, <2>2, <2>3, SlotChanged
<1>8. \A u \in Task : TicksLeft(u)' = IF u = t THEN 0 ELSE TicksLeft(u)
  <2>1. TicksLeft(t)' = 0
    <3>1. ~Linked(t)'
      BY <1>2, <1>3, <1>5, <1>6, <1>7
    <3> QED BY <3>1, NextTicksIs, <1>2, <1>3
  <2>2. ASSUME NEW u \in Task, u # t PROVE TicksLeft(u)' = TicksLeft(u)
    <3>1. CASE u \in ToSet(q)
      <4>1. Linked(u)' /\ TurnsLeft(u)' = TurnsLeft(u)
        BY <1>5, <1>6, <1>7, <2>2, <3>1
      <4> QED BY <1>1, <1>6, <3>1, <4>1, TicksKept
    <3>2. CASE u \notin ToSet(q)
      <4>1. u \notin ToSet(l) /\ (Linked(u) => index[u] # i)
        BY <1>5, <3>2, WheelLists DEF q
      <4>2. (Linked(u)' <=> Linked(u)) /\ (Linked(u) => index'[u] = index[u] /\ TurnsLeft(u)' = TurnsLeft(u))
        BY <1>7, <4>1
      <4> QED BY <1>1, <4>2, TicksKept
    <3> QED BY <3>1, <3>2
  <2> QED BY <2>1, <2>2
<1>9. Due' = Due \ {t}
  <2>1. ASSUME NEW u \in Task, u # t PROVE u \in Due' <=> u \in Due
    <3>1. CASE u \in ToSet(q)
      <4>1. Linked(u) /\ Linked(u)' /\ TurnsLeft(u)' = TurnsLeft(u)
        BY <1>5, <1>6, <1>7, <2>1, <3>1
      <4> QED BY <1>1, <4>1 DEF Due
    <3>2. CASE u \notin ToSet(q)
      <4>1. u \notin ToSet(l) /\ (Linked(u) => index[u] # i)
        BY <1>5, <3>2, WheelLists DEF q
      <4>2. (Linked(u)' <=> Linked(u)) /\ (Linked(u) => index'[u] = index[u] /\ TurnsLeft(u)' = TurnsLeft(u))
        BY <1>7, <4>1
      <4> QED BY <1>1, <4>2 DEF Due
    <3> QED BY <3>1, <3>2
  <2>2. t \notin Due'
    <3>1. ~Linked(t)'
      BY <1>2, <1>3, <1>5, <1>6, <1>7
    <3> QED BY <3>1 DEF Due
  <2>3. Due \subseteq Task /\ Due' \subseteq Task
    BY DEF Due
  <2> QED BY <2>1, <2>2, <2>3
<1>10. Abstract!Delete(t)
  <2>1. [u \in Task |-> TicksLeft(u)][t] > 0
    BY <1>1, TicksLeftNat
  <2>2. [u \in Task |-> TicksLeft(u)'] = [[u \in Task |-> TicksLeft(u)] EXCEPT ![t] = 0]
    BY <1>8, OneTimer
  <2> QED BY <1>1, <1>9, <2>1, <2>2, Zenon DEF Abstract!Delete
<1> QED BY <1>7, <1>10

\* One tick of the countdown, on the ticks of a node.
LEMMA TicksNext ==
  ASSUME NEW i \in Slot, NEW r \in Nat, NEW c \in Slot
  PROVE  LET x == (c + 1) % SortLinkLen
             a == Ticks(i, r, c, FALSE)
         IN  /\ Ticks(i, r, x, TRUE) = IF a > 1 THEN a - 1 ELSE a
             /\ a = 1 <=> i = x /\ r = 0
<1> DEFINE x == (c + 1) % SortLinkLen
           m == r * SortLinkLen
           a == Ticks(i, r, c, FALSE)
<1>1. SortLinkLen \in Nat \ {0} /\ Ahead(i, c) \in Nat /\ x \in Slot
  <2>1. Ahead(i, c) \in Slot
    BY AheadIs
  <2>2. x \in Slot
    BY AheadNext
  <2> QED BY <2>1, <2>2, WheelAssumption DEF Slot
<1>2. Ahead(i, x) = IF Ahead(i, c) = 0 THEN SortLinkLen - 1 ELSE Ahead(i, c) - 1
  BY AheadNext
<1>3. Ahead(i, x) = 0 <=> i = x
  BY <1>1, AheadIs
<1> HIDE DEF x
<1>4. m \in Nat /\ (r + 1) * SortLinkLen = m + SortLinkLen /\ (r = 0 => m = 0)
  BY <1>1
<1>5. r # 0 => m > 0
  <2> SUFFICES ASSUME r # 0 PROVE m > 0
    OBVIOUS
  <2> DEFINE p == r - 1
  <2>1. p \in Nat /\ r = p + 1
    OBVIOUS
  <2> HIDE DEF p
  <2>2. r * SortLinkLen = p * SortLinkLen + SortLinkLen /\ p * SortLinkLen \in Nat
    BY <1>1, <2>1
  <2> QED BY <1>1, <2>2
<1>6. a = IF Ahead(i, c) > 0 THEN Ahead(i, c) + m ELSE m + SortLinkLen
  BY <1>4 DEF Ticks
<1>7. Ticks(i, r, x, TRUE) = IF Ahead(i, x) > 0 THEN Ahead(i, x) + m ELSE IF r = 0 THEN 1 ELSE m
  BY DEF Ticks
<1> DEFINE p == Ahead(i, c)
           s == Ahead(i, x)
           N == SortLinkLen
           b == Ticks(i, r, x, TRUE)
<1>8. p \in Nat /\ N \in Nat \ {0} /\ (s = 0 <=> i = x)
  BY <1>1, <1>3
<1>9. s = IF p = 0 THEN N - 1 ELSE p - 1
  BY <1>2
<1>10. a = IF p > 0 THEN p + m ELSE m + N
  BY <1>6
<1>11. b = IF s > 0 THEN s + m ELSE IF r = 0 THEN 1 ELSE m
  BY <1>7
<1> HIDE DEF p, s, N, m, a, b
<1>12. b = (IF a > 1 THEN a - 1 ELSE a) /\ (a = 1 <=> i = x /\ r = 0)
  <2>1. CASE p = 0
    <3>1. s = N - 1 /\ a = m + N
      BY <1>8, <1>9, <1>10, <2>1
    <3> QED BY <1>4, <1>5, <1>8, <1>11, <3>1
  <2>2. CASE p # 0
    <3>1. s = p - 1 /\ a = p + m
      BY <1>8, <1>9, <1>10, <2>2
    <3> QED BY <1>4, <1>5, <1>8, <1>11, <2>2, <3>1
  <2> QED BY <2>1, <2>2
<1> QED BY <1>12, Zenon DEF x, a, b

LEMMA StartStep ==
  ASSUME WheelInv, ScanStart
  PROVE  WheelInv' /\ Abstract!Tick
<1> DEFINE x == (cursor + 1) % SortLinkLen
<1>1. /\ ~scan /\ scan' = TRUE /\ cursor' = x
      /\ slots' = slots /\ index' = index /\ rolls' = rolls
  BY DEF ScanStart
<1>2. x \in Slot
  BY WheelLists, AheadNext
<1> HIDE DEF x
<1>3. WheelInv'
  BY <1>1, <1>2 DEF WheelInv, IndexAgrees, WheelTypeOK, TurnsBounded
<1>4. \A t \in Task : (Linked(t)' <=> Linked(t)) /\ TurnsLeft(t)' = TurnsLeft(t)
  BY <1>1 DEF Linked, TurnsLeft
<1>5. \A t \in Task : /\ TicksLeft(t)' = IF TicksLeft(t) > 1 THEN TicksLeft(t) - 1 ELSE TicksLeft(t)
                      /\ TicksLeft(t) = 1 <=> Linked(t) /\ index[t] = x /\ TurnsLeft(t) = 0
  <2> SUFFICES ASSUME NEW t \in Task
               PROVE  /\ TicksLeft(t)' = IF TicksLeft(t) > 1 THEN TicksLeft(t) - 1 ELSE TicksLeft(t)
                      /\ TicksLeft(t) = 1 <=> Linked(t) /\ index[t] = x /\ TurnsLeft(t) = 0
    OBVIOUS
  <2>1. CASE Linked(t)
    <3> DEFINE a == Ticks(index[t], TurnsLeft(t), cursor, FALSE)
    <3>1. index[t] \in Slot /\ TurnsLeft(t) \in Nat /\ cursor \in Slot /\ scan = FALSE
      BY <1>1, <2>1, WheelLists
    <3>2. /\ Ticks(index[t], TurnsLeft(t), x, TRUE) = IF a > 1 THEN a - 1 ELSE a
          /\ a = 1 <=> index[t] = x /\ TurnsLeft(t) = 0
      BY <3>1, TicksNext, Zenon DEF x
    <3>3. TicksLeft(t) = a
      BY <2>1, <3>1, TicksIs
    <3>4. TicksLeft(t)' = Ticks(index[t], TurnsLeft(t), x, TRUE)
      BY <1>1, <1>4, <2>1, NextTicksIs
    <3> HIDE DEF a
    <3> QED BY <2>1, <3>2, <3>3, <3>4
  <2>2. CASE ~Linked(t)
    BY <1>4, <2>2, TicksIs, NextTicksIs
  <2> QED BY <2>1, <2>2
<1>6. Due' = {t \in Task : TicksLeft(t) = 1}
  BY <1>1, <1>4, <1>5 DEF Due
<1>7. Abstract!Tick
  <2> DEFINE timer == [t \in Task |-> TicksLeft(t)]
  <2>1. [t \in Task |-> TicksLeft(t)'] = [t \in Task |-> IF timer[t] > 1 THEN timer[t] - 1 ELSE timer[t]]
    BY <1>5
  <2>2. Due' = {t \in Task : timer[t] = 1}
    BY <1>6
  <2> QED BY <1>1, <2>1, <2>2, Zenon DEF Abstract!Tick
<1> QED BY <1>3, <1>7

LEMMA ExpireStep ==
  ASSUME WheelInv, NEW t \in Task, ScanExpire(t)
  PROVE  WheelInv' /\ Abstract!Expire(t)
<1> DEFINE i == cursor
           q == slots[i]
           l == Tail(q)
<1>1. /\ scan /\ q # <<>> /\ t = Head(q) /\ rolls[Head(q)] = 0
      /\ slots' = [slots EXCEPT ![i] = l]
      /\ cursor' = cursor /\ index' = index /\ rolls' = rolls /\ scan' = scan
  BY DEF ScanExpire
<1>2. i \in Slot /\ Delta(Task, q, rolls)
  BY WheelLists
<1>3. /\ Delta(Task, l, rolls) /\ ToSet(l) = ToSet(q) \ {t}
      /\ t \in ToSet(q) /\ TimeOf(q, rolls, t) = 0
      /\ \A u \in ToSet(l) : TimeOf(l, rolls, u) = TimeOf(q, rolls, u)
  <2> HIDE DEF q
  <2>1. /\ Delta(Task, Tail(q), rolls) /\ ToSet(Tail(q)) = ToSet(q) \ {Head(q)}
        /\ Head(q) \in ToSet(q) /\ TimeOf(q, rolls, Head(q)) = 0
        /\ \A u \in ToSet(Tail(q)) : TimeOf(Tail(q), rolls, u) = TimeOf(q, rolls, u)
    <3>1. Popped(Task, q, rolls)
      BY <1>1, <1>2, TailKeepsTimes
    <3> QED BY <3>1 DEF Popped
  <2> QED BY <1>1, <2>1, Zenon
<1> HIDE DEF l
<1>6. \A u \in ToSet(q) : /\ u \in ToSet(slots[i]) /\ u \in Task /\ index'[u] = i /\ Linked(u) /\ index[u] = i
                          /\ TimeOf(q, rolls, u) <= MaxRolls /\ TurnsLeft(u) = TimeOf(q, rolls, u)
  BY <1>1, <1>2, WheelLists, MaxRollsNat DEF q
<1> HIDE DEF q
<1>7. /\ WheelInv'
      /\ \A u \in Task : Linked(u)' <=> u \in ToSet(l) \/ (Linked(u) /\ index[u] # i)
      /\ \A u \in ToSet(l) : TurnsLeft(u)' = TimeOf(l, rolls, u)
      /\ \A u \in Task : Linked(u) /\ index[u] # i =>
           index'[u] = index[u] /\ TurnsLeft(u)' = TurnsLeft(u)
  <2>1. \A u \in ToSet(l) : /\ u \in ToSet(slots[i]) \/ ~Linked(u)
                            /\ index'[u] = i /\ TimeOf(l, rolls', u) <= MaxRolls
    BY <1>1, <1>3, <1>6
  <2>2. \A u \in Task \ ToSet(l) : rolls'[u] = rolls[u] /\ index'[u] = index[u]
    BY <1>1
  <2>3. cursor' \in Slot /\ scan' \in BOOLEAN /\ index' \in [Task -> Slot] /\ Delta(Task, l, rolls')
    BY <1>1, <1>3, WheelLists
  <2> QED BY <1>1, <1>2, <2>1, <2>2, <2>3, SlotChanged
<1>8. \A u \in Task : u # t => /\ TicksLeft(u)' = TicksLeft(u)
                               /\ u \in Due' <=> u \in Due
  <2> SUFFICES ASSUME NEW u \in Task, u # t
               PROVE  TicksLeft(u)' = TicksLeft(u) /\ (u \in Due' <=> u \in Due)
    OBVIOUS
  <2>1. /\ Linked(u)' <=> Linked(u)
        /\ Linked(u) => index'[u] = index[u] /\ TurnsLeft(u)' = TurnsLeft(u)
    <3>1. CASE u \in ToSet(q)
      BY <1>1, <1>3, <1>6, <1>7, <3>1
    <3>2. CASE u \notin ToSet(q)
      <4>1. u \notin ToSet(l) /\ (Linked(u) => index[u] # i)
        BY <1>3, <3>2, WheelLists DEF q
      <4> QED BY <1>7, <4>1
    <3> QED BY <3>1, <3>2
  <2>2. TicksLeft(u)' = TicksLeft(u)
    BY <1>1, <2>1, TicksKept
  <2> QED BY <1>1, <2>1, <2>2 DEF Due
<1>9. TicksLeft(t)' = 0 /\ t \notin Due' /\ t \in Due
  <2>1. ~Linked(t)'
    BY <1>3, <1>6, <1>7
  <2>2. Linked(t) /\ index[t] = cursor /\ TurnsLeft(t) = 0
    BY <1>3, <1>6
  <2> QED BY <1>1, <2>1, <2>2, NextTicksIs DEF Due
<1>10. Abstract!Expire(t)
  <2>1. \A u \in Task : TicksLeft(u)' = IF u = t THEN 0 ELSE TicksLeft(u)
    BY <1>8, <1>9
  <2>2. [u \in Task |-> TicksLeft(u)'] = [[u \in Task |-> TicksLeft(u)] EXCEPT ![t] = 0]
    BY <2>1, OneTimer
  <2>3. Due' = Due \ {t}
    <3>1. Due \subseteq Task /\ Due' \subseteq Task
      BY DEF Due
    <3> QED BY <1>8, <1>9, <3>1
  <2> QED BY <1>1, <1>9, <2>2, <2>3, Zenon DEF Abstract!Expire
<1> QED BY <1>7, <1>10

LEMMA EndStep ==
  ASSUME WheelInv, ScanEnd
  PROVE  WheelInv' /\ Abstract!Done
<1> DEFINE i == cursor
           q == slots[i]
<1>1. scan /\ scan' = FALSE /\ cursor' = cursor /\ slots' = slots /\ index' = index
  BY DEF ScanEnd
<1>2. i \in Slot /\ Delta(Task, q, rolls) /\ slots' = [slots EXCEPT ![i] = q]
  BY <1>1, WheelLists
<1>3. \A u \in ToSet(q) : /\ u \in ToSet(slots[i]) /\ u \in Task /\ index'[u] = i /\ Linked(u)
                          /\ index[u] = i /\ TurnsLeft(u) = TimeOf(q, rolls, u)
                          /\ TurnsLeft(u) \in 0 .. MaxRolls
  BY <1>1, <1>2, WheelLists
<1>4. /\ Delta(Task, q, rolls') /\ \A u \in Task \ ToSet(q) : rolls'[u] = rolls[u]
      /\ \A u \in ToSet(q) : /\ TimeOf(q, rolls, u) \in Nat /\ TimeOf(q, rolls, u) > 0
                             /\ TimeOf(q, rolls', u) = TimeOf(q, rolls, u) - 1
  <2>1. CASE q = <<>> /\ UNCHANGED rolls
    <3>1. ToSet(q) = {} /\ rolls' = rolls
      BY <2>1 DEF ToSet
    <3> QED BY <1>2, <3>1
  <2>2. CASE q # <<>> /\ rolls[Head(q)] > 0 /\ rolls' = [rolls EXCEPT ![Head(q)] = @ - 1]
    <3> HIDE DEF q
    <3>1. Head(q) \in ToSet(q) /\ Head(q) \in Task /\ rolls \in [Task -> Nat]
      <4>1. q \in Seq(Task) /\ Len(q) \in Nat /\ 1 \in 1 .. Len(q) /\ Head(q) = q[1]
        BY <1>2, <2>2 DEF Delta
      <4>2. q[1] \in ToSet(q) /\ q[1] \in Task
        BY <1>2, <4>1, DeltaNodes
      <4> QED BY <4>1, <4>2, WheelLists
    <3> DEFINE e == rolls'
    <3>2. /\ e \in [Task -> Int] /\ e[Head(q)] = rolls[Head(q)] - 1
          /\ \A u \in Task \ {Head(q)} : e[u] = rolls[u]
      BY <2>2, <3>1
    <3> HIDE DEF e
    <3>3. /\ Delta(Task, q, e)
          /\ \A u \in ToSet(q) : /\ TimeOf(q, rolls, u) \in Nat /\ TimeOf(q, rolls, u) > 0
                                 /\ TimeOf(q, e, u) = TimeOf(q, rolls, u) - 1
      BY <1>2, <2>2, <3>2, HeadCountsAll, SMTT(60)
    <3> QED BY <3>1, <3>2, <3>3 DEF e
  <2> QED BY <2>1, <2>2 DEF ScanEnd
<1> HIDE DEF q
<1>5. /\ WheelInv'
      /\ \A u \in Task : Linked(u)' <=> u \in ToSet(q) \/ (Linked(u) /\ index[u] # i)
      /\ \A u \in ToSet(q) : TurnsLeft(u)' = TimeOf(q, rolls', u)
      /\ \A u \in Task : Linked(u) /\ index[u] # i =>
           index'[u] = index[u] /\ TurnsLeft(u)' = TurnsLeft(u)
  <2>1. \A u \in ToSet(q) : TimeOf(q, rolls', u) <= MaxRolls
    <3> SUFFICES ASSUME NEW u \in ToSet(q) PROVE TimeOf(q, rolls', u) <= MaxRolls
      OBVIOUS
    <3>1. TimeOf(q, rolls, u) <= MaxRolls /\ TimeOf(q, rolls', u) = TimeOf(q, rolls, u) - 1
      BY <1>3, <1>4, MaxRollsNat
    <3>2. TimeOf(q, rolls, u) \in Nat
      BY <1>4
    <3> QED BY <3>1, <3>2, MaxRollsNat
  <2>2. \A u \in ToSet(q) : /\ u \in ToSet(slots[i]) \/ ~Linked(u)
                            /\ index'[u] = i /\ TimeOf(q, rolls', u) <= MaxRolls
    BY <1>3, <2>1
  <2>3. \A u \in Task \ ToSet(q) : rolls'[u] = rolls[u] /\ index'[u] = index[u]
    BY <1>1, <1>4
  <2>4. cursor' \in Slot /\ scan' \in BOOLEAN /\ index' \in [Task -> Slot]
    BY <1>1, WheelLists
  <2> QED BY <1>2, <1>4, <2>2, <2>3, <2>4, SlotChanged
<1>6. ASSUME NEW u \in Task PROVE TicksLeft(u)' = TicksLeft(u) /\ u \notin Due /\ u \notin Due'
  <2>0. u \notin Due'
    BY <1>1 DEF Due
  <2>1. CASE u \in ToSet(q)
    <3> DEFINE r == TurnsLeft(u)
    <3>1. /\ Linked(u) /\ index[u] = i /\ r \in Nat /\ r > 0
          /\ Linked(u)' /\ index'[u] = i /\ TurnsLeft(u)' = r - 1
      BY <1>3, <1>4, <1>5, <2>1
    <3> HIDE DEF r
    <3>2. TicksLeft(u) = Ticks(i, r, i, TRUE)
      BY <1>1, <3>1, TicksIs, WheelLists DEF r
    <3>3. TicksLeft(u)' = Ticks(i, r - 1, i, FALSE)
      BY <1>1, <3>1, NextTicksIs
    <3>4. Ahead(i, i) = 0 /\ (r - 1) + 1 = r /\ r # 0
      BY <1>2, <3>1, AheadIs
    <3>5. Ticks(i, r, i, TRUE) = r * SortLinkLen
      BY <3>4 DEF Ticks
    <3>6. Ticks(i, r - 1, i, FALSE) = ((r - 1) + 1) * SortLinkLen
      BY <3>4 DEF Ticks
    <3>7. TicksLeft(u)' = TicksLeft(u)
      BY <3>2, <3>3, <3>4, <3>5, <3>6, Zenon
    <3>8. u \notin Due
      BY <3>1 DEF Due, r
    <3> QED BY <2>0, <3>7, <3>8
  <2>2. CASE u \notin ToSet(q)
    <3>1. Linked(u) => index[u] # i
      BY <2>2, WheelLists DEF q
    <3>2. (Linked(u)' <=> Linked(u)) /\ (Linked(u) => index'[u] = index[u] /\ TurnsLeft(u)' = TurnsLeft(u))
      BY <1>5, <2>2, <3>1
    <3>3. CASE Linked(u)
      <4> DEFINE j == index[u]
                 r == TurnsLeft(u)
      <4>1. j \in Slot /\ r \in Nat /\ Ahead(j, i) > 0
        <5>1. j \in Slot /\ r \in Nat /\ j # i
          BY <3>1, <3>3, WheelLists
        <5>2. Ahead(j, i) \in Slot /\ Ahead(j, i) # 0
          BY <1>2, <5>1, AheadIs
        <5> QED BY <5>1, <5>2, WheelAssumption DEF Slot
      <4>2. TicksLeft(u) = Ticks(j, r, i, scan)
        BY <3>3, TicksIs
      <4>3. TicksLeft(u)' = Ticks(j, r, i, scan')
        BY <1>1, <3>2, <3>3, NextTicksIs
      <4>4. \A sc \in BOOLEAN : Ticks(j, r, i, sc) = Ahead(j, i) + r * SortLinkLen
        BY <4>1 DEF Ticks
      <4>5. scan \in BOOLEAN /\ scan' \in BOOLEAN
        BY <1>1, WheelLists
      <4>6. TicksLeft(u)' = TicksLeft(u)
        BY <4>2, <4>3, <4>4, <4>5, Zenon
      <4>7. u \notin Due
        BY <3>1, <3>3 DEF Due
      <4> QED BY <2>0, <4>6, <4>7
    <3>4. CASE ~Linked(u)
      BY <2>0, <3>2, <3>4, TicksIs, NextTicksIs DEF Due
    <3> QED BY <3>3, <3>4
  <2> QED BY <2>1, <2>2
<1>7. Abstract!Done
  <2>1. Due = {} /\ Due' = {}
    BY <1>6 DEF Due
  <2>2. [u \in Task |-> TicksLeft(u)'] = [u \in Task |-> TicksLeft(u)]
    BY <1>6
  <2> QED BY <1>1, <2>1, <2>2, Zenon DEF Abstract!Done
<1> QED BY <1>5, <1>7

----------------------------------------------------------------------------
\* The nodes of the sort link agree with the tasks' indices.

LEMMA WheelInitial == Init => WheelInv /\ Abstract!Init
<1> SUFFICES ASSUME Init PROVE WheelInv /\ Abstract!Init
  OBVIOUS
<1>1. /\ cursor = 0 /\ slots = [i \in Slot |-> <<>>] /\ index = [t \in Task |-> 0]
      /\ rolls = [t \in Task |-> 0] /\ scan = FALSE
  BY DEF Init
<1>2. 0 \in Slot /\ 0 \in 0 .. MaxRolls
  BY WheelAssumption, MaxRollsNat DEF Slot
<1>3. \A i \in Slot : slots[i] = <<>> /\ ToSet(slots[i]) = {} /\ IsInjective(slots[i])
  BY <1>1 DEF ToSet, IsInjective
<1>4. WheelInv
  BY <1>1, <1>2, <1>3 DEF WheelInv, IndexAgrees, WheelTypeOK, TurnsBounded
<1>5. \A t \in Task : ~Linked(t) /\ TicksLeft(t) = 0
  <2>1. \A t \in Task : ~Linked(t)
    BY <1>3 DEF Linked
  <2> QED BY <2>1, TicksIs
<1>6. Due = {}
  BY <1>1 DEF Due
<1>7. [t \in Task |-> TicksLeft(t)] = [t \in Task |-> 0]
  BY <1>5
<1> QED BY <1>1, <1>4, <1>6, <1>7, Zenon DEF Abstract!Init

\* Every step of the wheel keeps the invariant, and is a step of the countdown.
LEMMA WheelNext == WheelInv /\ [Next]_vars => WheelInv' /\ [Abstract!Next]_(Abstract!cvars)
<1> SUFFICES ASSUME WheelInv, [Next]_vars PROVE WheelInv' /\ [Abstract!Next]_(Abstract!cvars)
  OBVIOUS
<1>1. CASE \E t \in Task, n \in 1 .. MaxTicks : osTaskAdd2TimerList(t, n)
  <2>1. PICK t \in Task, n \in 1 .. MaxTicks : osTaskAdd2TimerList(t, n)
    BY <1>1, Zenon
  <2>2. WheelInv' /\ Abstract!Add(t, n)
    BY <2>1, AddStep, Zenon
  <2> QED BY <2>2, Zenon DEF Abstract!Next
<1>2. CASE \E t \in Task : osTimerListDelete(t)
  <2>1. PICK t \in Task : osTimerListDelete(t)
    BY <1>2, Zenon
  <2>2. WheelInv' /\ Abstract!Delete(t)
    BY <2>1, DeleteStep, Zenon
  <2> QED BY <2>2, Zenon DEF Abstract!Next
<1>3. CASE ScanStart
  BY <1>3, StartStep, Zenon DEF Abstract!Next
<1>4. CASE \E t \in Task : ScanExpire(t)
  <2>1. PICK t \in Task : ScanExpire(t)
    BY <1>4, Zenon
  <2>2. WheelInv' /\ Abstract!Expire(t)
    BY <2>1, ExpireStep, Zenon
  <2> QED BY <2>2, Zenon DEF Abstract!Next
<1>5. CASE ScanEnd
  BY <1>5, EndStep, Zenon DEF Abstract!Next
<1>6. CASE UNCHANGED vars
  <2>1. /\ cursor' = cursor /\ slots' = slots /\ index' = index /\ rolls' = rolls /\ scan' = scan
    BY <1>6 DEF vars
  <2>2. WheelInv'
    BY <2>1 DEF WheelInv, IndexAgrees, WheelTypeOK, TurnsBounded
  <2>3. \A t \in Task : TicksLeft(t)' = TicksLeft(t)
    BY <2>1 DEF TicksLeft, Linked, TurnsLeft
  <2>4. Due' = Due
    BY <2>1 DEF Due, Linked, TurnsLeft
  <2>5. [t \in Task |-> TicksLeft(t)'] = [t \in Task |-> TicksLeft(t)]
    BY <2>3
  <2> QED BY <2>1, <2>2, <2>4, <2>5, Zenon DEF Abstract!cvars
<1> QED BY <1>1, <1>2, <1>3, <1>4, <1>5, <1>6, Zenon DEF Next

LEMMA WheelInvariant == Spec => []WheelInv
<1>1. Init => WheelInv
  BY WheelInitial, Zenon
<1>2. WheelInv /\ [Next]_vars => WheelInv'
  BY WheelNext, Zenon
<1> QED BY <1>1, <1>2, PTL DEF Spec

\* A task's timer is in one slot, the one its index says, and there once: osTimerListDelete
\* finds the end of the list in the slot of the index (los_task.c).
THEOREM WheelIndexAgrees == Spec => []IndexAgrees
<1>1. WheelInv => IndexAgrees
  BY DEF WheelInv
<1> QED BY <1>1, WheelInvariant, PTL

\* The sort link implements the countdown LosTask works with: whatever the number of slots,
\* a timer set to n ticks expires in the n-th tick, however other timers are added to and
\* deleted from its slot meanwhile, also in the middle of the scan.
THEOREM WheelImplementsCountdown == Spec => ImplementsCountdown
<1>1. Init => Abstract!Init
  BY WheelInitial, Zenon
<1>2. WheelInv /\ [Next]_vars => [Abstract!Next]_(Abstract!cvars)
  BY WheelNext, Zenon
<1> QED BY <1>1, <1>2, WheelInvariant, PTL DEF Spec, ImplementsCountdown, Abstract!Spec

----------------------------------------------------------------------------
\* The software timers: what osSwTmrStart and osSwtmrStop return.

LEMMA IntervalFacts == Interval \subseteq Nat /\ 0 \notin Interval
<1>1. Interval \subseteq Nat \ {0}
  BY SwtmrAssumption, Zenon
<1> QED BY <1>1

\* A list of running timers and its control blocks.
Good(s) == s.cb \in [Timer -> Block] /\ Delta(Timer, s.list, Counts(s))

TimeIn(s, t) == TimeOf(s.list, Counts(s), t)

LEMMA CountsAre ==
  ASSUME NEW s, s.cb \in [Timer -> Block]
  PROVE  Counts(s) \in [Timer -> Nat] /\ \A t \in Timer : Counts(s)[t] = s.cb[t].count
BY DEF Counts, Block

\* Only state, mode and identifier of a block are looked at apart from its count.
SameBut(c, d, t) ==
  \A u \in Timer :
    /\ d[u].id = c[u].id /\ d[u].mode = c[u].mode /\ d[u].interval = c[u].interval
    /\ u # t => d[u].state = c[u].state

\* To give a block another state or count keeps it a block.
With(b, st, n) == [b EXCEPT !.state = st, !.count = n]

LEMMA BlockWith ==
  ASSUME NEW b \in Block, NEW st \in {"UNUSED", "CREATED", "TICKING"}, NEW n \in Int
  PROVE  /\ With(b, st, n).state = st /\ With(b, st, n).count = n
         /\ With(b, st, n).id = b.id /\ With(b, st, n).mode = b.mode
         /\ With(b, st, n).interval = b.interval
         /\ n \in Nat => With(b, st, n) \in Block
BY DEF Block, With

LEMMA StartIs ==
  ASSUME NEW s, Good(s), NEW t \in Timer \ ToSet(s.list)
  PROVE  LET z == osSwTmrStart(s, t)
         IN  /\ Good(z) /\ SameBut(s.cb, z.cb, t) /\ z.cb[t].state = "TICKING"
             /\ ToSet(z.list) = ToSet(s.list) \cup {t}
             /\ TimeIn(z, t) = s.cb[t].interval
             /\ \A u \in ToSet(s.list) : TimeIn(z, u) = TimeIn(s, u)
<1> DEFINE q == s.list
           d == Counts(s)
           n == s.cb[t].interval
           k == PlaceFor(q, d, n)
           a == n - Until(q, d, k - 1)
           b == Until(q, d, k) - n
           c == [s.cb EXCEPT ![t].state = "TICKING", ![t].count = a]
           z == osSwTmrStart(s, t)
           e == Counts(z)
<1>1. /\ z.cb = IF k > Len(q) THEN c ELSE [c EXCEPT ![q[k]].count = b]
      /\ z.list = InsertAt(q, k, t)
  BY DEF osSwTmrStart, TimeGet
<1>2. /\ s.cb \in [Timer -> Block] /\ Delta(Timer, q, d) /\ d \in [Timer -> Nat]
      /\ \A u \in Timer : d[u] = s.cb[u].count /\ s.cb[u] \in Block
      /\ n \in Nat /\ t \in Timer /\ t \notin ToSet(q)
  <2>1. s.cb \in [Timer -> Block] /\ Delta(Timer, q, d)
    BY DEF Good
  <2>2. n \in Nat
    <3>1. s.cb[t] \in Block
      BY <2>1
    <3>2. s.cb[t].interval \in Interval \cup {0}
      BY <3>1 DEF Block
    <3>3. s.cb[t].interval \in Interval \/ s.cb[t].interval = 0
      BY <3>2, Zenon
    <3>4. \A m \in Interval : m \in Nat
      BY IntervalFacts, Zenon
    <3>5. 0 \in Nat
      OBVIOUS
    <3> QED BY <3>3, <3>4, <3>5, Zenon
  <2> QED BY <2>1, <2>2, CountsAre
<1> HIDE DEF z, e, q, d, n
<1>3. /\ k \in 1 .. Len(q) + 1 /\ Len(q) \in Nat /\ a \in Int
      /\ k <= Len(q) => q[k] \in Timer /\ q[k] \in ToSet(q) /\ b \in Int
      /\ \A u \in ToSet(q) : u \in Timer
  <2>1. k \in 1 .. Len(q) + 1 /\ Len(q) \in Nat
    BY <1>2, PlaceForIs, DeltaNodes
  <2> HIDE DEF k
  <2>2. k - 1 \in 0 .. Len(q) /\ (k <= Len(q) => k \in 0 .. Len(q) /\ k \in 1 .. Len(q))
    BY <2>1
  <2>3. Until(q, d, k - 1) \in Nat /\ (k <= Len(q) => Until(q, d, k) \in Nat)
    BY <1>2, <2>2, UntilNat
  <2> QED BY <1>2, <2>1, <2>2, <2>3, DeltaNodes
<1> HIDE DEF k
<1> HIDE DEF a, b, c
<1>4. /\ \A u \in Timer \ {t} : c[u] = s.cb[u]
      /\ DOMAIN c = Timer
      /\ c[t] = With(s.cb[t], "TICKING", a)
  BY <1>2 DEF c, With
<1>5. /\ DOMAIN z.cb = Timer
      /\ \A u \in Timer : ~(k <= Len(q) /\ u = q[k]) => z.cb[u] = c[u]
      /\ k <= Len(q) => z.cb[q[k]] = With(s.cb[q[k]], s.cb[q[k]].state, b)
  <2>1. CASE k > Len(q)
    BY <1>1, <1>3, <1>4, <2>1
  <2>2. CASE ~(k > Len(q))
    <3> DEFINE x == q[k]
    <3>1. x \in Timer /\ x # t /\ k <= Len(q)
      BY <1>2, <1>3, <2>2
    <3>2. z.cb = [c EXCEPT ![x].count = b]
      BY <1>1, <2>2
    <3> HIDE DEF x
    <3>3. /\ DOMAIN z.cb = Timer /\ \A u \in Timer : u # x => z.cb[u] = c[u]
          /\ z.cb[x] = [c[x] EXCEPT !.count = b]
      BY <1>4, <3>1, <3>2
    <3>4. [s.cb[x] EXCEPT !.count = b] = With(s.cb[x], s.cb[x].state, b)
      BY <1>2, <3>1 DEF Block, With
    <3> QED BY <1>4, <3>1, <3>3, <3>4 DEF x
  <2> QED BY <2>1, <2>2
<1>6. /\ z.cb[t].count = a /\ z.cb[t].state = "TICKING" /\ SameBut(s.cb, z.cb, t)
      /\ k <= Len(q) => z.cb[q[k]].count = b
      /\ \A u \in Timer \ {t} : ~(k <= Len(q) /\ u = q[k]) => z.cb[u].count = s.cb[u].count
  <2>1. /\ z.cb[t] = With(s.cb[t], "TICKING", a)
        /\ k <= Len(q) => q[k] \in Timer \ {t}
        /\ \A u \in Timer \ {t} : ~(k <= Len(q) /\ u = q[k]) => z.cb[u] = s.cb[u]
    BY <1>2, <1>3, <1>4, <1>5
  <2>2. /\ z.cb[t].count = a /\ z.cb[t].state = "TICKING" /\ z.cb[t].id = s.cb[t].id
        /\ z.cb[t].mode = s.cb[t].mode /\ z.cb[t].interval = s.cb[t].interval
    <3> DEFINE r == s.cb[t]
               w == With(r, "TICKING", a)
    <3>1. r \in Block /\ a \in Int /\ "TICKING" \in {"UNUSED", "CREATED", "TICKING"}
      BY <1>2, <1>3
    <3> HIDE DEF r
    <3>2. /\ w.count = a /\ w.state = "TICKING" /\ w.id = r.id
          /\ w.mode = r.mode /\ w.interval = r.interval
      BY <3>1, BlockWith
    <3>3. z.cb[t] = w
      BY <2>1 DEF r
    <3> HIDE DEF w
    <3> QED BY <3>2, <3>3, Zenon DEF r
  <2>3. k <= Len(q) => /\ z.cb[q[k]].count = b /\ z.cb[q[k]].state = s.cb[q[k]].state
                       /\ z.cb[q[k]].id = s.cb[q[k]].id /\ z.cb[q[k]].mode = s.cb[q[k]].mode
                       /\ z.cb[q[k]].interval = s.cb[q[k]].interval
    <3> SUFFICES ASSUME k <= Len(q)
                 PROVE  /\ z.cb[q[k]].count = b /\ z.cb[q[k]].state = s.cb[q[k]].state
                        /\ z.cb[q[k]].id = s.cb[q[k]].id /\ z.cb[q[k]].mode = s.cb[q[k]].mode
                        /\ z.cb[q[k]].interval = s.cb[q[k]].interval
      OBVIOUS
    <3>1. s.cb[q[k]] \in Block /\ s.cb[q[k]].state \in {"UNUSED", "CREATED", "TICKING"} /\ b \in Int
      BY <1>2, <1>3, <2>1 DEF Block
    <3> DEFINE r == s.cb[q[k]]
               st == r.state
               w == With(r, st, b)
    <3>a. r \in Block /\ st \in {"UNUSED", "CREATED", "TICKING"} /\ b \in Int
      BY <3>1
    <3>3. z.cb[q[k]] = w
      BY <1>5
    <3> HIDE DEF r, st
    <3>2. /\ w.count = b /\ w.state = st /\ w.id = r.id
          /\ w.mode = r.mode /\ w.interval = r.interval
      BY <3>a DEF With, Block
    <3> HIDE DEF w
    <3> QED BY <3>2, <3>3, Zenon DEF r, st
  <2>4. SameBut(s.cb, z.cb, t)
    <3> SUFFICES ASSUME NEW u \in Timer
                 PROVE  /\ z.cb[u].id = s.cb[u].id /\ z.cb[u].mode = s.cb[u].mode
                        /\ z.cb[u].interval = s.cb[u].interval
                        /\ u # t => z.cb[u].state = s.cb[u].state
      BY DEF SameBut
    <3>1. CASE u = t
      BY <2>2, <3>1
    <3>2. CASE u # t /\ k <= Len(q) /\ u = q[k]
      BY <2>3, <3>2
    <3>3. CASE u # t /\ ~(k <= Len(q) /\ u = q[k])
      BY <2>1, <3>3
    <3> QED BY <3>1, <3>2, <3>3
  <2> QED BY <2>1, <2>2, <2>3, <2>4
<1>7. \A u \in Timer : e[u] = z.cb[u].count
  BY DEF e, Counts
<1>8. /\ e[t] = a
      /\ k <= Len(q) => e[q[k]] = b
      /\ \A u \in Timer \ {t} : ~(k <= Len(q) /\ u = q[k]) => e[u] = d[u]
  BY <1>2, <1>3, <1>6, <1>7
<1>9. e \in [Timer -> Int]
  <2>1. ASSUME NEW u \in Timer PROVE e[u] \in Int
    BY <1>2, <1>3, <1>8
  <2>2. e = [u \in Timer |-> e[u]]
    BY DEF e, Counts
  <2> QED BY <2>1, <2>2
<1>10. Inserted(q, d, t, n, e)
  <2>1. e[t] = n - Until(q, d, k - 1)
    BY <1>8 DEF a
  <2>2. k <= Len(q) => e[q[k]] = Until(q, d, k) - n
    BY <1>8 DEF b
  <2>3. ASSUME NEW u \in ToSet(q), k > Len(q) \/ u # q[k] PROVE e[u] = d[u]
    <3>1. u \in Timer \ {t} /\ ~(k <= Len(q) /\ u = q[k])
      BY <1>2, <1>3, <2>3
    <3> QED BY <1>8, <3>1
  <2> QED BY <2>1, <2>2, <2>3, Zenon DEF Inserted, k
<1>11. \A u \in Timer \ (ToSet(q) \cup {t}) : e[u] = d[u]
  BY <1>3, <1>8
<1> DEFINE l == z.list
<1>12. l = InsertAt(q, PlaceFor(q, d, n), t)
  BY <1>1 DEF k
<1> HIDE DEF l
<1>13. /\ Delta(Timer, l, e) /\ ToSet(l) = ToSet(q) \cup {t}
       /\ TimeOf(l, e, t) = n
       /\ \A u \in ToSet(q) : TimeOf(l, e, u) = TimeOf(q, d, u)
  <2>1. t \in Timer \ ToSet(q) /\ Delta(Timer, q, d) /\ n \in Nat
    BY <1>2
  <2> QED BY <2>1, <1>9, <1>10, <1>11, <1>12, InsertKeepsTimes, SMTT(60)
<1>14. z.cb \in [Timer -> Block]
  <2> SUFFICES ASSUME NEW u \in Timer PROVE z.cb[u] \in Block
    <3>1. z.cb = [u \in Timer |-> z.cb[u]]
      <4>1. CASE k > Len(q)
        BY <1>1, <1>2, <4>1 DEF c
      <4>2. CASE ~(k > Len(q))
        <5>1. z.cb = [c EXCEPT ![q[k]].count = b]
          BY <1>1, <4>2
        <5> QED BY <1>2, <5>1 DEF c
      <4> QED BY <4>1, <4>2
    <3> QED BY <3>1
  <2>0. e[u] \in Nat /\ z.cb[u].count = e[u]
    BY <1>7, <1>13 DEF Delta
  <2>1. CASE u = t
    <3>1. z.cb[u] = With(s.cb[t], "TICKING", a) /\ a \in Nat
      BY <1>2, <1>3, <1>4, <1>5, <1>6, <2>0, <2>1
    <3> QED BY <1>2, <1>3, <3>1, BlockWith
  <2>2. CASE k <= Len(q) /\ u = q[k]
    <3>1. z.cb[u] = With(s.cb[u], s.cb[u].state, b) /\ b \in Nat
      BY <1>3, <1>5, <1>6, <2>0, <2>2
    <3>2. s.cb[u] \in Block /\ s.cb[u].state \in {"UNUSED", "CREATED", "TICKING"} /\ b \in Int
      BY <1>2, <1>3, <2>2 DEF Block
    <3> QED BY <3>1, <3>2, BlockWith
  <2>3. CASE u # t /\ ~(k <= Len(q) /\ u = q[k])
    BY <1>2, <1>4, <1>5, <2>3
  <2> QED BY <2>1, <2>2, <2>3
<1>15. /\ Good(z) /\ SameBut(s.cb, z.cb, t) /\ z.cb[t].state = "TICKING"
       /\ ToSet(z.list) = ToSet(s.list) \cup {t} /\ TimeIn(z, t) = s.cb[t].interval
       /\ \A u \in ToSet(s.list) : TimeIn(z, u) = TimeIn(s, u)
  BY <1>6, <1>13, <1>14 DEF Good, TimeIn, l, e, q, d, n
<1> QED BY <1>15 DEF z

LEMMA StopIs ==
  ASSUME NEW s, Good(s), NEW t \in ToSet(s.list)
  PROVE  LET z == osSwtmrStop(s, t)
         IN  /\ Good(z) /\ SameBut(s.cb, z.cb, t) /\ z.cb[t].state = "CREATED"
             /\ ToSet(z.list) = ToSet(s.list) \ {t}
             /\ \A u \in ToSet(z.list) : TimeIn(z, u) = TimeIn(s, u)
<1> DEFINE q == s.list
           d == Counts(s)
           k == PlaceOf(q, t)
           x == q[k + 1]
           b == d[x] + d[t]
           c == [s.cb EXCEPT ![t].state = "CREATED"]
           z == osSwtmrStop(s, t)
           e == Counts(z)
<1>1. /\ s.cb \in [Timer -> Block] /\ Delta(Timer, q, d) /\ d \in [Timer -> Nat]
      /\ \A u \in Timer : d[u] = s.cb[u].count /\ s.cb[u] \in Block
      /\ t \in Timer /\ t \in ToSet(q) /\ ToSet(q) \subseteq Timer
      /\ k \in 1 .. Len(q) /\ Len(q) \in Nat /\ q[k] = t
      /\ k # Len(q) => x \in ToSet(q) /\ x \in Timer /\ x # t /\ b \in Nat
  <2>1. s.cb \in [Timer -> Block] /\ Delta(Timer, q, d)
    BY DEF Good
  <2>2. /\ d \in [Timer -> Nat]
        /\ \A u \in Timer : d[u] = s.cb[u].count /\ s.cb[u] \in Block
    BY <2>1, CountsAre
  <2> HIDE DEF d, q
  <2>3. t \in Timer /\ ToSet(q) \subseteq Timer /\ k \in 1 .. Len(q) /\ Len(q) \in Nat /\ q[k] = t
    BY <2>1, PlaceOfIs DEF q
  <2> HIDE DEF k
  <2>4. ASSUME k # Len(q) PROVE x \in ToSet(q) /\ x \in Timer /\ x # t /\ b \in Nat
    <3>1. k + 1 \in 1 .. Len(q) /\ k + 1 # k
      BY <2>3, <2>4
    <3>2. x \in ToSet(q) /\ x \in Timer /\ x # q[k]
      BY <2>1, <2>3, <3>1, DeltaNodes
    <3> QED BY <2>2, <2>3, <3>2
  <2> QED BY <2>1, <2>2, <2>3, <2>4 DEF q
<1>2. /\ z.cb = IF k = Len(q) THEN c ELSE [c EXCEPT ![x].count = @ + s.cb[t].count]
      /\ z.list = RemoveAt(q, k)
  BY DEF osSwtmrStop
<1> HIDE DEF z, e, q, d, k
<1>3. /\ \A u \in Timer \ {t} : c[u] = s.cb[u]
      /\ DOMAIN c = Timer /\ c[t] = [s.cb[t] EXCEPT !.state = "CREATED"]
  BY <1>1
<1> HIDE DEF c, x
<1>4. /\ DOMAIN z.cb = Timer
      /\ z.cb[t] = [s.cb[t] EXCEPT !.state = "CREATED"]
      /\ \A u \in Timer \ {t} : ~(k # Len(q) /\ u = x) => z.cb[u] = s.cb[u]
      /\ k # Len(q) => z.cb[x] = [s.cb[x] EXCEPT !.count = b]
  <2>1. CASE k = Len(q)
    BY <1>1, <1>2, <1>3, <2>1
  <2>2. CASE k # Len(q)
    <3>1. z.cb = [c EXCEPT ![x].count = @ + s.cb[t].count] /\ x \in Timer /\ x # t
      BY <1>1, <1>2, <2>2
    <3>2. /\ DOMAIN z.cb = Timer /\ \A u \in Timer : u # x => z.cb[u] = c[u]
          /\ z.cb[x] = [c[x] EXCEPT !.count = c[x].count + s.cb[t].count]
      BY <1>3, <3>1
    <3>3. c[x] = s.cb[x] /\ c[x].count + s.cb[t].count = b
      BY <1>1, <1>3, <3>1
    <3>4. z.cb[x] = [s.cb[x] EXCEPT !.count = b]
      BY <3>2, <3>3
    <3> QED BY <1>1, <1>3, <2>2, <3>1, <3>2, <3>4
  <2> QED BY <2>1, <2>2
<1>5. /\ z.cb[t].state = "CREATED" /\ z.cb[t].count = d[t] /\ z.cb[t] \in Block
      /\ z.cb[t].id = s.cb[t].id /\ z.cb[t].mode = s.cb[t].mode
      /\ z.cb[t].interval = s.cb[t].interval
  <2> DEFINE r == s.cb[t]
  <2>1. r \in Block /\ d[t] = r.count
    BY <1>1
  <2>2. z.cb[t] = [r EXCEPT !.state = "CREATED"]
    BY <1>4
  <2> HIDE DEF r
  <2>3. /\ z.cb[t].state = "CREATED" /\ z.cb[t].count = d[t] /\ z.cb[t] \in Block
        /\ z.cb[t].id = r.id /\ z.cb[t].mode = r.mode /\ z.cb[t].interval = r.interval
    BY <2>1, <2>2 DEF Block
  <2> QED BY <2>3 DEF r
<1>6. k # Len(q) => /\ z.cb[x].count = b /\ z.cb[x] \in Block /\ z.cb[x].state = s.cb[x].state
                    /\ z.cb[x].id = s.cb[x].id /\ z.cb[x].mode = s.cb[x].mode
                    /\ z.cb[x].interval = s.cb[x].interval
  <2> SUFFICES ASSUME k # Len(q)
               PROVE  /\ z.cb[x].count = b /\ z.cb[x] \in Block /\ z.cb[x].state = s.cb[x].state
                      /\ z.cb[x].id = s.cb[x].id /\ z.cb[x].mode = s.cb[x].mode
                      /\ z.cb[x].interval = s.cb[x].interval
    OBVIOUS
  <2> DEFINE r == s.cb[x]
  <2>1. r \in Block /\ b \in Nat
    BY <1>1
  <2>2. z.cb[x] = [r EXCEPT !.count = b]
    BY <1>4
  <2> HIDE DEF r, b
  <2>3. /\ z.cb[x].count = b /\ z.cb[x] \in Block /\ z.cb[x].state = r.state
        /\ z.cb[x].id = r.id /\ z.cb[x].mode = r.mode /\ z.cb[x].interval = r.interval
    BY <2>1, <2>2 DEF Block
  <2> QED BY <2>3 DEF r
<1> HIDE DEF b
<1>7. z.cb \in [Timer -> Block] /\ SameBut(s.cb, z.cb, t)
  <2>1. ASSUME NEW u \in Timer
        PROVE  /\ z.cb[u] \in Block /\ z.cb[u].id = s.cb[u].id /\ z.cb[u].mode = s.cb[u].mode
               /\ z.cb[u].interval = s.cb[u].interval /\ (u # t => z.cb[u].state = s.cb[u].state)
    <3>1. CASE u = t
      BY <1>5, <3>1
    <3>2. CASE u # t /\ k # Len(q) /\ u = x
      BY <1>6, <3>2
    <3>3. CASE u # t /\ ~(k # Len(q) /\ u = x)
      BY <1>1, <1>4, <3>3
    <3> QED BY <3>1, <3>2, <3>3
  <2>2. z.cb = [u \in Timer |-> z.cb[u]]
    <3>1. CASE k = Len(q)
      BY <1>1, <1>2, <3>1 DEF c
    <3>2. CASE k # Len(q)
      BY <1>1, <1>2, <3>2 DEF c
    <3> QED BY <3>1, <3>2
  <2>3. SameBut(s.cb, z.cb, t)
    BY <2>1 DEF SameBut
  <2> QED BY <2>1, <2>2, <2>3
<1>8. e \in [Timer -> Nat] /\ \A u \in Timer : e[u] = z.cb[u].count
  BY <1>7, CountsAre DEF e
<1>9. Removed(q, d, t, e)
  <2>1. k < Len(q) => e[q[k + 1]] = d[q[k + 1]] + d[t]
    BY <1>1, <1>6, <1>8 DEF x, b
  <2>2. ASSUME NEW u \in ToSet(q) \ {t}, k = Len(q) \/ u # q[k + 1] PROVE e[u] = d[u]
    <3>1. u \in Timer \ {t} /\ ~(k # Len(q) /\ u = x)
      BY <1>1, <2>2 DEF x
    <3> QED BY <1>1, <1>4, <1>8, <3>1
  <2> QED BY <2>1, <2>2, Zenon DEF Removed, k
<1> DEFINE l == z.list
<1>10. l = RemoveAt(q, PlaceOf(q, t))
  BY <1>2 DEF k
<1> HIDE DEF l
<1>11. /\ Delta(Timer, l, e) /\ ToSet(l) = ToSet(q) \ {t}
       /\ \A u \in ToSet(l) : TimeOf(l, e, u) = TimeOf(q, d, u)
  <2>1. Delta(Timer, q, d) /\ t \in ToSet(q) /\ e \in [Timer -> Nat]
    BY <1>1, <1>8
  <2> QED BY <2>1, <1>9, <1>10, RemoveKeepsTimes, SMTT(60)
<1>12. /\ Good(z) /\ SameBut(s.cb, z.cb, t) /\ z.cb[t].state = "CREATED"
       /\ ToSet(z.list) = ToSet(s.list) \ {t}
       /\ \A u \in ToSet(z.list) : TimeIn(z, u) = TimeIn(s, u)
  BY <1>5, <1>7, <1>11 DEF Good, TimeIn, l, e, q, d
<1> QED BY <1>12 DEF z

----------------------------------------------------------------------------
\* The free list.

LEMMA PairInjective ==
  ASSUME NEW T, NEW a \in Seq(T), NEW b \in Seq(T)
  PROVE  /\ ToSet(a \o b) = ToSet(a) \cup ToSet(b)
         /\ IsInjective(a \o b) <=>
              IsInjective(a) /\ IsInjective(b) /\ ToSet(a) \cap ToSet(b) = {}
<1> DEFINE c == a \o b
<1>1. /\ c \in Seq(T) /\ Len(c) = Len(a) + Len(b) /\ Len(a) \in Nat /\ Len(b) \in Nat
      /\ DOMAIN a = 1 .. Len(a) /\ DOMAIN b = 1 .. Len(b) /\ DOMAIN c = 1 .. Len(a) + Len(b)
      /\ \A i \in 1 .. Len(a) + Len(b) : c[i] = IF i <= Len(a) THEN a[i] ELSE b[i - Len(a)]
  BY ConcatProperties
<1> HIDE DEF c
<1>2. \A i \in DOMAIN a : i \in DOMAIN c /\ c[i] = a[i]
  <2> SUFFICES ASSUME NEW i \in 1 .. Len(a) PROVE i \in DOMAIN c /\ c[i] = a[i]
    BY <1>1
  <2>1. i \in 1 .. Len(a) + Len(b) /\ i <= Len(a)
    BY <1>1
  <2> QED BY <1>1, <2>1
<1>3. \A i \in DOMAIN b : i + Len(a) \in DOMAIN c /\ c[i + Len(a)] = b[i]
  <2> SUFFICES ASSUME NEW i \in 1 .. Len(b) PROVE i + Len(a) \in DOMAIN c /\ c[i + Len(a)] = b[i]
    BY <1>1
  <2>1. i + Len(a) \in 1 .. Len(a) + Len(b) /\ ~(i + Len(a) <= Len(a)) /\ (i + Len(a)) - Len(a) = i
    BY <1>1
  <2> QED BY <1>1, <2>1
<1>4. \A i \in DOMAIN c : i \in DOMAIN a \/ \E j \in DOMAIN b : i = j + Len(a)
  <2> SUFFICES ASSUME NEW i \in 1 .. Len(a) + Len(b), ~(i <= Len(a))
               PROVE  \E j \in DOMAIN b : i = j + Len(a)
    BY <1>1
  <2>1. i - Len(a) \in 1 .. Len(b) /\ i = (i - Len(a)) + Len(a)
    BY <1>1
  <2> QED BY <1>1, <2>1
<1>5. ToSet(c) = ToSet(a) \cup ToSet(b)
  <2>1. ASSUME NEW x \in ToSet(c) PROVE x \in ToSet(a) \cup ToSet(b)
    <3>1. PICK i \in DOMAIN c : c[i] = x
      BY Zenon DEF ToSet
    <3>2. CASE i \in DOMAIN a
      BY <1>2, <3>1, <3>2 DEF ToSet
    <3>3. CASE \E j \in DOMAIN b : i = j + Len(a)
      BY <1>3, <3>1, <3>3 DEF ToSet
    <3> QED BY <1>4, <3>2, <3>3
  <2>2. ASSUME NEW x \in ToSet(a) PROVE x \in ToSet(c)
    BY <1>2 DEF ToSet
  <2>3. ASSUME NEW x \in ToSet(b) PROVE x \in ToSet(c)
    BY <1>3 DEF ToSet
  <2> QED BY <2>1, <2>2, <2>3
<1>6. ASSUME IsInjective(c)
      PROVE  IsInjective(a) /\ IsInjective(b) /\ ToSet(a) \cap ToSet(b) = {}
  <2>1. IsInjective(a)
    BY <1>2, <1>6 DEF IsInjective
  <2>2. IsInjective(b)
    <3> SUFFICES ASSUME NEW i \in DOMAIN b, NEW j \in DOMAIN b, b[i] = b[j] PROVE i = j
      BY DEF IsInjective
    <3>1. i + Len(a) = j + Len(a)
      BY <1>3, <1>6 DEF IsInjective
    <3> QED BY <1>1, <3>1
  <2>3. ToSet(a) \cap ToSet(b) = {}
    <3> SUFFICES ASSUME NEW i \in DOMAIN a, NEW j \in DOMAIN b, a[i] = b[j] PROVE FALSE
      BY DEF ToSet
    <3>1. i = j + Len(a)
      BY <1>2, <1>3, <1>6 DEF IsInjective
    <3> QED BY <1>1, <3>1
  <2> QED BY <2>1, <2>2, <2>3
<1>7. ASSUME IsInjective(a), IsInjective(b), ToSet(a) \cap ToSet(b) = {} PROVE IsInjective(c)
  <2> SUFFICES ASSUME NEW i \in DOMAIN c, NEW j \in DOMAIN c, c[i] = c[j] PROVE i = j
    BY DEF IsInjective
  <2>0. \A m \in DOMAIN a, n \in DOMAIN b : a[m] # b[n]
    BY <1>7 DEF ToSet
  <2>1. CASE i \in DOMAIN a /\ j \in DOMAIN a
    BY <1>2, <1>7, <2>1 DEF IsInjective
  <2>2. CASE i \in DOMAIN a /\ \E n \in DOMAIN b : j = n + Len(a)
    BY <1>2, <1>3, <2>0, <2>2
  <2>3. CASE j \in DOMAIN a /\ \E n \in DOMAIN b : i = n + Len(a)
    BY <1>2, <1>3, <2>0, <2>3
  <2>4. CASE (\E n \in DOMAIN b : i = n + Len(a)) /\ (\E n \in DOMAIN b : j = n + Len(a))
    BY <1>3, <1>7, <2>4 DEF IsInjective
  <2> QED BY <1>4, <2>1, <2>2, <2>3, <2>4
<1> QED BY <1>5, <1>6, <1>7 DEF c

LEMMA TailSet ==
  ASSUME NEW T, NEW q \in Seq(T), IsInjective(q), q # <<>>
  PROVE  /\ Tail(q) \in Seq(T) /\ IsInjective(Tail(q)) /\ Head(q) \in T /\ Head(q) \in ToSet(q)
         /\ ToSet(Tail(q)) = ToSet(q) \ {Head(q)}
<1> DEFINE d == [t \in T |-> 0]
<1>1. Delta(T, q, d) /\ Head(q) \in T /\ d[Head(q)] = 0
  BY DEF Delta
<1> HIDE DEF d
<1>2. /\ Delta(T, Tail(q), d) /\ ToSet(Tail(q)) = ToSet(q) \ {Head(q)} /\ Head(q) \in ToSet(q)
  <2>1. Popped(T, q, d)
    BY <1>1, TailKeepsTimes
  <2> QED BY <2>1 DEF Popped
<1> QED BY <1>1, <1>2 DEF Delta

LEMMA PrependSet ==
  ASSUME NEW T, NEW q \in Seq(T), IsInjective(q), NEW t \in T \ ToSet(q)
  PROVE  /\ <<t>> \o q \in Seq(T) /\ IsInjective(<<t>> \o q)
         /\ ToSet(<<t>> \o q) = ToSet(q) \cup {t}
<1>1. <<t>> \in Seq(T) /\ IsInjective(<<t>>) /\ ToSet(<<t>>) = {t}
  BY DEF IsInjective, ToSet
<1>2. ToSet(<<t>>) \cap ToSet(q) = {}
  BY <1>1
<1>3. <<t>> \o q \in Seq(T)
  OBVIOUS
<1> DEFINE p == <<t>>
<1>4. p \in Seq(T) /\ q \in Seq(T) /\ IsInjective(p) /\ IsInjective(q) /\ ToSet(p) \cap ToSet(q) = {}
  BY <1>1, <1>2
<1>5. p \o q \in Seq(T) /\ ToSet(p) = {t}
  BY <1>1, <1>3
<1> HIDE DEF p
<1>6. ToSet(p \o q) = ToSet(p) \cup ToSet(q) /\ IsInjective(p \o q)
  BY <1>4, PairInjective, SMTT(60)
<1>7. ToSet(p) \cup ToSet(q) = ToSet(q) \cup {t}
  BY <1>5
<1> QED BY <1>5, <1>6, <1>7 DEF p

----------------------------------------------------------------------------
\* The invariant of the software timers, on the list s with its blocks, the free list f, the
\* blocks c being created, the messages h and the phase x of the tick.

Placed(s, f, c, t) ==
  /\ s.cb[t].state = "TICKING" <=> t \in ToSet(s.list)
  /\ s.cb[t].state = "UNUSED" <=> t \in ToSet(f) \/ t \in c
  /\ t \notin c \/ t \notin ToSet(f)
  /\ s.cb[t].id % LIMIT = t
  /\ s.cb[t].state # "UNUSED" => s.cb[t].interval \in Interval

Facts(s, f, c, h, x) ==
  /\ Good(s)
  /\ f \in Seq(Timer) /\ IsInjective(f)
  /\ c \subseteq Timer
  /\ h \in Seq(Timer) /\ Len(h) <= QueueSize
  /\ x \in BOOLEAN
  /\ \A t \in Timer : Placed(s, f, c, t)
  /\ ~x => \A t \in ToSet(s.list) : TimeIn(s, t) > 0

\* BlocksAgree; an interval in every block that is in use; and between two ticks every
\* running timer still has a tick to go.
SwtmrInv == Facts(Sorted, freeList, creating, handler, expiring)

LEMMA SwtmrInvNext ==
  SwtmrInv' <=> Facts(Sorted', freeList', creating', handler', expiring')
BY DEF SwtmrInv, Facts, Placed, Good, TimeIn, Counts, Timer, Sorted

LEMMA SortedIs ==
  /\ Sorted.cb = cb /\ Sorted.list = sortList
  /\ Sorted'.cb = cb' /\ Sorted'.list = sortList'
BY DEF Sorted

LEMMA AgreeFromInv == SwtmrInv => BlocksAgree
<1> SUFFICES ASSUME SwtmrInv PROVE BlocksAgree
  OBVIOUS
<1>1. /\ cb \in [Timer -> Block] /\ Delta(Timer, sortList, Counts(Sorted))
      /\ freeList \in Seq(Timer) /\ IsInjective(freeList)
      /\ creating \subseteq Timer
      /\ handler \in Seq(Timer) /\ Len(handler) <= QueueSize
      /\ expiring \in BOOLEAN
      /\ \A t \in Timer : /\ cb[t].state = "TICKING" <=> t \in ToSet(sortList)
                          /\ cb[t].state = "UNUSED" <=> t \in ToSet(freeList) \/ t \in creating
                          /\ t \notin creating \/ t \notin ToSet(freeList)
                          /\ cb[t].id % LIMIT = t
  BY SortedIs DEF SwtmrInv, Facts, Good, Placed
<1>2. sortList \in Seq(Timer) /\ IsInjective(sortList) /\ ToSet(sortList) \subseteq Timer
  BY <1>1, DeltaNodes DEF Delta
<1>3. ToSet(sortList) \cap ToSet(freeList) = {}
  <2> SUFFICES ASSUME NEW t \in ToSet(sortList), t \in ToSet(freeList) PROVE FALSE
    OBVIOUS
  <2>1. t \in Timer
    BY <1>2
  <2> QED BY <1>1, <2>1
<1>4. IsInjective(sortList \o freeList)
  <2>1. /\ sortList \in Seq(Timer) /\ freeList \in Seq(Timer)
        /\ IsInjective(sortList) /\ IsInjective(freeList)
        /\ ToSet(sortList) \cap ToSet(freeList) = {}
    BY <1>1, <1>2, <1>3
  <2> QED BY <2>1, PairInjective, SMTT(60)
<1>5. SwtmrTypeOK
  BY <1>1, <1>2 DEF SwtmrTypeOK
<1> QED BY <1>1, <1>4, <1>5 DEF BlocksAgree

\* The state of TimerService that the blocks and the list stand for.
SettingIn(c, t) == IF c[t].state = "UNUSED" THEN <<>> ELSE <<c[t].mode, c[t].interval>>

LeftIn(s, t) == IF t \in ToSet(s.list) THEN TimeIn(s, t) ELSE 0

Settings(c) == [t \in Timer |-> SettingIn(c, t)]

Lefts(s) == [t \in Timer |-> LeftIn(s, t)]

LEMMA SettingsAre ==
  /\ [t \in Timer |-> IF cb[t].state = "UNUSED" THEN <<>>
                      ELSE <<cb[t].mode, cb[t].interval>>] = Settings(cb)
  /\ [t \in Timer |-> IF cb'[t].state = "UNUSED" THEN <<>>
                      ELSE <<cb'[t].mode, cb'[t].interval>>] = Settings(cb')
BY DEF Settings, SettingIn

LEMMA LeftsAre ==
  /\ [t \in Timer |-> Left(t)] = Lefts(Sorted)
  /\ [t \in Timer |-> Left(t)'] = Lefts(Sorted')
<1>1. \A t \in Timer : Left(t) = LeftIn(Sorted, t) /\ Left(t)' = LeftIn(Sorted', t)
  BY SortedIs DEF Left, LeftIn, TimeIn
<1> QED BY <1>1 DEF Lefts

LEMMA IdInRange == \A t \in Timer : t \in 0 .. MAX_TIMERID - 1 /\ t % LIMIT = t
<1>1. /\ LIMIT \in Nat \ {0} /\ MAX_TIMERID \in Nat /\ MAX_TIMERID >= LIMIT
  BY SwtmrAssumption
<1> SUFFICES ASSUME NEW t \in Timer PROVE t \in 0 .. MAX_TIMERID - 1 /\ t % LIMIT = t
  OBVIOUS
<1>2. t \in 0 .. LIMIT - 1
  BY DEF Timer
<1>3. LIMIT \in Nat \ {0} /\ t \in Nat /\ t < LIMIT /\ t < LIMIT + LIMIT
  BY <1>1, <1>2
<1>4. t % LIMIT = t
  BY <1>3, ModIs
<1> QED BY <1>1, <1>2, <1>4

LEMMA SwtmrInitial == osSwTmrInit => SwtmrInv /\ Service!Init
<1> SUFFICES ASSUME osSwTmrInit PROVE SwtmrInv /\ Service!Init
  OBVIOUS
<1>1. /\ cb = [t \in Timer |-> [state |-> "UNUSED", id |-> t, mode |-> "ONCE",
                                interval |-> 0, count |-> 0]]
      /\ sortList = <<>> /\ freeList = [k \in 1 .. LIMIT |-> k - 1]
      /\ creating = {} /\ handler = <<>> /\ expiring = FALSE
  BY DEF osSwTmrInit
<1>2. LIMIT \in Nat \ {0} /\ QueueSize \in Nat
  BY SwtmrAssumption
<1>3. /\ \A t \in Timer : cb[t].state = "UNUSED" /\ cb[t].id = t
      /\ \A t \in Timer : cb[t] \in Block
      /\ DOMAIN cb = Timer /\ cb = [t \in Timer |-> cb[t]]
  <2>1. ASSUME NEW t \in Timer PROVE cb[t] \in Block
    <3>1. t \in 0 .. MAX_TIMERID - 1
      BY IdInRange
    <3> QED BY <1>1, <3>1 DEF Block, Mode
  <2> QED BY <1>1, <2>1
<1>4. ToSet(sortList) = {} /\ IsInjective(sortList) /\ sortList \in Seq(Timer)
  BY <1>1 DEF ToSet, IsInjective
<1>5. Good(Sorted)
  <2>1. cb \in [Timer -> Block]
    BY <1>3
  <2>2. Counts(Sorted) \in [Timer -> Nat]
    BY <2>1, SortedIs, CountsAre
  <2> QED BY <1>4, <2>1, <2>2, SortedIs DEF Good, Delta
<1>6. freeList \in Seq(Timer) /\ IsInjective(freeList) /\ ToSet(freeList) = Timer
  <2>1. DOMAIN freeList = 1 .. LIMIT /\ \A k \in 1 .. LIMIT : freeList[k] = k - 1 /\ k - 1 \in Timer
    BY <1>1, <1>2 DEF Timer
  <2>2. freeList \in [1 .. LIMIT -> Timer]
    BY <1>1, <2>1
  <2>3. freeList \in Seq(Timer)
    BY <1>2, <2>2, SeqDef
  <2>4. IsInjective(freeList)
    BY <1>2, <2>1 DEF IsInjective
  <2>5. ASSUME NEW t \in Timer PROVE t \in ToSet(freeList)
    <3>1. t + 1 \in 1 .. LIMIT /\ (t + 1) - 1 = t
      BY <1>2 DEF Timer
    <3> QED BY <2>1, <3>1 DEF ToSet
  <2> QED BY <2>1, <2>3, <2>4, <2>5 DEF ToSet
<1>7. \A t \in Timer : Placed(Sorted, freeList, creating, t)
  BY <1>1, <1>3, <1>4, <1>6, IdInRange, SortedIs DEF Placed
<1>8. SwtmrInv
  <2>1. handler \in Seq(Timer) /\ Len(handler) <= QueueSize /\ expiring \in BOOLEAN
    <3>1. Len(handler) = 0 /\ handler \in Seq(Timer) /\ expiring \in BOOLEAN
      BY <1>1, EmptySeq, Zenon
    <3> QED BY <1>2, <3>1
  <2>2. creating \subseteq Timer /\ \A t \in ToSet(Sorted.list) : TimeIn(Sorted, t) > 0
    BY <1>1, <1>4, SortedIs
  <2> QED BY <1>5, <1>6, <1>7, <2>1, <2>2 DEF SwtmrInv, Facts
<1>9. Settings(cb) = [t \in Timer |-> <<>>] /\ Lefts(Sorted) = [t \in Timer |-> 0]
  BY <1>3, <1>4, SortedIs DEF Settings, SettingIn, Lefts, LeftIn
<1> QED BY <1>1, <1>4, <1>8, <1>9, SettingsAre, LeftsAre, Zenon DEF Service!Init

LEMMA InvFacts ==
  ASSUME SwtmrInv
  PROVE  /\ Facts(Sorted, freeList, creating, handler, expiring)
         /\ Good(Sorted) /\ cb \in [Timer -> Block] /\ ToSet(sortList) \subseteq Timer
         /\ sortList \in Seq(Timer)
         /\ freeList \in Seq(Timer) /\ IsInjective(freeList) /\ creating \subseteq Timer
         /\ handler \in Seq(Timer) /\ Len(handler) <= QueueSize /\ expiring \in BOOLEAN
         /\ \A t \in Timer : /\ Placed(Sorted, freeList, creating, t)
                             /\ cb[t].state = "TICKING" <=> t \in ToSet(sortList)
                             /\ cb[t].state = "UNUSED" <=> t \in ToSet(freeList) \/ t \in creating
                             /\ t \notin creating \/ t \notin ToSet(freeList)
                             /\ cb[t].id % LIMIT = t
                             /\ cb[t].state # "UNUSED" => cb[t].interval \in Interval
         /\ ~expiring => \A t \in ToSet(sortList) : TimeIn(Sorted, t) > 0
<1>1. Facts(Sorted, freeList, creating, handler, expiring)
  BY DEF SwtmrInv
<1>2. Delta(Timer, sortList, Counts(Sorted))
  BY <1>1, SortedIs DEF Facts, Good
<1>3. ToSet(sortList) \subseteq Timer /\ sortList \in Seq(Timer)
  BY <1>2, DeltaNodes DEF Delta
<1> QED BY <1>1, <1>3, SortedIs DEF Facts, Good, Placed

\* A block is taken: nothing that TimerService knows.
LEMMA TakeStep ==
  ASSUME SwtmrInv, SwtmrTake
  PROVE  SwtmrInv' /\ cb' = cb /\ sortList' = sortList /\ handler' = handler /\ expiring' = expiring
<1> DEFINE t == Head(freeList)
<1>1. /\ ~expiring /\ freeList # <<>> /\ creating' = creating \cup {t} /\ freeList' = Tail(freeList)
      /\ cb' = cb /\ sortList' = sortList /\ handler' = handler /\ expiring' = expiring
  BY DEF SwtmrTake
<1>2. /\ Tail(freeList) \in Seq(Timer) /\ IsInjective(Tail(freeList)) /\ t \in Timer
      /\ t \in ToSet(freeList) /\ ToSet(Tail(freeList)) = ToSet(freeList) \ {t}
  BY <1>1, InvFacts, TailSet
<1> HIDE DEF t
<1>3. Sorted' = Sorted
  BY <1>1 DEF Sorted
<1>4. \A u \in Timer : Placed(Sorted, freeList', creating', u)
  BY <1>1, <1>2, InvFacts, SortedIs DEF Placed
<1>5. Facts(Sorted, freeList', creating', handler, expiring)
  BY <1>1, <1>2, <1>4, InvFacts DEF Facts
<1>6. SwtmrInv'
  BY <1>1, <1>3, <1>5, SwtmrInvNext
<1> QED BY <1>1, <1>6

\* The timer task reads an expiry.
LEMMA HandleStep ==
  ASSUME SwtmrInv, osSwTmrTask
  PROVE  SwtmrInv' /\ Service!Handle
<1>1. /\ ~expiring /\ handler # <<>> /\ handler' = Tail(handler) /\ cb' = cb /\ sortList' = sortList
      /\ freeList' = freeList /\ creating' = creating /\ expiring' = expiring /\ Sorted' = Sorted
  BY DEF osSwTmrTask, Sorted
<1>2. handler' \in Seq(Timer) /\ Len(handler') <= QueueSize
  <2>1. /\ handler \in Seq(Timer) /\ Len(handler) <= QueueSize /\ Len(handler) \in Nat
        /\ QueueSize \in Nat
    BY InvFacts, SwtmrAssumption
  <2>2. Tail(handler) \in Seq(Timer) /\ Len(Tail(handler)) = Len(handler) - 1
    BY <1>1, <2>1
  <2> QED BY <1>1, <2>1, <2>2
<1>3. SwtmrInv'
  <2>1. Facts(Sorted, freeList, creating, handler', expiring)
    BY <1>2, InvFacts DEF Facts
  <2> QED BY <1>1, <2>1, SwtmrInvNext
<1>4. Service!Handle
  BY <1>1, SettingsAre, LeftsAre, Zenon DEF Service!Handle
<1> QED BY <1>3, <1>4

\* The loop of the tick ends at a timer that has ticks to go.
LEMMA HandleEndStep ==
  ASSUME SwtmrInv, TimeoutHandleEnd
  PROVE  SwtmrInv' /\ Service!Done
<1>1. /\ expiring /\ (sortList # <<>> => cb[Head(sortList)].count # 0) /\ expiring' = FALSE
      /\ handler' = handler /\ cb' = cb /\ sortList' = sortList
      /\ freeList' = freeList /\ creating' = creating /\ Sorted' = Sorted
  BY DEF TimeoutHandleEnd, Sorted
<1>2. \A t \in ToSet(sortList) : TimeIn(Sorted, t) > 0
  <2> SUFFICES ASSUME NEW t \in ToSet(sortList) PROVE TimeIn(Sorted, t) > 0
    OBVIOUS
  <2> DEFINE d == Counts(Sorted)
             q == sortList
             h == Head(q)
  <2>1. Delta(Timer, q, d) /\ \A u \in Timer : d[u] = cb[u].count
    BY InvFacts, SortedIs, CountsAre DEF Good
  <2> HIDE DEF d
  <2>2. /\ TimeOf(q, d, t) \in Nat /\ q # <<>> /\ h \in ToSet(q) /\ d[h] \in Nat
        /\ d[h] <= TimeOf(q, d, t)
    BY <2>1, TimeOfIs
  <2>3. d[h] # 0
    BY <1>1, <2>1, <2>2, InvFacts
  <2>4. TimeOf(q, d, t) > 0
    BY <2>2, <2>3
  <2> QED BY <2>4, SortedIs DEF TimeIn, d
<1>3. SwtmrInv'
  <2>1. Facts(Sorted, freeList, creating, handler, FALSE)
    BY <1>2, InvFacts, SortedIs DEF Facts
  <2> QED BY <1>1, <2>1, SwtmrInvNext
<1>4. \A t \in ToSet(sortList) : Lefts(Sorted)[t] > 0
  BY <1>2, InvFacts, SortedIs DEF Lefts, LeftIn
<1>5. Service!Done
  BY <1>1, <1>4, SettingsAre, LeftsAre, Zenon DEF Service!Done
<1> QED BY <1>3, <1>5

\* A list and blocks with the invariant, whose block t is CREATED or ticking.
LEMMA StopIfTickingIs ==
  ASSUME SwtmrInv, NEW t \in Timer, cb[t].state # "UNUSED"
  PROVE  LET z == StopIfTicking(Sorted, t)
         IN  /\ Good(z) /\ SameBut(cb, z.cb, t) /\ z.cb[t].state = "CREATED"
             /\ ToSet(z.list) = ToSet(sortList) \ {t}
             /\ \A u \in ToSet(z.list) : TimeIn(z, u) = TimeIn(Sorted, u)
<1> DEFINE z == StopIfTicking(Sorted, t)
<1>1. CASE cb[t].state = "TICKING"
  <2>1. z = osSwtmrStop(Sorted, t)
    BY <1>1, SortedIs DEF StopIfTicking
  <2>2. t \in ToSet(Sorted.list) /\ Good(Sorted)
    BY <1>1, InvFacts, SortedIs
  <2> QED BY <2>1, <2>2, StopIs, SortedIs
<1>2. CASE cb[t].state # "TICKING"
  <2>1. z = Sorted /\ t \notin ToSet(sortList) /\ cb[t].state = "CREATED"
    BY <1>2, InvFacts, SortedIs DEF StopIfTicking, Block
  <2> HIDE DEF z
  <2>2. SameBut(cb, cb, t) /\ Good(Sorted) /\ ToSet(sortList) = ToSet(sortList) \ {t}
    BY <2>1, InvFacts DEF SameBut
  <2>3. /\ Good(z) /\ SameBut(cb, z.cb, t) /\ z.cb[t].state = "CREATED"
        /\ ToSet(z.list) = ToSet(sortList) \ {t}
        /\ \A u \in ToSet(z.list) : TimeIn(z, u) = TimeIn(Sorted, u)
    BY <2>1, <2>2, SortedIs
  <2> QED BY <2>3 DEF z
<1> QED BY <1>1, <1>2

\* A change of state that keeps a block in use keeps what TimerService knows of it.
LEMMA SettingsKept ==
  ASSUME NEW c, NEW d, NEW t \in Timer, SameBut(c, d, t),
         c[t].state # "UNUSED", d[t].state # "UNUSED"
  PROVE  Settings(d) = Settings(c)
<1>1. ASSUME NEW u \in Timer PROVE SettingIn(d, u) = SettingIn(c, u)
  BY DEF SettingIn, SameBut
<1> QED BY <1>1 DEF Settings

LEMMA SettingOf ==
  ASSUME NEW c, NEW t \in Timer, c[t].state # "UNUSED"
  PROVE  Settings(c)[t] # <<>> /\ Settings(c)[t][1] = c[t].mode /\ Settings(c)[t][2] = c[t].interval
BY DEF Settings, SettingIn

LEMMA StartTimerStep ==
  ASSUME SwtmrInv, NEW id, LOS_SwtmrStart(id)
  PROVE  SwtmrInv' /\ \E t \in Timer : Service!Start(t)
<1>1. PICK t \in Timer : /\ Names(id, t)
                         /\ LET s == osSwTmrStart(StopIfTicking(Sorted, t), t)
                            IN  cb' = s.cb /\ sortList' = s.list
  BY Zenon DEF LOS_SwtmrStart
<1>2. /\ ~expiring /\ freeList' = freeList /\ creating' = creating /\ handler' = handler
      /\ expiring' = expiring
  BY DEF LOS_SwtmrStart
<1> DEFINE y == StopIfTicking(Sorted, t)
           z == osSwTmrStart(y, t)
<1>3. /\ cb[t].state # "UNUSED" /\ cb' = z.cb /\ sortList' = z.list
  BY <1>1 DEF Names
<1>4. /\ Good(y) /\ SameBut(cb, y.cb, t) /\ y.cb[t].state = "CREATED"
      /\ ToSet(y.list) = ToSet(sortList) \ {t}
      /\ \A u \in ToSet(y.list) : TimeIn(y, u) = TimeIn(Sorted, u)
  BY <1>3, StopIfTickingIs
<1> HIDE DEF y
<1>5. /\ Good(z) /\ SameBut(y.cb, z.cb, t) /\ z.cb[t].state = "TICKING"
      /\ ToSet(z.list) = ToSet(y.list) \cup {t} /\ TimeIn(z, t) = y.cb[t].interval
      /\ \A u \in ToSet(y.list) : TimeIn(z, u) = TimeIn(y, u)
  <2>1. t \in Timer \ ToSet(y.list) /\ Good(y)
    BY <1>4
  <2> QED BY <2>1, StartIs
<1> HIDE DEF z
<1>6. /\ SameBut(cb, z.cb, t) /\ ToSet(z.list) = ToSet(sortList) \cup {t}
      /\ TimeIn(z, t) = cb[t].interval /\ cb[t].interval \in Interval
      /\ cb[t].interval \in Nat /\ cb[t].interval # 0
      /\ \A u \in ToSet(sortList) \ {t} : TimeIn(z, u) = TimeIn(Sorted, u)
  <2>1. /\ SameBut(cb, z.cb, t) /\ y.cb[t].interval = cb[t].interval
        /\ z.cb[t].interval = cb[t].interval
    BY <1>4, <1>5 DEF SameBut
  <2>2. cb[t].interval \in Interval
    BY <1>3, InvFacts
  <2>3. cb[t].interval \in Nat /\ cb[t].interval # 0
    BY <2>2, IntervalFacts
  <2> QED BY <1>4, <1>5, <2>1, <2>2, <2>3
<1>7. Good(Sorted') /\ Sorted'.cb = z.cb /\ Sorted'.list = z.list
      /\ \A u \in Timer : TimeIn(Sorted', u) = TimeIn(z, u)
  BY <1>3, <1>5, SortedIs DEF Good, TimeIn, Counts
<1>8. SwtmrInv'
  <2>1. \A u \in Timer : Placed(Sorted', freeList, creating, u)
    <3> SUFFICES ASSUME NEW u \in Timer PROVE Placed(Sorted', freeList, creating, u)
      OBVIOUS
    <3>1. CASE u = t
      BY <1>3, <1>5, <1>6, <1>7, <3>1, InvFacts DEF Placed, SameBut
    <3>2. CASE u # t
      BY <1>6, <1>7, <3>2, InvFacts DEF Placed, SameBut
    <3> QED BY <3>1, <3>2
  <2>2. \A u \in ToSet(Sorted'.list) : TimeIn(Sorted', u) > 0
    <3> SUFFICES ASSUME NEW u \in ToSet(z.list) PROVE TimeIn(z, u) > 0
      BY <1>6, <1>7, InvFacts
    <3> QED BY <1>2, <1>6, InvFacts
  <2>3. Facts(Sorted', freeList, creating, handler, expiring)
    BY <1>7, <2>1, <2>2, InvFacts DEF Facts
  <2> QED BY <1>2, <2>3, SwtmrInvNext
<1>9. Settings(cb') = Settings(cb) /\ Settings(cb)[t] # <<>> /\ Settings(cb)[t][2] = cb[t].interval
  BY <1>3, <1>5, <1>6, SettingsKept, SettingOf
<1>10. Lefts(Sorted') = [Lefts(Sorted) EXCEPT ![t] = cb[t].interval]
  <2>1. \A u \in Timer \ {t} : LeftIn(Sorted', u) = LeftIn(Sorted, u)
    BY <1>6, <1>7, SortedIs DEF LeftIn
  <2>2. LeftIn(Sorted', t) = cb[t].interval
    BY <1>6, <1>7 DEF LeftIn
  <2> QED BY <2>1, <2>2 DEF Lefts
<1>11. Service!Start(t)
  <2>1. ToSet(sortList') = ToSet(sortList) \cup {t}
    BY <1>3, <1>6
  <2> QED BY <1>2, <1>9, <1>10, <2>1, SettingsAre, LeftsAre, Zenon DEF Service!Start
<1> QED BY <1>8, <1>11

LEMMA StopTimerStep ==
  ASSUME SwtmrInv, NEW id, LOS_SwtmrStop(id)
  PROVE  SwtmrInv' /\ \E t \in Timer : Service!Stop(t)
<1>1. PICK t \in Timer : /\ Names(id, t) /\ cb[t].state = "TICKING"
                         /\ LET s == osSwtmrStop(Sorted, t)
                            IN  cb' = s.cb /\ sortList' = s.list
  BY Zenon DEF LOS_SwtmrStop
<1>2. /\ ~expiring /\ freeList' = freeList /\ creating' = creating /\ handler' = handler
      /\ expiring' = expiring
  BY DEF LOS_SwtmrStop
<1> DEFINE z == osSwtmrStop(Sorted, t)
<1>3. /\ cb[t].state = "TICKING" /\ cb[t].state # "UNUSED" /\ t \in ToSet(sortList)
      /\ cb' = z.cb /\ sortList' = z.list
  BY <1>1, InvFacts
<1>4. /\ Good(z) /\ SameBut(cb, z.cb, t) /\ z.cb[t].state = "CREATED"
      /\ ToSet(z.list) = ToSet(sortList) \ {t}
      /\ \A u \in ToSet(z.list) : TimeIn(z, u) = TimeIn(Sorted, u)
  <2>1. Good(Sorted) /\ t \in ToSet(Sorted.list)
    BY <1>3, InvFacts, SortedIs
  <2> QED BY <2>1, StopIs, SortedIs
<1> HIDE DEF z
<1>5. /\ Good(Sorted') /\ Sorted'.cb = z.cb /\ Sorted'.list = z.list
      /\ \A u \in Timer : TimeIn(Sorted', u) = TimeIn(z, u)
  BY <1>3, <1>4, SortedIs DEF Good, TimeIn, Counts
<1>6. SwtmrInv'
  <2>1. \A u \in Timer : Placed(Sorted', freeList, creating, u)
    <3> SUFFICES ASSUME NEW u \in Timer PROVE Placed(Sorted', freeList, creating, u)
      OBVIOUS
    <3>1. CASE u = t
      BY <1>3, <1>4, <1>5, <3>1, InvFacts DEF Placed, SameBut
    <3>2. CASE u # t
      BY <1>4, <1>5, <3>2, InvFacts DEF Placed, SameBut
    <3> QED BY <3>1, <3>2
  <2>2. \A u \in ToSet(Sorted'.list) : TimeIn(Sorted', u) > 0
    <3> SUFFICES ASSUME NEW u \in ToSet(z.list) PROVE TimeIn(z, u) > 0
      BY <1>4, <1>5, InvFacts
    <3> QED BY <1>2, <1>4, InvFacts
  <2>3. Facts(Sorted', freeList, creating, handler, expiring)
    BY <1>5, <2>1, <2>2, InvFacts DEF Facts
  <2> QED BY <1>2, <2>3, SwtmrInvNext
<1>7. Settings(cb') = Settings(cb)
  BY <1>3, <1>4, SettingsKept
<1>8. Lefts(Sorted') = [Lefts(Sorted) EXCEPT ![t] = 0]
  <2>1. \A u \in Timer \ {t} : LeftIn(Sorted', u) = LeftIn(Sorted, u)
    BY <1>4, <1>5, SortedIs DEF LeftIn
  <2>2. LeftIn(Sorted', t) = 0
    BY <1>4, <1>5 DEF LeftIn
  <2> QED BY <2>1, <2>2 DEF Lefts
<1>9. Service!Stop(t)
  <2>1. ToSet(sortList') = ToSet(sortList) \ {t}
    BY <1>3, <1>4
  <2> QED BY <1>2, <1>3, <1>7, <1>8, <2>1, SettingsAre, LeftsAre, Zenon DEF Service!Stop
<1> QED BY <1>6, <1>9

\* The free list and the blocks that are free or taken have changed, and the state of one
\* timer that is not running: the times of the others are kept.
LEMMA OtherBlocks ==
  ASSUME NEW s, Good(s), NEW z, z.list = s.list, z.cb \in [Timer -> Block],
         \A u \in ToSet(s.list) : z.cb[u].count = s.cb[u].count
  PROVE  Good(z) /\ \A u \in ToSet(s.list) : TimeIn(z, u) = TimeIn(s, u)
<1> DEFINE q == s.list
           d == Counts(s)
           e == Counts(z)
<1>1. Delta(Timer, q, d) /\ e \in [Timer -> Nat] /\ ToSet(q) \subseteq Timer
  <2>1. Delta(Timer, q, d)
    BY DEF Good
  <2>2. e \in [Timer -> Nat]
    BY CountsAre
  <2> HIDE DEF q, d, e
  <2>3. ToSet(q) \subseteq Timer
    BY <2>1, DeltaNodes
  <2> QED BY <2>1, <2>2, <2>3
<1>2. \A u \in ToSet(q) : e[u] = d[u]
  BY <1>1, CountsAre DEF Good
<1> HIDE DEF q, d, e
<1>3. Delta(Timer, q, e) /\ \A u \in ToSet(q) : TimeOf(q, e, u) = TimeOf(q, d, u)
  BY <1>1, <1>2, SameTimes
<1> QED BY <1>3 DEF Good, TimeIn, q, d, e

LEMMA DeleteTimerStep ==
  ASSUME SwtmrInv, NEW id, LOS_SwtmrDelete(id)
  PROVE  SwtmrInv' /\ \E t \in Timer : Service!Delete(t)
<1>1. PICK t \in Timer : /\ Names(id, t)
                         /\ LET s == StopIfTicking(Sorted, t)
                            IN  cb' = [s.cb EXCEPT ![t].state = "UNUSED"] /\ sortList' = s.list
                         /\ freeList' = <<t>> \o freeList
  BY Zenon DEF LOS_SwtmrDelete
<1>2. ~expiring /\ creating' = creating /\ handler' = handler /\ expiring' = expiring
  BY DEF LOS_SwtmrDelete
<1> DEFINE y == StopIfTicking(Sorted, t)
<1>3. /\ cb[t].state # "UNUSED" /\ cb' = [y.cb EXCEPT ![t].state = "UNUSED"]
      /\ sortList' = y.list /\ freeList' = <<t>> \o freeList
  BY <1>1 DEF Names
<1>4. /\ Good(y) /\ SameBut(cb, y.cb, t) /\ y.cb[t].state = "CREATED"
      /\ ToSet(y.list) = ToSet(sortList) \ {t}
      /\ \A u \in ToSet(y.list) : TimeIn(y, u) = TimeIn(Sorted, u)
  BY <1>3, StopIfTickingIs
<1> HIDE DEF y
<1>5. /\ cb' \in [Timer -> Block] /\ cb'[t].state = "UNUSED" /\ cb'[t].id = cb[t].id
      /\ \A u \in Timer \ {t} : cb'[u] = y.cb[u]
  <2>1. y.cb \in [Timer -> Block] /\ y.cb[t].id = cb[t].id
    BY <1>4 DEF Good, SameBut
  <2> QED BY <1>3, <2>1 DEF Block
<1>6. /\ Good(Sorted') /\ \A u \in ToSet(y.list) : TimeIn(Sorted', u) = TimeIn(Sorted, u)
  <2> DEFINE z == Sorted'
  <2>1. z.list = y.list /\ z.cb \in [Timer -> Block] /\ Good(y)
    BY <1>3, <1>4, <1>5, SortedIs
  <2>2. \A u \in ToSet(y.list) : z.cb[u].count = y.cb[u].count
    BY <1>4, <1>5, SortedIs, InvFacts
  <2> HIDE DEF z
  <2>3. Good(z) /\ \A u \in ToSet(y.list) : TimeIn(z, u) = TimeIn(y, u)
    BY <2>1, <2>2, OtherBlocks
  <2> QED BY <1>4, <2>3 DEF z
<1>7. /\ freeList' \in Seq(Timer) /\ IsInjective(freeList')
      /\ ToSet(freeList') = ToSet(freeList) \cup {t} /\ t \notin ToSet(freeList) /\ t \notin creating
  <2>1. t \notin ToSet(freeList) /\ t \notin creating
    BY <1>3, InvFacts
  <2>2. freeList \in Seq(Timer) /\ IsInjective(freeList) /\ t \in Timer \ ToSet(freeList)
    BY <2>1, InvFacts
  <2>3. /\ <<t>> \o freeList \in Seq(Timer) /\ IsInjective(<<t>> \o freeList)
        /\ ToSet(<<t>> \o freeList) = ToSet(freeList) \cup {t}
    BY <2>2, PrependSet
  <2> QED BY <1>3, <2>1, <2>3
<1>8. SwtmrInv'
  <2>1. \A u \in Timer : Placed(Sorted', freeList', creating, u)
    <3> SUFFICES ASSUME NEW u \in Timer PROVE Placed(Sorted', freeList', creating, u)
      OBVIOUS
    <3>1. CASE u = t
      <4>1. t \notin ToSet(y.list) /\ t \in ToSet(freeList') /\ t \notin creating
        BY <1>4, <1>7
      <4>2. cb'[t].state = "UNUSED" /\ cb'[t].id % LIMIT = t
        BY <1>5, InvFacts
      <4> QED BY <1>3, <3>1, <4>1, <4>2, SortedIs DEF Placed
    <3>2. CASE u # t
      <4>1. /\ cb'[u].state = cb[u].state /\ cb'[u].id = cb[u].id
            /\ cb'[u].interval = cb[u].interval
        BY <1>4, <1>5, <3>2 DEF SameBut
      <4>2. /\ u \in ToSet(y.list) <=> u \in ToSet(sortList)
            /\ u \in ToSet(freeList') <=> u \in ToSet(freeList)
        BY <1>4, <1>7, <3>2
      <4>3. Placed(Sorted, freeList, creating, u)
        BY InvFacts
      <4> QED BY <1>3, <4>1, <4>2, <4>3, SortedIs DEF Placed
    <3> QED BY <3>1, <3>2
  <2>2. \A u \in ToSet(Sorted'.list) : TimeIn(Sorted', u) > 0
    <3> SUFFICES ASSUME NEW u \in ToSet(y.list) PROVE TimeIn(Sorted', u) > 0
      BY <1>3, SortedIs
    <3> QED BY <1>2, <1>4, <1>6, InvFacts
  <2>3. Facts(Sorted', freeList', creating, handler, expiring)
    BY <1>6, <1>7, <2>1, <2>2, InvFacts DEF Facts
  <2> QED BY <1>2, <2>3, SwtmrInvNext
<1>9. Settings(cb') = [Settings(cb) EXCEPT ![t] = <<>>] /\ Settings(cb)[t] # <<>>
  <2>1. \A u \in Timer \ {t} : SettingIn(cb', u) = SettingIn(cb, u)
    BY <1>4, <1>5 DEF SettingIn, SameBut
  <2>2. SettingIn(cb', t) = <<>>
    BY <1>5 DEF SettingIn
  <2>3. Settings(cb)[t] # <<>>
    BY <1>3, SettingOf
  <2> QED BY <2>1, <2>2, <2>3 DEF Settings
<1>10. Lefts(Sorted') = [Lefts(Sorted) EXCEPT ![t] = 0]
  <2>1. \A u \in Timer \ {t} : LeftIn(Sorted', u) = LeftIn(Sorted, u)
    BY <1>3, <1>4, <1>6, SortedIs DEF LeftIn
  <2>2. LeftIn(Sorted', t) = 0
    BY <1>3, <1>4, SortedIs DEF LeftIn
  <2> QED BY <2>1, <2>2 DEF Lefts
<1>11. Service!Delete(t)
  <2>1. ToSet(sortList') = ToSet(sortList) \ {t}
    BY <1>3, <1>4
  <2> QED BY <1>2, <1>9, <1>10, <2>1, SettingsAre, LeftsAre, Zenon DEF Service!Delete
<1> QED BY <1>8, <1>11

LEMMA FillStep ==
  ASSUME SwtmrInv, NEW t \in Timer, NEW mode \in Mode, NEW n \in Interval, SwtmrFill(t, mode, n)
  PROVE  SwtmrInv' /\ Service!Create(t, mode, n)
<1>1. /\ ~expiring /\ t \in creating /\ creating' = creating \ {t}
      /\ cb' = [cb EXCEPT ![t] = [state |-> "CREATED", id |-> @.id, mode |-> mode,
                                  interval |-> n, count |-> 0]]
      /\ sortList' = sortList /\ freeList' = freeList /\ handler' = handler /\ expiring' = expiring
  BY DEF SwtmrFill
<1>2. /\ cb[t].state = "UNUSED" /\ t \notin ToSet(sortList) /\ t \notin ToSet(freeList)
  BY <1>1, InvFacts
<1>3. /\ cb' \in [Timer -> Block] /\ \A u \in Timer \ {t} : cb'[u] = cb[u]
      /\ cb'[t].state = "CREATED" /\ cb'[t].id = cb[t].id /\ cb'[t].mode = mode
      /\ cb'[t].interval = n
  <2>1. cb \in [Timer -> Block] /\ cb[t].id \in 0 .. MAX_TIMERID - 1
    BY InvFacts DEF Block
  <2>2. [state |-> "CREATED", id |-> cb[t].id, mode |-> mode, interval |-> n, count |-> 0] \in Block
    BY <2>1 DEF Block
  <2> QED BY <1>1, <2>1, <2>2
<1>4. Good(Sorted') /\ \A u \in ToSet(sortList) : TimeIn(Sorted', u) = TimeIn(Sorted, u)
  <2> DEFINE z == Sorted'
             s == Sorted
  <2>1. z.list = s.list /\ z.cb \in [Timer -> Block] /\ Good(s)
    BY <1>1, <1>3, SortedIs, InvFacts
  <2>2. \A u \in ToSet(s.list) : z.cb[u].count = s.cb[u].count
    BY <1>2, <1>3, SortedIs, InvFacts
  <2> HIDE DEF z, s
  <2>3. Good(z) /\ \A u \in ToSet(s.list) : TimeIn(z, u) = TimeIn(s, u)
    BY <2>1, <2>2, OtherBlocks
  <2> QED BY <2>3, SortedIs DEF z, s
<1>5. SwtmrInv'
  <2>1. \A u \in Timer : Placed(Sorted', freeList, creating', u)
    <3> SUFFICES ASSUME NEW u \in Timer PROVE Placed(Sorted', freeList, creating', u)
      OBVIOUS
    <3>1. CASE u = t
      BY <1>1, <1>2, <1>3, <3>1, SortedIs, InvFacts DEF Placed
    <3>2. CASE u # t
      BY <1>1, <1>3, <3>2, SortedIs, InvFacts DEF Placed
    <3> QED BY <3>1, <3>2
  <2>2. \A u \in ToSet(Sorted'.list) : TimeIn(Sorted', u) > 0
    <3> SUFFICES ASSUME NEW u \in ToSet(sortList) PROVE TimeIn(Sorted', u) > 0
      BY <1>1, SortedIs
    <3> QED BY <1>1, <1>4, InvFacts
  <2>3. Facts(Sorted', freeList, creating', handler, expiring)
    BY <1>1, <1>4, <2>1, <2>2, InvFacts DEF Facts
  <2> QED BY <1>1, <2>3, SwtmrInvNext
<1>6. Settings(cb') = [Settings(cb) EXCEPT ![t] = <<mode, n>>] /\ Settings(cb)[t] = <<>>
  <2>1. \A u \in Timer \ {t} : SettingIn(cb', u) = SettingIn(cb, u)
    BY <1>3 DEF SettingIn
  <2>2. SettingIn(cb', t) = <<mode, n>> /\ SettingIn(cb, t) = <<>>
    BY <1>2, <1>3 DEF SettingIn
  <2> QED BY <2>1, <2>2 DEF Settings
<1>7. Lefts(Sorted') = Lefts(Sorted)
  BY <1>1, <1>4, SortedIs DEF Lefts, LeftIn
<1>8. Service!Create(t, mode, n)
  BY <1>1, <1>6, <1>7, SettingsAre, LeftsAre, Zenon DEF Service!Create
<1> QED BY <1>5, <1>8

\* The tick counts every running timer down, with the first.
LEMMA ScanStep ==
  ASSUME SwtmrInv, osSwtmrScan
  PROVE  SwtmrInv' /\ Service!Tick
<1> DEFINE t == Head(sortList)
           q == sortList
           d == Counts(Sorted)
           e == Counts(Sorted')
<1>1. /\ ~expiring /\ q # <<>> /\ cb' = [cb EXCEPT ![t].count = @ - 1]
      /\ expiring' = (cb[t].count = 1)
      /\ sortList' = sortList /\ freeList' = freeList /\ creating' = creating /\ handler' = handler
  BY DEF osSwtmrScan
<1>2. /\ Delta(Timer, q, d) /\ t \in ToSet(q) /\ t \in Timer
      /\ \A u \in Timer : d[u] = cb[u].count /\ cb[u] \in Block
      /\ d[t] \in Nat /\ d[t] > 0
      /\ \A u \in ToSet(q) : /\ TimeOf(q, d, u) \in Nat /\ d[t] <= TimeOf(q, d, u)
                             /\ TimeIn(Sorted, u) = TimeOf(q, d, u)
  <2>1. Delta(Timer, q, d) /\ \A u \in Timer : d[u] = cb[u].count /\ cb[u] \in Block
    BY InvFacts, SortedIs, CountsAre DEF Good
  <2>2. \A u \in ToSet(q) : TimeIn(Sorted, u) = TimeOf(q, d, u)
    BY SortedIs DEF TimeIn
  <2> HIDE DEF d
  <2>3. t \in ToSet(q) /\ ToSet(q) \subseteq Timer
    BY <1>1, <2>1, InvFacts, TailSet DEF Delta
  <2>4. \A u \in ToSet(q) : /\ TimeOf(q, d, u) \in Nat /\ d[t] <= TimeOf(q, d, u)
                            /\ TimeOf(q, d, t) = d[t] /\ d[t] \in Nat
    BY <2>1, TimeOfIs
  <2>5. TimeIn(Sorted, t) > 0
    BY <1>1, <2>3, InvFacts
  <2> QED BY <2>1, <2>2, <2>3, <2>4, <2>5
<1> HIDE DEF t, q, d
<1>3. /\ cb' \in [Timer -> Block] /\ cb'[t].count = d[t] - 1
      /\ \A u \in Timer : /\ cb'[u].state = cb[u].state /\ cb'[u].id = cb[u].id
                          /\ cb'[u].mode = cb[u].mode /\ cb'[u].interval = cb[u].interval
      /\ \A u \in Timer \ {t} : cb'[u] = cb[u]
  <2>1. cb \in [Timer -> Block] /\ cb[t].count = d[t] /\ cb[t].count - 1 \in Nat
    BY <1>2, InvFacts
  <2> DEFINE b == [cb[t] EXCEPT !.count = @ - 1]
  <2>2. /\ b \in Block /\ b.count = d[t] - 1 /\ b.state = cb[t].state /\ b.id = cb[t].id
        /\ b.mode = cb[t].mode /\ b.interval = cb[t].interval
    BY <1>2, <2>1 DEF Block
  <2>3. cb' = [cb EXCEPT ![t] = b]
    BY <1>1, <2>1
  <2> HIDE DEF b
  <2> QED BY <1>2, <2>1, <2>2, <2>3
<1>4. e \in [Timer -> Nat] /\ e[t] = d[t] - 1 /\ \A u \in Timer \ {t} : e[u] = d[u]
  <2>1. e \in [Timer -> Nat] /\ \A u \in Timer : e[u] = cb'[u].count
    BY <1>3, SortedIs, CountsAre
  <2> QED BY <1>2, <1>3, <2>1
<1> HIDE DEF e
<1>5. /\ Delta(Timer, q, e)
      /\ \A u \in ToSet(q) : TimeOf(q, e, u) = TimeOf(q, d, u) - 1
  <2>1. /\ Delta(Timer, q, d) /\ q # <<>> /\ d[Head(q)] > 0 /\ e \in [Timer -> Int]
        /\ e[Head(q)] = d[Head(q)] - 1 /\ \A u \in Timer \ {Head(q)} : e[u] = d[u]
    BY <1>1, <1>2, <1>4 DEF t, q
  <2> QED BY <2>1, HeadCountsAll, SMTT(60)
<1>6. Good(Sorted') /\ \A u \in ToSet(q) : TimeIn(Sorted', u) = TimeOf(q, d, u) - 1
  BY <1>1, <1>3, <1>5, SortedIs DEF Good, TimeIn, e, q
<1>7. expiring' <=> \E u \in ToSet(q) : TimeOf(q, d, u) = 1
  <2>1. TimeOf(q, d, t) = d[t]
    BY <1>1, <1>2, TimeOfIs DEF t, q
  <2>2. d[t] = 1 <=> \E u \in ToSet(q) : TimeOf(q, d, u) = 1
    BY <1>2, <2>1
  <2>3. cb[t].count = d[t] /\ expiring' = (cb[t].count = 1)
    BY <1>1, <1>2
  <2> QED BY <2>2, <2>3, Zenon
<1>8. SwtmrInv'
  <2>1. \A u \in Timer : Placed(Sorted', freeList, creating, u)
    BY <1>1, <1>3, SortedIs, InvFacts DEF Placed
  <2>2. ~expiring' => \A u \in ToSet(Sorted'.list) : TimeIn(Sorted', u) > 0
    <3> SUFFICES ASSUME ~expiring', NEW u \in ToSet(q) PROVE TimeIn(Sorted', u) > 0
      BY <1>1, SortedIs DEF q
    <3> QED BY <1>2, <1>6, <1>7
  <2>3. expiring' \in BOOLEAN
    BY <1>1
  <2>4. Facts(Sorted', freeList, creating, handler, expiring')
    BY <1>6, <2>1, <2>2, <2>3, InvFacts DEF Facts
  <2> QED BY <1>1, <2>4, SwtmrInvNext
<1>9. Settings(cb') = Settings(cb)
  BY <1>3 DEF Settings, SettingIn
<1>10. /\ \A u \in ToSet(sortList) : Lefts(Sorted)[u] = TimeOf(q, d, u)
       /\ Lefts(Sorted') = [u \in Timer |-> IF u \in ToSet(sortList) THEN Lefts(Sorted)[u] - 1
                                            ELSE Lefts(Sorted)[u]]
  <2>1. \A u \in ToSet(q) : u \in Timer
    BY <1>2, InvFacts DEF q
  <2> QED BY <1>1, <1>2, <1>6, <2>1, SortedIs DEF Lefts, LeftIn, q
<1>11. expiring' = \E u \in ToSet(sortList) : Lefts(Sorted)[u] = 1
  <2>1. expiring' \in BOOLEAN
    BY <1>1
  <2> QED BY <1>7, <1>10, <2>1 DEF q
<1>12. Service!Tick
  BY <1>1, <1>9, <1>10, <1>11, SettingsAre, LeftsAre, Zenon DEF Service!Tick
<1> QED BY <1>8, <1>12

\* The identifiers of a block differ by a multiple of the number of blocks.
LEMMA ModNext ==
  ASSUME NEW a \in Nat, NEW n \in Nat \ {0}
  PROVE  (a + n) % n = a % n
<1> DEFINE k == a \div n
           l == (a + n) \div n
           r == a % n
           s == (a + n) % n
<1>1. /\ k \in Nat /\ r \in 0 .. n - 1 /\ k * n \in Nat /\ a = k * n + r
      /\ l \in Nat /\ s \in 0 .. n - 1 /\ l * n \in Nat /\ a + n = l * n + s
  <2> DEFINE b == a + n
  <2>1. b \in Nat
    OBVIOUS
  <2> HIDE DEF b
  <2>2. b \div n \in Nat /\ b % n \in 0 .. n - 1 /\ (b \div n) * n \in Nat /\ b = (b \div n) * n + (b % n)
    BY <2>1, DivIs
  <2> QED BY <2>2, DivIs DEF b
<1> HIDE DEF k, l, r, s
<1>2. CASE l <= k
  <2>1. PICK m \in Nat : k = l + m
    <3>1. k - l \in Nat /\ k = l + (k - l)
      BY <1>1, <1>2
    <3> QED BY <3>1
  <2>2. k * n = l * n + m * n /\ m * n \in Nat
    BY <1>1, <2>1
  <2> QED BY <1>1, <2>2
<1>3. CASE l = k + 1
  <2>1. l * n = k * n + n
    BY <1>1, <1>3
  <2>2. r = s
    BY <1>1, <2>1
  <2> QED BY <2>2 DEF r, s
<1>4. CASE l >= k + 2
  <2>1. PICK m \in Nat : l = (k + 2) + m
    <3>1. l - (k + 2) \in Nat /\ l = (k + 2) + (l - (k + 2))
      BY <1>1, <1>4
    <3> QED BY <3>1
  <2>2. l * n = ((k * n + n) + n) + m * n /\ m * n \in Nat
    BY <1>1, <2>1
  <2> QED BY <1>1, <2>2
<1> QED BY <1>1, <1>2, <1>3, <1>4

LEMMA NextIdIs ==
  ASSUME NEW t \in Timer, NEW id \in 0 .. MAX_TIMERID - 1, id % LIMIT = t
  PROVE  NextId(id) \in 0 .. MAX_TIMERID - 1 /\ NextId(id) % LIMIT = t
<1>1. LIMIT \in Nat \ {0} /\ MAX_TIMERID \in Nat /\ id \in Nat
  BY SwtmrAssumption
<1>2. CASE id < MAX_TIMERID - LIMIT
  <2>1. NextId(id) = id + LIMIT /\ id + LIMIT \in 0 .. MAX_TIMERID - 1
    BY <1>1, <1>2 DEF NextId
  <2>2. (id + LIMIT) % LIMIT = id % LIMIT
    BY <1>1, ModNext
  <2> QED BY <2>1, <2>2
<1>3. CASE ~(id < MAX_TIMERID - LIMIT)
  <2>1. NextId(id) = t
    BY <1>3 DEF NextId
  <2> QED BY <2>1, IdInRange
<1> QED BY <1>2, <1>3

\* What TimerService asks of an expiry.
LEMMA ExpireIs ==
  ASSUME NEW t \in Timer, expiring, expiring' = expiring,
         t \in ToSet(sortList), Lefts(Sorted)[t] = 0,
         handler' = IF Len(handler) < QueueSize THEN Append(handler, t) ELSE handler,
         \/ /\ Settings(cb)[t][1] = "ONCE"
            /\ Settings(cb') = [Settings(cb) EXCEPT ![t] = <<>>]
            /\ ToSet(sortList') = ToSet(sortList) \ {t}
            /\ Lefts(Sorted') = Lefts(Sorted)
         \/ /\ Settings(cb)[t][1] = "NO_SELFDELETE"
            /\ ToSet(sortList') = ToSet(sortList) \ {t}
            /\ Settings(cb') = Settings(cb) /\ Lefts(Sorted') = Lefts(Sorted)
         \/ /\ Settings(cb)[t][1] = "PERIOD"
            /\ Lefts(Sorted') = [Lefts(Sorted) EXCEPT ![t] = Settings(cb)[t][2]]
            /\ Settings(cb') = Settings(cb) /\ ToSet(sortList') = ToSet(sortList)
  PROVE  Service!Expire(t)
<1> DEFINE a == Settings(cb)
           b == Settings(cb')
           m == Lefts(Sorted)
           n == Lefts(Sorted')
           x == ToSet(sortList)
           y == ToSet(sortList')
<1>1. (CASE a[t][1] = "ONCE" -> b = [a EXCEPT ![t] = <<>>] /\ y = x \ {t} /\ n = m
         [] a[t][1] = "NO_SELFDELETE" -> y = x \ {t} /\ b = a /\ n = m
         [] a[t][1] = "PERIOD" -> n = [m EXCEPT ![t] = a[t][2]] /\ b = a /\ y = x)
  OBVIOUS
<1> HIDE DEF a, b, m, n, x, y
<1> QED BY <1>1, SettingsAre, LeftsAre, Zenon DEF Service!Expire, a, b, m, n, x, y

LEMMA WriteExpiryIs ==
  ASSUME SwtmrInv, NEW t \in Timer, WriteExpiry(t)
  PROVE  handler' \in Seq(Timer) /\ Len(handler') <= QueueSize
<1>1. handler \in Seq(Timer) /\ Len(handler) <= QueueSize /\ Len(handler) \in Nat /\ QueueSize \in Nat
  BY InvFacts, SwtmrAssumption
<1>2. handler' = IF Len(handler) < QueueSize THEN Append(handler, t) ELSE handler
  BY DEF WriteExpiry
<1> QED BY <1>1, <1>2

\* The timer that expires has left the list: the others keep their times.
LEMMA PoppedIs ==
  ASSUME SwtmrInv, sortList # <<>>, NEW t \in Timer, t = Head(sortList), cb[t].count = 0
  PROVE  LET s == [cb |-> cb, list |-> Tail(sortList)]
         IN  /\ Good(s) /\ t \notin ToSet(s.list) /\ t \in ToSet(sortList)
             /\ ToSet(s.list) = ToSet(sortList) \ {t} /\ TimeIn(Sorted, t) = 0
             /\ \A u \in ToSet(s.list) : TimeIn(s, u) = TimeIn(Sorted, u)
<1> DEFINE s == [cb |-> cb, list |-> Tail(sortList)]
           q == sortList
           r == Tail(q)
           d == Counts(Sorted)
<1>1. Delta(Timer, q, d) /\ q # <<>> /\ t = Head(q) /\ d[Head(q)] = 0
  BY InvFacts, SortedIs, CountsAre DEF Good
<1>2. d = Counts(s) /\ s.cb = cb /\ s.list = r /\ cb \in [Timer -> Block]
  BY SortedIs, InvFacts DEF Counts
<1> HIDE DEF d, s, q
<1>3. Delta(Timer, q, d) /\ q # <<>> /\ d[Head(q)] = 0
  BY <1>1
<1>4. /\ Delta(Timer, Tail(q), d) /\ ToSet(Tail(q)) = ToSet(q) \ {Head(q)}
      /\ Head(q) \in ToSet(q) /\ TimeOf(q, d, Head(q)) = 0
      /\ \A u \in ToSet(Tail(q)) : TimeOf(Tail(q), d, u) = TimeOf(q, d, u)
  <2>1. Popped(Timer, q, d)
    BY <1>3, TailKeepsTimes
  <2> QED BY <2>1 DEF Popped
<1>5. /\ Delta(Timer, r, d) /\ ToSet(r) = ToSet(q) \ {t}
      /\ t \in ToSet(q) /\ TimeOf(q, d, t) = 0
      /\ \A u \in ToSet(r) : TimeOf(r, d, u) = TimeOf(q, d, u)
  BY <1>1, <1>4, Zenon
<1> HIDE DEF r
<1>6. /\ Good(s) /\ t \notin ToSet(s.list) /\ t \in ToSet(sortList)
      /\ ToSet(s.list) = ToSet(sortList) \ {t} /\ TimeIn(Sorted, t) = 0
      /\ \A u \in ToSet(s.list) : TimeIn(s, u) = TimeIn(Sorted, u)
  <2>1. q = sortList
    BY DEF q
  <2>2. TimeIn(Sorted, t) = 0 /\ \A u \in ToSet(s.list) : TimeIn(s, u) = TimeIn(Sorted, u)
    BY <1>2, <1>5, <2>1, SortedIs DEF TimeIn, d
  <2>3. Good(s)
    BY <1>2, <1>5 DEF Good
  <2> QED BY <1>2, <1>5, <2>1, <2>2, <2>3
<1> QED BY <1>6 DEF s

\* A one-shot timer deletes itself.
LEMMA OnceStep ==
  ASSUME SwtmrInv, NEW t \in Timer, TimeoutHandle(t), cb[t].mode = "ONCE"
  PROVE  SwtmrInv' /\ Service!Expire(t)
<1> DEFINE s == [cb |-> cb, list |-> Tail(sortList)]
<1>1. /\ expiring /\ sortList # <<>> /\ t = Head(sortList) /\ cb[t].count = 0 /\ WriteExpiry(t)
      /\ cb' = [cb EXCEPT ![t].state = "UNUSED", ![t].id = NextId(@)]
      /\ sortList' = s.list /\ freeList' = <<t>> \o freeList
      /\ creating' = creating /\ expiring' = expiring
  BY DEF TimeoutHandle
<1>2. /\ Good(s) /\ t \notin ToSet(s.list) /\ t \in ToSet(sortList)
      /\ ToSet(s.list) = ToSet(sortList) \ {t} /\ TimeIn(Sorted, t) = 0
      /\ \A u \in ToSet(s.list) : TimeIn(s, u) = TimeIn(Sorted, u)
  BY <1>1, PoppedIs
<1>3. s.cb = cb
  OBVIOUS
<1> HIDE DEF s
<1>4. /\ cb' \in [Timer -> Block] /\ cb'[t].state = "UNUSED" /\ cb'[t].id % LIMIT = t
      /\ \A u \in Timer \ {t} : cb'[u] = cb[u]
  <2>1. cb \in [Timer -> Block] /\ cb[t].id \in 0 .. MAX_TIMERID - 1 /\ cb[t].id % LIMIT = t
    BY InvFacts DEF Block
  <2> DEFINE m == NextId(cb[t].id)
             r == cb[t]
             b == [r EXCEPT !.state = "UNUSED", !.id = m]
  <2>2. m \in 0 .. MAX_TIMERID - 1 /\ m % LIMIT = t
    BY <2>1, NextIdIs
  <2>3. cb' = [cb EXCEPT ![t] = b]
    BY <1>1, <2>1
  <2>4. r \in Block
    BY <2>1
  <2> HIDE DEF m, r
  <2>5. b \in Block /\ b.state = "UNUSED" /\ b.id = m
    BY <2>2, <2>4 DEF Block
  <2> HIDE DEF b
  <2> QED BY <2>1, <2>2, <2>3, <2>5
<1>5. Good(Sorted') /\ \A u \in ToSet(s.list) : TimeIn(Sorted', u) = TimeIn(Sorted, u)
  <2> DEFINE z == Sorted'
  <2>1. z.list = s.list /\ z.cb \in [Timer -> Block] /\ Good(s)
    BY <1>1, <1>2, <1>4, SortedIs
  <2>2. \A u \in ToSet(s.list) : z.cb[u].count = s.cb[u].count
    BY <1>2, <1>3, <1>4, SortedIs, InvFacts
  <2> HIDE DEF z
  <2>3. Good(z) /\ \A u \in ToSet(s.list) : TimeIn(z, u) = TimeIn(s, u)
    BY <2>1, <2>2, OtherBlocks
  <2> QED BY <1>2, <2>3 DEF z
<1>6. /\ cb[t].state = "TICKING" /\ t \notin ToSet(freeList) /\ t \notin creating
      /\ freeList' \in Seq(Timer) /\ IsInjective(freeList')
      /\ ToSet(freeList') = ToSet(freeList) \cup {t}
  <2>1. cb[t].state = "TICKING" /\ t \notin ToSet(freeList) /\ t \notin creating
    BY <1>2, InvFacts
  <2>2. freeList \in Seq(Timer) /\ IsInjective(freeList) /\ t \in Timer \ ToSet(freeList)
    BY <2>1, InvFacts
  <2>3. /\ <<t>> \o freeList \in Seq(Timer) /\ IsInjective(<<t>> \o freeList)
        /\ ToSet(<<t>> \o freeList) = ToSet(freeList) \cup {t}
    BY <2>2, PrependSet
  <2> QED BY <1>1, <2>1, <2>3
<1>7. SwtmrInv'
  <2>1. \A u \in Timer : Placed(Sorted', freeList', creating, u)
    <3> SUFFICES ASSUME NEW u \in Timer PROVE Placed(Sorted', freeList', creating, u)
      OBVIOUS
    <3>1. CASE u = t
      <4>1. t \in ToSet(freeList') /\ t \notin ToSet(sortList')
        BY <1>1, <1>2, <1>6
      <4> QED BY <1>4, <1>6, <3>1, <4>1, SortedIs DEF Placed
    <3>2. CASE u # t
      <4>1. /\ u \in ToSet(sortList') <=> u \in ToSet(sortList)
            /\ u \in ToSet(freeList') <=> u \in ToSet(freeList)
        BY <1>1, <1>2, <1>6, <3>2
      <4>2. cb'[u] = cb[u] /\ Placed(Sorted, freeList, creating, u)
        BY <1>4, <3>2, InvFacts
      <4> QED BY <4>1, <4>2, SortedIs DEF Placed
    <3> QED BY <3>1, <3>2
  <2>2. handler' \in Seq(Timer) /\ Len(handler') <= QueueSize
    BY <1>1, WriteExpiryIs
  <2>3. Facts(Sorted', freeList', creating, handler', expiring)
    BY <1>1, <1>5, <1>6, <2>1, <2>2, InvFacts DEF Facts
  <2> QED BY <1>1, <2>3, SwtmrInvNext
<1>8. /\ Settings(cb)[t][1] = "ONCE" /\ Settings(cb') = [Settings(cb) EXCEPT ![t] = <<>>]
  <2>1. \A u \in Timer \ {t} : SettingIn(cb', u) = SettingIn(cb, u)
    BY <1>4 DEF SettingIn
  <2>2. SettingIn(cb', t) = <<>>
    BY <1>4 DEF SettingIn
  <2>3. Settings(cb)[t][1] = "ONCE"
    BY <1>6, SettingOf
  <2> QED BY <2>1, <2>2, <2>3 DEF Settings
<1>9. Lefts(Sorted') = Lefts(Sorted) /\ Lefts(Sorted)[t] = 0
  <2>1. \A u \in Timer : LeftIn(Sorted', u) = LeftIn(Sorted, u)
    BY <1>1, <1>2, <1>5, SortedIs DEF LeftIn
  <2>2. LeftIn(Sorted, t) = 0
    BY <1>2, SortedIs DEF LeftIn
  <2> QED BY <2>1, <2>2 DEF Lefts
<1>10. Service!Expire(t)
  <2>1. ToSet(sortList') = ToSet(sortList) \ {t}
    BY <1>1, <1>2
  <2>2. handler' = IF Len(handler) < QueueSize THEN Append(handler, t) ELSE handler
    BY <1>1 DEF WriteExpiry
  <2> QED BY <1>1, <1>2, <1>8, <1>9, <2>1, <2>2, ExpireIs
<1> QED BY <1>7, <1>10

\* A timer that does not delete itself is left stopped.
LEMMA NoSelfDeleteStep ==
  ASSUME SwtmrInv, NEW t \in Timer, TimeoutHandle(t), cb[t].mode = "NO_SELFDELETE"
  PROVE  SwtmrInv' /\ Service!Expire(t)
<1> DEFINE s == [cb |-> cb, list |-> Tail(sortList)]
<1>1. /\ expiring /\ sortList # <<>> /\ t = Head(sortList) /\ cb[t].count = 0 /\ WriteExpiry(t)
      /\ cb' = [cb EXCEPT ![t].state = "CREATED"]
      /\ sortList' = s.list /\ freeList' = freeList
      /\ creating' = creating /\ expiring' = expiring
  BY DEF TimeoutHandle
<1>2. /\ Good(s) /\ t \notin ToSet(s.list) /\ t \in ToSet(sortList)
      /\ ToSet(s.list) = ToSet(sortList) \ {t} /\ TimeIn(Sorted, t) = 0
      /\ \A u \in ToSet(s.list) : TimeIn(s, u) = TimeIn(Sorted, u)
  BY <1>1, PoppedIs
<1>3. s.cb = cb
  OBVIOUS
<1> HIDE DEF s
<1>4. /\ cb' \in [Timer -> Block] /\ cb'[t].state = "CREATED" /\ cb'[t].id = cb[t].id
      /\ cb'[t].mode = cb[t].mode /\ cb'[t].interval = cb[t].interval
      /\ \A u \in Timer \ {t} : cb'[u] = cb[u]
  <2> DEFINE r == cb[t]
             b == [r EXCEPT !.state = "CREATED"]
  <2>1. cb \in [Timer -> Block] /\ r \in Block
    BY InvFacts
  <2>2. cb' = [cb EXCEPT ![t] = b]
    BY <1>1, <2>1
  <2> HIDE DEF r
  <2>3. b \in Block /\ b.state = "CREATED" /\ b.id = r.id /\ b.mode = r.mode /\ b.interval = r.interval
    BY <2>1 DEF Block
  <2> HIDE DEF b
  <2> QED BY <2>1, <2>2, <2>3 DEF r
<1>5. Good(Sorted') /\ \A u \in ToSet(s.list) : TimeIn(Sorted', u) = TimeIn(Sorted, u)
  <2> DEFINE z == Sorted'
  <2>1. z.list = s.list /\ z.cb \in [Timer -> Block] /\ Good(s)
    BY <1>1, <1>2, <1>4, SortedIs
  <2>2. \A u \in ToSet(s.list) : z.cb[u].count = s.cb[u].count
    BY <1>2, <1>3, <1>4, SortedIs, InvFacts
  <2> HIDE DEF z
  <2>3. Good(z) /\ \A u \in ToSet(s.list) : TimeIn(z, u) = TimeIn(s, u)
    BY <2>1, <2>2, OtherBlocks
  <2> QED BY <1>2, <2>3 DEF z
<1>6. cb[t].state = "TICKING"
  BY <1>2, InvFacts
<1>7. SwtmrInv'
  <2>1. \A u \in Timer : Placed(Sorted', freeList, creating, u)
    <3> SUFFICES ASSUME NEW u \in Timer PROVE Placed(Sorted', freeList, creating, u)
      OBVIOUS
    <3>0. Placed(Sorted, freeList, creating, u)
      BY InvFacts
    <3>1. CASE u = t
      BY <1>1, <1>2, <1>4, <1>6, <3>0, <3>1, SortedIs DEF Placed
    <3>2. CASE u # t
      <4>1. u \in ToSet(sortList') <=> u \in ToSet(sortList)
        BY <1>1, <1>2, <3>2
      <4>2. cb'[u] = cb[u]
        BY <1>4, <3>2
      <4> QED BY <3>0, <4>1, <4>2, SortedIs DEF Placed
    <3> QED BY <3>1, <3>2
  <2>2. handler' \in Seq(Timer) /\ Len(handler') <= QueueSize
    BY <1>1, WriteExpiryIs
  <2>3. Facts(Sorted', freeList, creating, handler', expiring)
    BY <1>1, <1>5, <2>1, <2>2, InvFacts DEF Facts
  <2> QED BY <1>1, <2>3, SwtmrInvNext
<1>8. /\ Settings(cb)[t][1] = "NO_SELFDELETE" /\ Settings(cb') = Settings(cb)
  <2>1. \A u \in Timer : SettingIn(cb', u) = SettingIn(cb, u)
    BY <1>4, <1>6 DEF SettingIn
  <2>2. Settings(cb)[t][1] = "NO_SELFDELETE"
    BY <1>6, SettingOf
  <2> QED BY <2>1, <2>2 DEF Settings
<1>9. Lefts(Sorted') = Lefts(Sorted) /\ Lefts(Sorted)[t] = 0
  <2>1. \A u \in Timer : LeftIn(Sorted', u) = LeftIn(Sorted, u)
    BY <1>1, <1>2, <1>5, SortedIs DEF LeftIn
  <2>2. LeftIn(Sorted, t) = 0
    BY <1>2, SortedIs DEF LeftIn
  <2> QED BY <2>1, <2>2 DEF Lefts
<1>10. Service!Expire(t)
  <2>1. ToSet(sortList') = ToSet(sortList) \ {t}
    BY <1>1, <1>2
  <2>2. handler' = IF Len(handler) < QueueSize THEN Append(handler, t) ELSE handler
    BY <1>1 DEF WriteExpiry
  <2> QED BY <1>1, <1>2, <1>8, <1>9, <2>1, <2>2, ExpireIs
<1> QED BY <1>7, <1>10

\* A periodic timer starts anew.
LEMMA PeriodStep ==
  ASSUME SwtmrInv, NEW t \in Timer, TimeoutHandle(t), cb[t].mode = "PERIOD"
  PROVE  SwtmrInv' /\ Service!Expire(t)
<1> DEFINE s == [cb |-> cb, list |-> Tail(sortList)]
           z == osSwTmrStart(s, t)
<1>1. /\ expiring /\ sortList # <<>> /\ t = Head(sortList) /\ cb[t].count = 0 /\ WriteExpiry(t)
      /\ cb' = z.cb /\ sortList' = z.list /\ freeList' = freeList
      /\ creating' = creating /\ expiring' = expiring
  BY DEF TimeoutHandle
<1>2. /\ Good(s) /\ t \notin ToSet(s.list) /\ t \in ToSet(sortList)
      /\ ToSet(s.list) = ToSet(sortList) \ {t} /\ TimeIn(Sorted, t) = 0
      /\ \A u \in ToSet(s.list) : TimeIn(s, u) = TimeIn(Sorted, u)
  BY <1>1, PoppedIs
<1>3. s.cb = cb
  OBVIOUS
<1> HIDE DEF s
<1>4. /\ Good(z) /\ SameBut(cb, z.cb, t) /\ z.cb[t].state = "TICKING"
      /\ ToSet(z.list) = ToSet(s.list) \cup {t} /\ TimeIn(z, t) = cb[t].interval
      /\ \A u \in ToSet(s.list) : TimeIn(z, u) = TimeIn(s, u)
  <2>1. t \in Timer \ ToSet(s.list) /\ Good(s)
    BY <1>2
  <2> QED BY <1>3, <2>1, StartIs
<1> HIDE DEF z
<1>5. /\ cb[t].state = "TICKING" /\ cb[t].state # "UNUSED" /\ ToSet(z.list) = ToSet(sortList)
      /\ \A u \in ToSet(sortList) \ {t} : TimeIn(z, u) = TimeIn(Sorted, u)
  BY <1>2, <1>4, InvFacts
<1>6. /\ Good(Sorted') /\ Sorted'.cb = z.cb /\ Sorted'.list = z.list
      /\ \A u \in Timer : TimeIn(Sorted', u) = TimeIn(z, u)
  BY <1>1, <1>4, SortedIs DEF Good, TimeIn, Counts
<1>7. SwtmrInv'
  <2>1. \A u \in Timer : Placed(Sorted', freeList, creating, u)
    <3> SUFFICES ASSUME NEW u \in Timer PROVE Placed(Sorted', freeList, creating, u)
      OBVIOUS
    <3>0. Placed(Sorted, freeList, creating, u)
      BY InvFacts
    <3>1. CASE u = t
      BY <1>4, <1>5, <1>6, <3>0, <3>1, SortedIs DEF Placed, SameBut
    <3>2. CASE u # t
      BY <1>4, <1>5, <1>6, <3>0, <3>2, SortedIs DEF Placed, SameBut
    <3> QED BY <3>1, <3>2
  <2>2. handler' \in Seq(Timer) /\ Len(handler') <= QueueSize
    BY <1>1, WriteExpiryIs
  <2>3. Facts(Sorted', freeList, creating, handler', expiring)
    BY <1>1, <1>6, <2>1, <2>2, InvFacts DEF Facts
  <2> QED BY <1>1, <2>3, SwtmrInvNext
<1>8. /\ Settings(cb') = Settings(cb) /\ Settings(cb)[t][1] = "PERIOD"
      /\ Settings(cb)[t][2] = cb[t].interval
  <2>1. cb' = z.cb /\ z.cb[t].state # "UNUSED"
    BY <1>1, <1>4
  <2> QED BY <1>4, <1>5, <2>1, SettingsKept, SettingOf
<1>9. /\ Lefts(Sorted') = [Lefts(Sorted) EXCEPT ![t] = cb[t].interval]
      /\ Lefts(Sorted)[t] = 0
  <2>1. \A u \in Timer \ {t} : LeftIn(Sorted', u) = LeftIn(Sorted, u)
    BY <1>5, <1>6, SortedIs DEF LeftIn
  <2>2. LeftIn(Sorted', t) = cb[t].interval /\ LeftIn(Sorted, t) = 0
    BY <1>2, <1>4, <1>5, <1>6, SortedIs DEF LeftIn
  <2> QED BY <2>1, <2>2 DEF Lefts
<1>10. Service!Expire(t)
  <2>1. ToSet(sortList') = ToSet(sortList)
    BY <1>1, <1>5
  <2>2. handler' = IF Len(handler) < QueueSize THEN Append(handler, t) ELSE handler
    BY <1>1 DEF WriteExpiry
  <2>3. Lefts(Sorted') = [Lefts(Sorted) EXCEPT ![t] = Settings(cb)[t][2]]
    BY <1>8, <1>9
  <2> QED BY <1>1, <1>2, <1>8, <1>9, <2>1, <2>2, <2>3, ExpireIs
<1> QED BY <1>7, <1>10

LEMMA ExpireTimerStep ==
  ASSUME SwtmrInv, NEW t \in Timer, TimeoutHandle(t)
  PROVE  SwtmrInv' /\ Service!Expire(t)
<1>1. cb[t].mode = "ONCE" \/ cb[t].mode = "PERIOD" \/ cb[t].mode = "NO_SELFDELETE"
  BY InvFacts DEF Block, Mode
<1> QED BY <1>1, OnceStep, NoSelfDeleteStep, PeriodStep

\* Every step keeps the invariant, and is a step of TimerService or leaves its state alone.
LEMMA SwtmrStep ==
  SwtmrInv /\ [SwtmrNext]_swtmrVars => SwtmrInv' /\ [Service!Next]_(Service!svars)
<1> SUFFICES ASSUME SwtmrInv, [SwtmrNext]_swtmrVars PROVE SwtmrInv' /\ [Service!Next]_(Service!svars)
  OBVIOUS
<1>0. ASSUME cb' = cb, sortList' = sortList, handler' = handler, expiring' = expiring
      PROVE  UNCHANGED Service!svars
  <2>1. Settings(cb') = Settings(cb) /\ Lefts(Sorted') = Lefts(Sorted)
    BY <1>0 DEF Sorted
  <2> QED BY <1>0, <2>1, SettingsAre, LeftsAre, Zenon DEF Service!svars
<1>1. CASE SwtmrTake
  BY <1>0, <1>1, TakeStep, Zenon
<1>2. CASE \E t \in Timer, mode \in Mode, n \in Interval : SwtmrFill(t, mode, n)
  <2>1. PICK t \in Timer, mode \in Mode, n \in Interval : SwtmrFill(t, mode, n)
    BY <1>2, Zenon
  <2>2. SwtmrInv' /\ Service!Create(t, mode, n)
    BY <2>1, FillStep, Zenon
  <2> QED BY <2>2, Zenon DEF Service!Next, Mode
<1>3. CASE \E id \in 0 .. MAX_TIMERID - 1 : LOS_SwtmrStart(id)
  <2>1. SwtmrInv' /\ \E t \in Timer : Service!Start(t)
    BY <1>3, StartTimerStep, Zenon
  <2> QED BY <2>1, Zenon DEF Service!Next
<1>4. CASE \E id \in 0 .. MAX_TIMERID - 1 : LOS_SwtmrStop(id)
  <2>1. SwtmrInv' /\ \E t \in Timer : Service!Stop(t)
    BY <1>4, StopTimerStep, Zenon
  <2> QED BY <2>1, Zenon DEF Service!Next
<1>5. CASE \E id \in 0 .. MAX_TIMERID - 1 : LOS_SwtmrDelete(id)
  <2>1. SwtmrInv' /\ \E t \in Timer : Service!Delete(t)
    BY <1>5, DeleteTimerStep, Zenon
  <2> QED BY <2>1, Zenon DEF Service!Next
<1>6. CASE osSwtmrScan
  BY <1>6, ScanStep, Zenon DEF Service!Next
<1>7. CASE \E t \in Timer : TimeoutHandle(t)
  <2>1. PICK t \in Timer : TimeoutHandle(t)
    BY <1>7, Zenon
  <2>2. SwtmrInv' /\ Service!Expire(t)
    BY <2>1, ExpireTimerStep, Zenon
  <2> QED BY <2>2, Zenon DEF Service!Next
<1>8. CASE TimeoutHandleEnd
  BY <1>8, HandleEndStep, Zenon DEF Service!Next
<1>9. CASE osSwTmrTask
  BY <1>9, HandleStep, Zenon DEF Service!Next
<1>10. CASE UNCHANGED swtmrVars
  <2>1. /\ cb' = cb /\ sortList' = sortList /\ freeList' = freeList /\ creating' = creating
        /\ handler' = handler /\ expiring' = expiring
    BY <1>10 DEF swtmrVars
  <2>2. Sorted' = Sorted
    BY <2>1 DEF Sorted
  <2>3. SwtmrInv'
    BY <2>1, <2>2, SwtmrInvNext, InvFacts
  <2> QED BY <1>0, <2>1, <2>3, Zenon
<1> QED BY <1>1, <1>2, <1>3, <1>4, <1>5, <1>6, <1>7, <1>8, <1>9, <1>10, Zenon DEF SwtmrNext

LEMMA SwtmrInvariant == SwtmrSpec => []SwtmrInv
<1>1. osSwTmrInit => SwtmrInv
  BY SwtmrInitial, Zenon
<1>2. SwtmrInv /\ [SwtmrNext]_swtmrVars => SwtmrInv'
  BY SwtmrStep, Zenon
<1> QED BY <1>1, <1>2, PTL DEF SwtmrSpec

\* Whatever is created, started, stopped and deleted, by tasks and while a tick is on its
\* way: a control block is on the list of running timers exactly while it ticks, free or
\* being created exactly while it is unused, never on two lists, and its identifier leads
\* back to it (los_swtmr.c).
THEOREM SwtmrBlocksAgree == SwtmrSpec => []BlocksAgree
<1> QED BY AgreeFromInv, SwtmrInvariant, PTL

\* The list of relative counts implements independent timers: each expires exactly its
\* interval after its start, for any number of timers and whatever is inserted before it,
\* removed before it or expires before it.
THEOREM SwtmrImplementsTimers == SwtmrSpec => ImplementsTimers
<1>1. osSwTmrInit => Service!Init
  BY SwtmrInitial, Zenon
<1>2. SwtmrInv /\ [SwtmrNext]_swtmrVars => [Service!Next]_(Service!svars)
  BY SwtmrStep, Zenon
<1> QED BY <1>1, <1>2, SwtmrInvariant, PTL DEF SwtmrSpec, ImplementsTimers, Service!Spec

\* More messages than timers: some timer has two.
LEMMA TwoUnhandled ==
  ASSUME SwtmrInv, NEW t \in Timer, Unhandled(t) = 0, Len(handler) >= LIMIT
  PROVE  \E u \in Timer : Unhandled(u) > 1
<1> DEFINE S == 1 .. Len(handler)
           T == Timer \ {t}
           K(u) == {k \in DOMAIN handler : handler[k] = u}
<1>1. /\ handler \in Seq(Timer) /\ Len(handler) \in Nat /\ LIMIT \in Nat \ {0}
      /\ DOMAIN handler = S /\ \A k \in S : handler[k] \in Timer
  BY InvFacts, SwtmrAssumption
<1>2. IsFiniteSet(S) /\ Cardinality(S) = Len(handler)
  <2>1. 1 \in Int /\ Len(handler) \in Int
    BY <1>1
  <2>2. /\ IsFiniteSet(1 .. Len(handler))
        /\ Cardinality(1 .. Len(handler)) = IF 1 > Len(handler) THEN 0 ELSE Len(handler) - 1 + 1
    BY <2>1, FS_Interval
  <2> QED BY <1>1, <2>2
<1>3. IsFiniteSet(T) /\ Cardinality(T) = LIMIT - 1
  <2>1. 0 \in Int /\ LIMIT - 1 \in Int
    BY <1>1
  <2>2. /\ IsFiniteSet(0 .. LIMIT - 1)
        /\ Cardinality(0 .. LIMIT - 1) = IF 0 > LIMIT - 1 THEN 0 ELSE (LIMIT - 1) - 0 + 1
    BY <2>1, FS_Interval
  <2>3. IsFiniteSet(Timer) /\ Cardinality(Timer) = LIMIT
    BY <1>1, <2>2 DEF Timer
  <2>4. IsFiniteSet(T) /\ Cardinality(T) = Cardinality(Timer) - 1
    BY <2>3, FS_RemoveElement
  <2> QED BY <2>3, <2>4
<1>4. \A u \in Timer : IsFiniteSet(K(u)) /\ Unhandled(u) = Cardinality(K(u))
  <2> SUFFICES ASSUME NEW u \in Timer PROVE IsFiniteSet(K(u)) /\ Unhandled(u) = Cardinality(K(u))
    OBVIOUS
  <2>1. K(u) \in SUBSET S
    BY <1>1
  <2> HIDE DEF S
  <2>2. IsFiniteSet(K(u))
    BY <1>2, <2>1, FS_Subset
  <2> QED BY <2>2 DEF Unhandled
<1>5. K(t) = {}
  <2>1. IsFiniteSet(K(t)) /\ Cardinality(K(t)) = 0
    BY <1>4
  <2> HIDE DEF K
  <2> QED BY <2>1, FS_EmptySet
<1>6. handler \in [S -> T]
  <2>1. \A k \in S : handler[k] \in T
    BY <1>1, <1>5
  <2>2. handler = [k \in S |-> handler[k]]
    BY <1>1
  <2> QED BY <2>1, <2>2
<1>7. Cardinality(T) < Cardinality(S)
  BY <1>1, <1>2, <1>3
<1>8. PICK i \in S, j \in S : i # j /\ handler[i] = handler[j]
  <2> HIDE DEF S, T
  <2> QED BY <1>2, <1>3, <1>6, <1>7, FS_PigeonHole, Zenon
<1> DEFINE u == handler[i]
<1>9. u \in Timer /\ i \in K(u) /\ j \in K(u)
  BY <1>1, <1>8
<1> HIDE DEF u
<1>10. Cardinality({i, j}) = 2
  <2>1. IsFiniteSet({i}) /\ Cardinality({i}) = 1
    BY FS_Singleton
  <2>2. j \notin {i} /\ {i} \cup {j} = {i, j}
    BY <1>8
  <2>3. Cardinality({i} \cup {j}) = Cardinality({i}) + 1
    BY <2>1, <2>2, FS_AddElement
  <2> QED BY <2>1, <2>2, <2>3
<1>11. Cardinality({i, j}) <= Cardinality(K(u)) /\ Cardinality(K(u)) \in Nat
  <2>1. IsFiniteSet(K(u)) /\ {i, j} \in SUBSET K(u)
    BY <1>4, <1>9
  <2> HIDE DEF K
  <2> QED BY <2>1, FS_Subset, FS_CardinalityType
<1>12. Unhandled(u) = Cardinality(K(u)) /\ u \in Timer
  BY <1>4, <1>9
<1> HIDE DEF K
<1>13. Unhandled(u) > 1
  BY <1>10, <1>11, <1>12
<1> QED BY <1>12, <1>13

\* A message queue with a place for every timer, as OS_SWTMR_HANDLE_QUEUE_SIZE gives it
\* (los_config.h), loses an expiry only when the timer task is so late that the timer's last
\* expiry is still unhandled or another timer has expired twice meanwhile.
THEOREM SwtmrExpiryKept == QueueSize >= LIMIT => (SwtmrSpec => ExpiryKept)
<1> SUFFICES ASSUME QueueSize >= LIMIT PROVE SwtmrSpec => ExpiryKept
  OBVIOUS
<1>1. ASSUME SwtmrInv, NEW t \in Timer, TimeoutHandle(t), handler' = handler
      PROVE  Unhandled(t) > 0 \/ \E u \in Timer : Unhandled(u) > 1
  <2>1. /\ handler \in Seq(Timer) /\ Len(handler) \in Nat /\ QueueSize \in Nat /\ LIMIT \in Nat
        /\ handler' = IF Len(handler) < QueueSize THEN Append(handler, t) ELSE handler
    BY <1>1, InvFacts, SwtmrAssumption DEF TimeoutHandle, WriteExpiry
  <2>2. Len(handler) >= LIMIT
    <3>1. Len(Append(handler, t)) # Len(handler)
      BY <1>1, <2>1
    <3>2. ~(Len(handler) < QueueSize)
      BY <1>1, <2>1, <3>1
    <3> QED BY <2>1, <3>2
  <2>3. Unhandled(t) \in Nat
    <3> DEFINE K == {k \in DOMAIN handler : handler[k] = t}
               S == 1 .. Len(handler)
    <3>1. IsFiniteSet(S)
      <4>1. 1 \in Int /\ Len(handler) \in Int
        BY <2>1
      <4> QED BY <4>1, FS_Interval
    <3>2. K \in SUBSET S
      BY <2>1
    <3> HIDE DEF K, S
    <3>3. IsFiniteSet(K)
      BY <3>1, <3>2, FS_Subset
    <3>4. Cardinality(K) \in Nat
      BY <3>3, FS_CardinalityType
    <3> QED BY <3>4 DEF Unhandled, K
  <2>4. CASE Unhandled(t) = 0
    BY <1>1, <2>2, <2>4, TwoUnhandled
  <2> QED BY <2>3, <2>4
<1>2. SwtmrInv /\ [SwtmrNext]_swtmrVars =>
        [\A t \in Timer : TimeoutHandle(t) /\ handler' = handler =>
           Unhandled(t) > 0 \/ \E u \in Timer : Unhandled(u) > 1]_swtmrVars
  BY <1>1, Zenon
<1> QED BY <1>2, SwtmrInvariant, PTL DEF SwtmrSpec, ExpiryKept
=============================================================================
