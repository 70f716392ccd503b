----------------------------- MODULE ListProofs ------------------------------
(***************************************************************************)
(* Lemmas about parts of lists and lists put together: their elements, that *)
(* none comes twice, and which comes before which.                          *)
(***************************************************************************)
EXTENDS Lists, FiniteSetTheorems, TLAPS

Pos == Nat \ {0}

\* Wherever y is in the list, x is at an earlier place.
Before(list, x, y) == \A j \in DOMAIN list : list[j] = y => \E i \in DOMAIN list : i < j /\ list[i] = x

-----------------------------------------------------------------------------
(* The places of a set, in order. *)

LEMMA UpToIsFinite ==
    ASSUME NEW P \in SUBSET Pos, IsFiniteSet(P), NEW n \in P
    PROVE  /\ IsFiniteSet(UpTo(P, n)) /\ Cardinality(UpTo(P, n)) \in 1..Cardinality(P)
           /\ \A m \in P : Cardinality(UpTo(P, m)) <= Cardinality(UpTo(P, n)) => m <= n
<1>0. \A m \in P : m \in Nat /\ m # 0
  BY DEF Pos
<1>1. ASSUME NEW m \in P PROVE UpTo(P, m) \in SUBSET P /\ m \in UpTo(P, m)
  <2>1. m \in 1..m
    BY <1>0, <1>1
  <2> QED
    BY <1>1, <2>1 DEF UpTo
<1>2. ASSUME NEW m \in P PROVE IsFiniteSet(UpTo(P, m)) /\ Cardinality(UpTo(P, m)) <= Cardinality(P)
  BY <1>1, FS_Subset
<1>3. Cardinality(P) \in Nat /\ \A m \in P : Cardinality(UpTo(P, m)) \in Nat
  BY <1>2, FS_CardinalityType
<1>4. Cardinality(UpTo(P, n)) # 0
  BY <1>1, <1>2, FS_EmptySet
<1>5. ASSUME NEW m \in P, Cardinality(UpTo(P, m)) <= Cardinality(UpTo(P, n)) PROVE m <= n
  <2> SUFFICES ASSUME n < m PROVE FALSE
    BY <1>0
  <2>1. UpTo(P, n) \in SUBSET UpTo(P, m) /\ m \notin UpTo(P, n)
    <3>1. m \in Nat /\ n \in Nat
      BY <1>0
    <3>2. 1..n \subseteq 1..m /\ m \notin 1..n
      BY <3>1
    <3> QED
      BY <3>2 DEF UpTo
  <2>2. Cardinality(UpTo(P, n)) <= Cardinality(UpTo(P, m))
    BY <2>1, <1>2, FS_Subset
  <2>3. Cardinality(UpTo(P, n)) = Cardinality(UpTo(P, m))
    BY <2>2, <1>3, <1>5
  <2>4. UpTo(P, m) = UpTo(P, n)
    BY <2>1, <2>3, <1>2, FS_Subset
  <2> QED
    BY <2>1, <2>4, <1>1
<1> QED
  BY <1>2, <1>3, <1>4, <1>5

LEMMA NthPlace ==
    ASSUME NEW P \in SUBSET Pos, IsFiniteSet(P), NEW k \in 1..Cardinality(P)
    PROVE  Nth(P, k) \in P /\ Cardinality(UpTo(P, Nth(P, k))) = k
<1> DEFINE rank == [n \in P |-> Cardinality(UpTo(P, n))]
           N == Cardinality(P)
<1>1. N \in Nat
  BY FS_CardinalityType
<1>2. IsFiniteSet(1..N) /\ Cardinality(1..N) = N
  BY <1>1, FS_Interval
<1>3. rank \in [P -> 1..N]
  BY UpToIsFinite
<1>4. \A m, n \in P : rank[m] = rank[n] => m = n
  <2> SUFFICES ASSUME NEW m \in P, NEW n \in P, rank[m] = rank[n] PROVE m = n
    OBVIOUS
  <2>1. Cardinality(UpTo(P, m)) = Cardinality(UpTo(P, n)) /\ Cardinality(UpTo(P, n)) \in 1..N
    BY UpToIsFinite
  <2>2. m <= n /\ n <= m
    BY <2>1, <1>1, UpToIsFinite
  <2> QED
    BY <2>2 DEF Pos
<1>5. rank \in Injection(P, 1..N)
  BY <1>3, <1>4 DEF Injection, IsInjective
<1>6. rank \in Surjection(P, 1..N)
  BY <1>2, <1>5, FS_Injection
<1>7. \E n \in P : Cardinality(UpTo(P, n)) = k
  BY <1>6 DEF Surjection
<1> QED
  BY <1>7 DEF Nth

LEMMA NthGrows ==
    ASSUME NEW P \in SUBSET Pos, IsFiniteSet(P),
           NEW j \in 1..Cardinality(P), NEW k \in 1..Cardinality(P)
    PROVE  j < k <=> Nth(P, j) < Nth(P, k)
<1>1. Cardinality(P) \in Nat
  BY FS_CardinalityType
<1>2. Nth(P, j) \in P /\ Cardinality(UpTo(P, Nth(P, j))) = j
  BY NthPlace
<1>3. Nth(P, k) \in P /\ Cardinality(UpTo(P, Nth(P, k))) = k
  BY NthPlace
<1> DEFINE x == Nth(P, j)
           y == Nth(P, k)
<1>4. x \in P /\ y \in P /\ x \in Nat /\ y \in Nat /\ j \in Nat /\ k \in Nat
  <2>1. \A l \in P : l \in Nat
    BY DEF Pos
  <2>2. x \in P /\ y \in P
    BY <1>2, <1>3
  <2>3. j \in Nat /\ k \in Nat
    BY <1>1
  <2> HIDE DEF x, y
  <2> QED
    BY <2>1, <2>2, <2>3
<1>5. Cardinality(UpTo(P, x)) = j /\ Cardinality(UpTo(P, y)) = k
  BY <1>2, <1>3
<1> HIDE DEF x, y
<1>6. k <= j => y <= x
  BY <1>4, <1>5, UpToIsFinite
<1>7. j <= k => x <= y
  BY <1>4, <1>5, UpToIsFinite
<1>8. x = y => j = k
  BY <1>5
<1>9. j < k <=> x < y
  BY <1>4, <1>6, <1>7, <1>8
<1> QED
  BY <1>9 DEF x, y

LEMMA NthCovers ==
    ASSUME NEW P \in SUBSET Pos, IsFiniteSet(P), NEW n \in P
    PROVE  \E k \in 1..Cardinality(P) : Nth(P, k) = n
<1> DEFINE k == Cardinality(UpTo(P, n))
<1>1. k \in 1..Cardinality(P) /\ Cardinality(P) \in Nat
  BY UpToIsFinite, FS_CardinalityType
<1>2. Nth(P, k) \in P /\ Cardinality(UpTo(P, Nth(P, k))) = k
  BY <1>1, NthPlace
<1>3. n \in Nat /\ Nth(P, k) \in Nat /\ k \in Nat
  <2>1. \A l \in P : l \in Nat
    BY DEF Pos
  <2> HIDE DEF k
  <2>2. k \in Nat
    BY <1>1
  <2>3. Nth(P, k) \in Nat
    BY <1>2, <2>1
  <2> QED
    BY <2>1, <2>2, <2>3
<1>4. Nth(P, k) <= n
  BY <1>2, <1>3, UpToIsFinite
<1>5. n <= Nth(P, k)
  BY <1>2, <1>3, UpToIsFinite
<1>6. Nth(P, k) = n
  BY <1>3, <1>4, <1>5
<1> HIDE DEF k
<1> QED
  BY <1>1, <1>6

-----------------------------------------------------------------------------
(* The part of a list that is in a set. *)

\* A part of a list is a list, and each of its places is one of the whole list, in order.
LEMMA SelectPlaces ==
    ASSUME NEW A, NEW list \in Seq(A), NEW S
    PROVE  LET P == PlacesIn(list, S) IN
           /\ P \in SUBSET Pos /\ IsFiniteSet(P) /\ Cardinality(P) \in Nat
           /\ Select(list, S) \in Seq(A) /\ Len(Select(list, S)) = Cardinality(P)
           /\ \A k \in 1..Len(Select(list, S)) :
                /\ Nth(P, k) \in DOMAIN list /\ Nth(P, k) \in Nat
                /\ Select(list, S)[k] = list[Nth(P, k)] /\ list[Nth(P, k)] \in S
<1> DEFINE P == PlacesIn(list, S)
<1>1. P \in SUBSET (1..Len(list)) /\ \A n \in P : n \in DOMAIN list /\ list[n] \in S
  BY DEF PlacesIn
<1>2. IsFiniteSet(1..Len(list))
  BY FS_Interval
<1>3. P \in SUBSET Pos /\ IsFiniteSet(P) /\ Cardinality(P) \in Nat
  BY <1>1, <1>2, FS_Subset, FS_CardinalityType DEF Pos
<1>4. \A k \in 1..Cardinality(P) : Nth(P, k) \in P
  BY <1>3, NthPlace
<1>5. Select(list, S) = [k \in 1..Cardinality(P) |-> list[Nth(P, k)]]
  BY DEF Select
<1> HIDE DEF P
<1>6. Select(list, S) \in Seq(A) /\ Len(Select(list, S)) = Cardinality(P)
  <2>1. \A k \in 1..Cardinality(P) : list[Nth(P, k)] \in A
    <3>1. \A n \in P : list[n] \in A
      BY <1>1
    <3> QED
      BY <1>4, <3>1
  <2>2. [k \in 1..Cardinality(P) |-> list[Nth(P, k)]] \in [1..Cardinality(P) -> A]
    BY <2>1
  <2>3. \A n \in Nat : \A f \in [1..n -> A] : f \in Seq(A) /\ Len(f) = n
    OBVIOUS
  <2> QED
    BY <1>3, <1>5, <2>2, <2>3
<1>7. \A k \in 1..Cardinality(P) : Select(list, S)[k] = list[Nth(P, k)]
  BY <1>5
<1>8. ASSUME NEW k \in 1..Cardinality(P)
      PROVE  Nth(P, k) \in DOMAIN list /\ Nth(P, k) \in Nat /\ list[Nth(P, k)] \in S
  BY <1>1, <1>3, <1>4 DEF Pos
<1> QED
  BY <1>3, <1>6, <1>7, <1>8 DEF P

\* It has the elements that are in both.
LEMMA SelectElements ==
    ASSUME NEW A, NEW list \in Seq(A), NEW S
    PROVE  ToSet(Select(list, S)) = ToSet(list) \cap S
<1> DEFINE P == PlacesIn(list, S)
           part == Select(list, S)
<1>1. /\ P \in SUBSET Pos /\ IsFiniteSet(P)
      /\ part \in Seq(A) /\ Len(part) = Cardinality(P)
      /\ \A k \in 1..Len(part) :
            Nth(P, k) \in DOMAIN list /\ part[k] = list[Nth(P, k)] /\ list[Nth(P, k)] \in S
  BY SelectPlaces
<1>2. ASSUME NEW n \in DOMAIN list, list[n] \in S PROVE \E k \in 1..Len(part) : part[k] = list[n]
  <2>1. n \in P
    BY <1>2 DEF PlacesIn
  <2>2. PICK k \in 1..Cardinality(P) : Nth(P, k) = n
    BY <1>1, <2>1, NthCovers
  <2> QED
    BY <1>1, <2>2
<1> HIDE DEF P, part
<1>3. DOMAIN part = 1..Len(part)
  BY <1>1
<1>4. ToSet(part) \subseteq ToSet(list) \cap S
  BY <1>1, <1>3 DEF ToSet
<1>5. ToSet(list) \cap S \subseteq ToSet(part)
  BY <1>2, <1>3 DEF ToSet
<1> QED
  BY <1>4, <1>5 DEF part

\* Nothing comes twice in it that does not in the list.
LEMMA SelectInjective ==
    ASSUME NEW A, NEW list \in Seq(A), NEW S, IsInjective(list)
    PROVE  IsInjective(Select(list, S))
<1> DEFINE P == PlacesIn(list, S)
           part == Select(list, S)
<1>1. /\ P \in SUBSET Pos /\ IsFiniteSet(P)
      /\ part \in Seq(A) /\ Len(part) = Cardinality(P) /\ Cardinality(P) \in Nat
      /\ \A k \in 1..Len(part) : Nth(P, k) \in DOMAIN list /\ part[k] = list[Nth(P, k)]
  BY SelectPlaces
<1>2. ASSUME NEW j \in 1..Len(part), NEW k \in 1..Len(part), part[j] = part[k] PROVE j = k
  <2>1. Nth(P, j) = Nth(P, k)
    BY <1>1, <1>2 DEF IsInjective
  <2>2. ~(j < k) /\ ~(k < j)
    <3>1. Nth(P, k) \in Nat
      BY <1>1
    <3>2. ~(Nth(P, j) < Nth(P, k)) /\ ~(Nth(P, k) < Nth(P, j))
      BY <2>1, <3>1
    <3> QED
      BY <1>1, <3>2, NthGrows
  <2> QED
    BY <2>2
<1> QED
  BY <1>1, <1>2 DEF IsInjective

\* What comes before something in the list, and is in the set, comes before it in the part.
LEMMA SelectKeepsOrder ==
    ASSUME NEW A, NEW list \in Seq(A), NEW S, NEW x \in S, NEW y, Before(list, x, y)
    PROVE  Before(Select(list, S), x, y)
<1> DEFINE P == PlacesIn(list, S)
           part == Select(list, S)
<1>1. /\ P \in SUBSET Pos /\ IsFiniteSet(P)
      /\ part \in Seq(A) /\ Len(part) = Cardinality(P) /\ Cardinality(P) \in Nat
      /\ \A k \in 1..Len(part) : Nth(P, k) \in DOMAIN list /\ part[k] = list[Nth(P, k)]
  BY SelectPlaces
<1>2. ASSUME NEW j \in DOMAIN part, part[j] = y PROVE \E i \in DOMAIN part : i < j /\ part[i] = x
  <2>1. j \in 1..Len(part) /\ Nth(P, j) \in DOMAIN list /\ list[Nth(P, j)] = y
    BY <1>1, <1>2
  <2>2. PICK n \in DOMAIN list : n < Nth(P, j) /\ list[n] = x
    BY <2>1 DEF Before
  <2>3. n \in P
    BY <2>2 DEF PlacesIn
  <2>4. PICK i \in 1..Cardinality(P) : Nth(P, i) = n
    BY <1>1, <2>3, NthCovers
  <2>5. i < j
    BY <1>1, <2>1, <2>2, <2>4, NthGrows
  <2> QED
    BY <1>1, <2>2, <2>4, <2>5
<1> QED
  BY <1>2 DEF Before

\* It begins as the list does when the list begins in the set.
LEMMA SelectFirst ==
    ASSUME NEW A, NEW list \in Seq(A), NEW S, list # <<>>, list[1] \in S
    PROVE  Select(list, S) # <<>> /\ Select(list, S)[1] = list[1]
<1> DEFINE P == PlacesIn(list, S)
           part == Select(list, S)
<1>1. /\ P \in SUBSET Pos /\ IsFiniteSet(P)
      /\ part \in Seq(A) /\ Len(part) = Cardinality(P) /\ Cardinality(P) \in Nat
      /\ \A k \in 1..Len(part) : Nth(P, k) \in DOMAIN list /\ part[k] = list[Nth(P, k)]
  BY SelectPlaces
<1>2. 1 \in P
  BY DEF PlacesIn
<1>3. PICK k \in 1..Cardinality(P) : Nth(P, k) = 1
  BY <1>1, <1>2, NthCovers
<1>4. k = 1
  <2> SUFFICES ASSUME 1 < k PROVE FALSE
    BY <1>1, <1>3
  <2>1. 1 \in 1..Cardinality(P)
    BY <1>1, <1>3
  <2>2. Nth(P, 1) < Nth(P, k)
    BY <1>1, <1>3, <2>1, NthGrows
  <2>3. Nth(P, 1) \in DOMAIN list
    BY <1>1, <2>1
  <2> QED
    BY <1>3, <2>2, <2>3
<1> QED
  BY <1>1, <1>3, <1>4

-----------------------------------------------------------------------------
(* Lists put together. *)

LEMMA ConcatElements ==
    ASSUME NEW A, NEW s \in Seq(A), NEW t \in Seq(A)
    PROVE  ToSet(s \o t) = ToSet(s) \cup ToSet(t)
<1>1. /\ DOMAIN (s \o t) = 1..(Len(s) + Len(t)) /\ DOMAIN s = 1..Len(s) /\ DOMAIN t = 1..Len(t)
      /\ \A i \in 1..Len(s) : (s \o t)[i] = s[i]
      /\ \A i \in 1..Len(t) : (s \o t)[Len(s) + i] = t[i]
  OBVIOUS
<1>2. ASSUME NEW n \in 1..(Len(s) + Len(t))
      PROVE  n \in 1..Len(s) \/ \E i \in 1..Len(t) : n = Len(s) + i
  <2>1. n \notin 1..Len(s) => n - Len(s) \in 1..Len(t) /\ n = Len(s) + (n - Len(s))
    OBVIOUS
  <2> QED
    BY <2>1
<1>3. ToSet(s \o t) \subseteq ToSet(s) \cup ToSet(t)
  BY <1>1, <1>2 DEF ToSet
<1>4. \A i \in 1..Len(s) : i \in 1..(Len(s) + Len(t))
  OBVIOUS
<1>5. \A i \in 1..Len(t) : Len(s) + i \in 1..(Len(s) + Len(t))
  OBVIOUS
<1>6. ToSet(s) \cup ToSet(t) \subseteq ToSet(s \o t)
  BY <1>1, <1>4, <1>5 DEF ToSet
<1> QED
  BY <1>3, <1>6

LEMMA ConcatInjective ==
    ASSUME NEW A, NEW s \in Seq(A), NEW t \in Seq(A),
           IsInjective(s), IsInjective(t), ToSet(s) \cap ToSet(t) = {}
    PROVE  IsInjective(s \o t)
<1>1. /\ DOMAIN (s \o t) = 1..(Len(s) + Len(t)) /\ DOMAIN s = 1..Len(s) /\ DOMAIN t = 1..Len(t)
      /\ \A i \in 1..Len(s) : (s \o t)[i] = s[i]
      /\ \A i \in 1..Len(t) : (s \o t)[Len(s) + i] = t[i]
  OBVIOUS
<1>2. ASSUME NEW n \in 1..(Len(s) + Len(t)), n \notin 1..Len(s)
      PROVE  n - Len(s) \in 1..Len(t) /\ (s \o t)[n] = t[n - Len(s)]
  <2>1. n - Len(s) \in 1..Len(t) /\ n = Len(s) + (n - Len(s))
    BY <1>2
  <2> QED
    BY <1>1, <2>1
<1>3. \A i \in 1..Len(s), j \in 1..Len(t) : s[i] # t[j]
  BY <1>1 DEF ToSet
<1>4. ASSUME NEW m \in 1..(Len(s) + Len(t)), NEW n \in 1..(Len(s) + Len(t)), (s \o t)[m] = (s \o t)[n]
      PROVE  m = n
  <2>1. CASE m \in 1..Len(s) /\ n \in 1..Len(s)
    BY <2>1, <1>1, <1>4 DEF IsInjective
  <2>2. CASE m \in 1..Len(s) /\ n \notin 1..Len(s)
    BY <2>2, <1>1, <1>2, <1>3, <1>4
  <2>3. CASE m \notin 1..Len(s) /\ n \in 1..Len(s)
    BY <2>3, <1>1, <1>2, <1>3, <1>4
  <2>4. CASE m \notin 1..Len(s) /\ n \notin 1..Len(s)
    <3>1. m - Len(s) \in 1..Len(t) /\ n - Len(s) \in 1..Len(t) /\ t[m - Len(s)] = t[n - Len(s)]
      BY <2>4, <1>2, <1>4
    <3>2. m - Len(s) = n - Len(s)
      BY <3>1, <1>1 DEF IsInjective
    <3> QED
      BY <3>2
  <2> QED
    BY <2>1, <2>2, <2>3, <2>4
<1> QED
  BY <1>1, <1>4 DEF IsInjective

\* What the first list has comes before what only the second has.
LEMMA ConcatOrder ==
    ASSUME NEW A, NEW s \in Seq(A), NEW t \in Seq(A), NEW x, NEW y,
           x \in ToSet(s), y \notin ToSet(s)
    PROVE  Before(s \o t, x, y)
<1>1. /\ DOMAIN (s \o t) = 1..(Len(s) + Len(t)) /\ DOMAIN s = 1..Len(s)
      /\ \A i \in 1..Len(s) : (s \o t)[i] = s[i]
  OBVIOUS
<1>2. PICK i \in 1..Len(s) : s[i] = x
  BY <1>1 DEF ToSet
<1>3. ASSUME NEW j \in 1..(Len(s) + Len(t)), (s \o t)[j] = y PROVE i < j
  BY <1>1, <1>3 DEF ToSet
<1>4. i \in 1..(Len(s) + Len(t)) /\ (s \o t)[i] = x
  BY <1>1, <1>2
<1> QED
  BY <1>1, <1>3, <1>4 DEF Before

\* An order of the first list stays when what comes second is not in the other list.
LEMMA ConcatKeepsOrder ==
    ASSUME NEW A, NEW s \in Seq(A), NEW t \in Seq(A), NEW x, NEW y,
           Before(s, x, y), y \notin ToSet(t)
    PROVE  Before(s \o t, x, y)
<1>1. /\ DOMAIN (s \o t) = 1..(Len(s) + Len(t)) /\ DOMAIN s = 1..Len(s) /\ DOMAIN t = 1..Len(t)
      /\ \A i \in 1..Len(s) : (s \o t)[i] = s[i]
      /\ \A i \in 1..Len(t) : (s \o t)[Len(s) + i] = t[i]
  OBVIOUS
<1>2. ASSUME NEW n \in 1..(Len(s) + Len(t)), n \notin 1..Len(s) PROVE (s \o t)[n] \in ToSet(t)
  <2>1. n - Len(s) \in 1..Len(t) /\ n = Len(s) + (n - Len(s))
    BY <1>2
  <2>2. (s \o t)[n] = t[n - Len(s)]
    BY <1>1, <2>1
  <2> QED
    BY <1>1, <2>1, <2>2 DEF ToSet
<1>3. ASSUME NEW j \in 1..(Len(s) + Len(t)), (s \o t)[j] = y
      PROVE  \E i \in 1..(Len(s) + Len(t)) : i < j /\ (s \o t)[i] = x
  <2>1. j \in 1..Len(s) /\ s[j] = y
    BY <1>1, <1>2, <1>3
  <2>2. PICK i \in 1..Len(s) : i < j /\ s[i] = x
    BY <1>1, <2>1 DEF Before
  <2>3. i \in 1..(Len(s) + Len(t))
    OBVIOUS
  <2> QED
    BY <1>1, <2>2, <2>3
<1> QED
  BY <1>1, <1>3 DEF Before

\* A list turned round at a place has the same elements, none twice.
LEMMA TurnedElements ==
    ASSUME NEW A, NEW list \in Seq(A), NEW i \in 0..Len(list)
    PROVE  LET turned == SubSeq(list, i + 1, Len(list)) \o SubSeq(list, 1, i)
           IN  turned \in Seq(A) /\ ToSet(turned) = ToSet(list)
<1> DEFINE a == SubSeq(list, i + 1, Len(list))
           b == SubSeq(list, 1, i)
<1>1. /\ a \in Seq(A) /\ b \in Seq(A) /\ DOMAIN a = 1..(Len(list) - i) /\ DOMAIN b = 1..i
      /\ \A k \in 1..(Len(list) - i) : a[k] = list[i + k]
      /\ \A k \in 1..i : b[k] = list[k]
  OBVIOUS
<1>2. ToSet(a) \subseteq ToSet(list) /\ ToSet(b) \subseteq ToSet(list)
  <2>1. \A k \in 1..(Len(list) - i) : i + k \in DOMAIN list
    OBVIOUS
  <2>2. \A k \in 1..i : k \in DOMAIN list
    OBVIOUS
  <2> HIDE DEF a, b
  <2> QED
    BY <1>1, <2>1, <2>2 DEF ToSet
<1>3. ToSet(list) \subseteq ToSet(a) \cup ToSet(b)
  <2>1. \A n \in DOMAIN list : n \in 1..i \/ (n - i \in 1..(Len(list) - i) /\ i + (n - i) = n)
    OBVIOUS
  <2> HIDE DEF a, b
  <2>2. ASSUME NEW n \in DOMAIN list PROVE list[n] \in ToSet(a) \cup ToSet(b)
    <3>1. CASE n \in 1..i
      BY <3>1, <1>1 DEF ToSet
    <3>2. CASE n - i \in 1..(Len(list) - i) /\ i + (n - i) = n
      <4>1. a[n - i] = list[n]
        BY <3>2, <1>1
      <4> QED
        BY <3>2, <4>1, <1>1 DEF ToSet
    <3> QED
      BY <2>1, <3>1, <3>2
  <2> QED
    BY <2>2 DEF ToSet
<1>4. ToSet(a \o b) = ToSet(a) \cup ToSet(b) /\ a \o b \in Seq(A)
  <2> HIDE DEF a, b
  <2> QED
    BY <1>1, ConcatElements
<1> QED
  BY <1>2, <1>3, <1>4

=============================================================================
