---------------------------- MODULE RoutingProofs ---------------------------
(***************************************************************************)
(* Theorems about a model request from its arrival to its answer, for any   *)
(* accounts, conversations and requests: where it is tried and in which     *)
(* order, who keeps its conversation, and that it is a delivery.            *)
(***************************************************************************)
EXTENDS Routing, ListProofs

\* The accounts that were read for a request: each once, on its own model.
TargetList(list) ==
    /\ list \in Seq(Attempt)
    /\ \A m, n \in DOMAIN list : list[m].acc = list[n].acc => m = n
    /\ \A n \in DOMAIN list : ~list[n].alt

LEMMA TargetElements ==
    ASSUME NEW list, TargetList(list)
    PROVE  /\ list \in Seq(Attempt) /\ ToSet(list) \subseteq Attempt
           /\ \A t \in ToSet(list) : ~t.alt
           /\ \A t, u \in ToSet(list) : t.acc = u.acc => t = u
BY DEF TargetList, ToSet

LEMMA ActiveTargetsOK ==
    ASSUME standby \subseteq Accounts
    PROVE  TargetList(ActiveTargets)
<1> DEFINE reached == Select(Order, active)
<1>1. reached \in Seq(Accounts) /\ IsInjective(reached)
  BY SelectPlaces, SelectInjective, RoutingAssumption
<1>2. ActiveTargets = [n \in 1..Len(reached) |-> Target(reached[n])]
  BY DEF ActiveTargets
<1> HIDE DEF reached
<1>3. \A n \in 1..Len(reached) : reached[n] \in Accounts
  BY <1>1
<1>4. \A a \in Accounts : Target(a) \in Attempt /\ Target(a).acc = a /\ Target(a).alt = FALSE
  BY DEF Target, Attempt, On
<1>5. ActiveTargets \in [1..Len(reached) -> Attempt] /\ Len(reached) \in Nat
  BY <1>1, <1>2, <1>3, <1>4
<1>6. ActiveTargets \in Seq(Attempt) /\ DOMAIN ActiveTargets = 1..Len(reached)
  <2>1. \A n \in Nat : \A f \in [1..n -> Attempt] : f \in Seq(Attempt) /\ DOMAIN f = 1..n
    OBVIOUS
  <2> QED
    BY <1>5, <2>1
<1>7. \A n \in 1..Len(reached) : ActiveTargets[n].acc = reached[n] /\ ActiveTargets[n].alt = FALSE
  BY <1>2, <1>3, <1>4
<1>8. DOMAIN reached = 1..Len(reached)
  BY <1>1
<1> QED
  BY <1>1, <1>6, <1>7, <1>8 DEF TargetList, IsInjective

LEMMA NormalElements ==
    ASSUME NEW list \in Seq(Attempt)
    PROVE  /\ Normal(list) \in Seq(Attempt) /\ StandBys(list) \in Seq(Attempt)
           /\ ToSet(Normal(list)) = {t \in ToSet(list) : ~t.standby}
           /\ ToSet(StandBys(list)) = {t \in ToSet(list) : t.standby}
<1>1. ToSet(list) \subseteq Attempt
  BY DEF ToSet
<1>2. \A t \in Attempt : /\ t \in [acc : Accounts, alt : BOOLEAN, standby : {FALSE}] <=> ~t.standby
                         /\ t \in [acc : Accounts, alt : BOOLEAN, standby : {TRUE}] <=> t.standby
  BY DEF Attempt, On
<1>3. Normal(list) \in Seq(Attempt) /\ StandBys(list) \in Seq(Attempt)
  BY SelectPlaces DEF Normal, StandBys
<1>4. ToSet(Normal(list)) = ToSet(list) \cap [acc : Accounts, alt : BOOLEAN, standby : {FALSE}]
  BY SelectElements DEF Normal
<1>5. ToSet(StandBys(list)) = ToSet(list) \cap [acc : Accounts, alt : BOOLEAN, standby : {TRUE}]
  BY SelectElements DEF StandBys
<1> QED
  BY <1>1, <1>2, <1>3, <1>4, <1>5

LEMMA OfElements ==
    ASSUME NEW list \in Seq(Attempt), NEW a
    PROVE  /\ Of(list, a) \in Seq(Attempt) /\ Others(list, a) \in Seq(Attempt)
           /\ ToSet(Of(list, a)) = {t \in ToSet(list) : t.acc = a}
           /\ ToSet(Others(list, a)) = {t \in ToSet(list) : t.acc # a}
<1>1. ToSet(list) \subseteq Attempt
  BY DEF ToSet
<1>2. \A t \in Attempt : (t \in On({a}) <=> t.acc = a) /\ (t \in On(Accounts \ {a}) <=> t.acc # a)
  BY DEF Attempt, On
<1>3. Of(list, a) \in Seq(Attempt) /\ Others(list, a) \in Seq(Attempt)
  BY SelectPlaces DEF Of, Others
<1>4. ToSet(Of(list, a)) = ToSet(list) \cap On({a})
  BY SelectElements DEF Of
<1>5. ToSet(Others(list, a)) = ToSet(list) \cap On(Accounts \ {a})
  BY SelectElements DEF Others
<1> QED
  BY <1>1, <1>2, <1>3, <1>4, <1>5

-----------------------------------------------------------------------------
\* The order of a known conversation has every account, and the standby accounts behind
\* the others.
LEMMA SessionOrderOK ==
    ASSUME NEW list, TargetList(list), NEW a, GoesHome(list, a)
    PROVE  LET o == SessionOrder(list, a) IN
           /\ o \in Seq(Attempt) /\ ToSet(o) = ToSet(list)
           /\ \A t, u \in ToSet(list) : ~t.standby /\ u.standby => Before(o, t, u)
<1> DEFINE own    == Of(list, a)
           others == Others(list, a)
           normal == Normal(others)
           last   == StandBys(others)
<1>1. list \in Seq(Attempt) /\ \A t, u \in ToSet(list) : t.acc = u.acc => t = u
  BY TargetElements
<1>2. /\ own \in Seq(Attempt) /\ others \in Seq(Attempt)
      /\ ToSet(own) = {t \in ToSet(list) : t.acc = a}
      /\ ToSet(others) = {t \in ToSet(list) : t.acc # a}
  BY <1>1, OfElements
<1>3. /\ normal \in Seq(Attempt) /\ last \in Seq(Attempt)
      /\ ToSet(normal) = {t \in ToSet(others) : ~t.standby}
      /\ ToSet(last) = {t \in ToSet(others) : t.standby}
  BY <1>2, NormalElements
<1>4. own # <<>> /\ (own[1].standby => normal = <<>>)
  BY DEF GoesHome
<1>5. SessionOrder(list, a) = (own \o normal) \o last
  <2>1. \A s1, s2, s3 \in Seq(Attempt) : s1 \o s2 \o s3 = (s1 \o s2) \o s3
    OBVIOUS
  <2> QED
    BY <1>2, <1>3, <2>1 DEF SessionOrder
<1> HIDE DEF own, others, normal, last
<1>6. own \o normal \in Seq(Attempt) /\ ToSet(own \o normal) = ToSet(own) \cup ToSet(normal)
  BY <1>2, <1>3, ConcatElements
<1>7. /\ (own \o normal) \o last \in Seq(Attempt)
      /\ ToSet((own \o normal) \o last) = ToSet(own \o normal) \cup ToSet(last)
  <2>1. \A x, y \in Seq(Attempt) : x \o y \in Seq(Attempt)
    OBVIOUS
  <2>2. \A x, y \in Seq(Attempt) : ToSet(x \o y) = ToSet(x) \cup ToSet(y)
    BY ConcatElements
  <2> QED
    BY <1>3, <1>6, <2>1, <2>2
<1>8. ToSet((own \o normal) \o last) = ToSet(list)
  BY <1>2, <1>3, <1>6, <1>7
<1>9. ASSUME NEW t \in ToSet(list), NEW u \in ToSet(list), ~t.standby, u.standby
      PROVE  Before((own \o normal) \o last, t, u)
  <2>1. u \notin ToSet(own)
    <3> SUFFICES ASSUME u \in ToSet(own) PROVE FALSE
      OBVIOUS
    <3>1. own[1] \in ToSet(own)
      BY <1>2, <1>4 DEF ToSet
    <3>2. own[1] = u
      BY <1>1, <1>2, <3>1
    <3>3. ToSet(normal) = {}
      BY <1>4, <1>9, <3>2 DEF ToSet
    <3>4. t.acc # a
      BY <1>1, <1>2, <1>9
    <3> QED
      BY <1>2, <1>3, <1>9, <3>3, <3>4
  <2>2. u \notin ToSet(own \o normal)
    BY <1>3, <1>6, <1>9, <2>1
  <2>3. t \in ToSet(own \o normal)
    BY <1>2, <1>3, <1>6, <1>9
  <2> QED
    BY <1>3, <1>6, <2>2, <2>3, ConcatOrder
<1> QED
  BY <1>5, <1>7, <1>8, <1>9

\* So has the rotation's, wherever it starts.
LEMMA StartAtOK ==
    ASSUME NEW list, TargetList(list), NEW i \in Places(list)
    PROVE  LET o == StartAt(list, i) IN
           /\ o \in Seq(Attempt) /\ ToSet(o) = ToSet(list)
           /\ \A t, u \in ToSet(list) : ~t.standby /\ u.standby => Before(o, t, u)
<1> DEFINE n == Normal(list)
           turned == SubSeq(n, i + 1, Len(n)) \o SubSeq(n, 1, i)
           last == StandBys(list)
<1>1. list \in Seq(Attempt)
  BY TargetElements
<1>2. /\ n \in Seq(Attempt) /\ last \in Seq(Attempt)
      /\ ToSet(n) = {t \in ToSet(list) : ~t.standby}
      /\ ToSet(last) = {t \in ToSet(list) : t.standby}
  BY <1>1, NormalElements
<1>3. i \in 0..Len(n)
  BY <1>2 DEF Places
<1>4. StartAt(list, i) = turned \o last
  BY DEF StartAt
<1> HIDE DEF n, last
<1>5. turned \in Seq(Attempt) /\ ToSet(turned) = ToSet(n)
  BY <1>2, <1>3, TurnedElements
<1> HIDE DEF turned
<1>6. turned \o last \in Seq(Attempt) /\ ToSet(turned \o last) = ToSet(turned) \cup ToSet(last)
  BY <1>2, <1>5, ConcatElements
<1>7. ToSet(turned \o last) = ToSet(list)
  BY <1>2, <1>5, <1>6
<1>8. ASSUME NEW t \in ToSet(list), NEW u \in ToSet(list), ~t.standby, u.standby
      PROVE  Before(turned \o last, t, u)
  <2>1. t \in ToSet(turned) /\ u \notin ToSet(turned)
    BY <1>2, <1>5, <1>8
  <2> QED
    BY <1>2, <1>5, <2>1, ConcatOrder
<1> QED
  BY <1>4, <1>6, <1>7, <1>8

LEMMA OrderingOK ==
    ASSUME NEW list, TargetList(list), NEW a, NEW o \in Orderings(list, a)
    PROVE  /\ o \in Seq(Attempt) /\ ToSet(o) = ToSet(list)
           /\ \A t, u \in ToSet(list) : ~t.standby /\ u.standby => Before(o, t, u)
<1>1. CASE GoesHome(list, a)
  BY <1>1, SessionOrderOK DEF Orderings
<1>2. CASE ~GoesHome(list, a)
  <2>1. PICK i \in Places(list) : o = StartAt(list, i)
    BY <1>2 DEF Orderings
  <2> QED
    BY <2>1, StartAtOK
<1> QED
  BY <1>1, <1>2

LEMMA DefaultVariantsOK ==
    ASSUME NEW list \in Seq(Attempt)
    PROVE  /\ DefaultVariants(list) \in Seq(Attempt)
           /\ \A x \in ToSet(DefaultVariants(list)) : x.alt
<1> DEFINE again == Select(list, On(Leveled))
           second(x) == [x EXCEPT !.alt = TRUE]
<1>1. again \in Seq(Attempt)
  BY SelectPlaces
<1>2. DefaultVariants(list) = [n \in 1..Len(again) |-> second(again[n])]
  BY DEF DefaultVariants
<1>3. \A x \in Attempt : second(x) \in Attempt /\ second(x).alt
  BY DEF Attempt, On
<1> HIDE DEF again, second
<1>4. \A n \in 1..Len(again) : again[n] \in Attempt
  BY <1>1
<1>5. [n \in 1..Len(again) |-> second(again[n])] \in [1..Len(again) -> Attempt]
  BY <1>3, <1>4
<1>6. \A n \in Nat : \A f \in [1..n -> Attempt] : f \in Seq(Attempt)
  OBVIOUS
<1>7. Len(again) \in Nat
  BY <1>1
<1>8. DefaultVariants(list) \in Seq(Attempt)
  BY <1>2, <1>5, <1>6, <1>7
<1>9. DOMAIN DefaultVariants(list) = 1..Len(again)
  BY <1>2
<1>10. \A n \in 1..Len(again) : DefaultVariants(list)[n].alt
  BY <1>2, <1>3, <1>4
<1> QED
  BY <1>8, <1>9, <1>10 DEF ToSet

\* A request's tries begin with the accounts' own models, in their order.
LEMMA AttemptsForOK ==
    ASSUME NEW list \in Seq(Attempt), \A x \in ToSet(list) : ~x.alt, NEW picked \in BOOLEAN
    PROVE  LET tries == AttemptsFor(list, picked) IN
           /\ tries \in Seq(Attempt) /\ ToSet(list) \subseteq ToSet(tries)
           /\ \A x \in ToSet(tries) : ~x.alt => x \in ToSet(list)
           /\ \A t, u \in ToSet(list) : Before(list, t, u) => Before(tries, t, u)
           /\ list # <<>> => tries # <<>> /\ tries[1] = list[1]
<1> DEFINE more == DefaultVariants(list)
<1>1. CASE picked
  BY <1>1 DEF AttemptsFor
<1>2. CASE ~picked
  <2>1. AttemptsFor(list, picked) = list \o more
    BY <1>2 DEF AttemptsFor
  <2>2. more \in Seq(Attempt) /\ \A x \in ToSet(more) : x.alt
    BY DefaultVariantsOK
  <2> HIDE DEF more
  <2>3. list \o more \in Seq(Attempt) /\ (list # <<>> => list \o more # <<>> /\ (list \o more)[1] = list[1])
    BY <2>2
  <2>4. ToSet(list \o more) = ToSet(list) \cup ToSet(more)
    BY <2>2, ConcatElements
  <2>5. ASSUME NEW t \in ToSet(list), NEW u \in ToSet(list), Before(list, t, u)
        PROVE  Before(list \o more, t, u)
    BY <2>2, <2>5, ConcatKeepsOrder
  <2> QED
    BY <2>1, <2>2, <2>3, <2>4, <2>5
<1> QED
  BY <1>1, <1>2

\* What is left of the tries keeps their order, and has every one that is not spent.
LEMMA SkipSpentOK ==
    ASSUME NEW list \in Seq(Attempt)
    PROVE  LET tries == SkipSpent(list)
               Left(t) == <<t.acc, t.alt>> \notin spent IN
           /\ tries \in Seq(Attempt) /\ ToSet(tries) \subseteq ToSet(list)
           /\ \A t \in ToSet(list) : Left(t) => t \in ToSet(tries)
           /\ \A t, u \in ToSet(list) : Left(t) /\ Before(list, t, u) => Before(tries, t, u)
           /\ list # <<>> => tries # <<>>
           /\ list # <<>> /\ Left(list[1]) => tries[1] = list[1]
<1> DEFINE S == {t \in ToSet(list) : <<t.acc, t.alt>> \notin spent}
<1>1. Unspent(list) = Select(list, S)
  BY DEF Unspent
<1>2. CASE Unspent(list) = <<>>
  <2>1. SkipSpent(list) = list
    BY <1>2 DEF SkipSpent
  <2> QED
    BY <2>1
<1>3. CASE Unspent(list) # <<>>
  <2>1. SkipSpent(list) = Select(list, S)
    BY <1>1, <1>3 DEF SkipSpent
  <2>2. Select(list, S) \in Seq(Attempt) /\ ToSet(Select(list, S)) = ToSet(list) \cap S
    BY SelectPlaces, SelectElements
  <2>3. ASSUME NEW t \in S, NEW u, Before(list, t, u) PROVE Before(Select(list, S), t, u)
    BY <2>3, SelectKeepsOrder
  <2>4. list # <<>> /\ list[1] \in S => Select(list, S)[1] = list[1]
    BY SelectFirst
  <2>5. list # <<>> => list[1] \in ToSet(list)
    BY DEF ToSet
  <2> QED
    BY <1>1, <1>3, <2>1, <2>2, <2>3, <2>4, <2>5
<1> QED
  BY <1>2, <1>3

\* What a plan may say, given the accounts that were read and what was spent.
TriesOK(list, tries, out) ==
    /\ \A x \in ToSet(tries) : ~x.alt => x \in ToSet(list)
    /\ \A t \in ToSet(list) : <<t.acc, FALSE>> \in out \/ t \in ToSet(tries)
    /\ \A t, u \in ToSet(list) : ~t.standby /\ u.standby =>
            <<t.acc, FALSE>> \in out \/ Before(tries, t, u)

LEMMA TriesAreOK ==
    ASSUME NEW list, TargetList(list), list # <<>>, NEW a, NEW o \in Orderings(list, a),
           NEW picked \in BOOLEAN
    PROVE  LET tries == SkipSpent(AttemptsFor(o, picked)) IN
           tries \in Seq(Attempt) /\ tries # <<>> /\ TriesOK(list, tries, spent)
<1> DEFINE all   == AttemptsFor(o, picked)
           tries == SkipSpent(all)
<1>1. list \in Seq(Attempt) /\ \A t \in ToSet(list) : t.alt = FALSE
  BY TargetElements DEF Attempt, On
<1>2. /\ o \in Seq(Attempt) /\ ToSet(o) = ToSet(list)
      /\ \A t, u \in ToSet(list) : ~t.standby /\ u.standby => Before(o, t, u)
  BY OrderingOK
<1>3. o # <<>>
  BY <1>1, <1>2 DEF ToSet
<1>4. /\ all \in Seq(Attempt) /\ ToSet(o) \subseteq ToSet(all)
      /\ \A x \in ToSet(all) : ~x.alt => x \in ToSet(o)
      /\ \A t, u \in ToSet(o) : Before(o, t, u) => Before(all, t, u)
      /\ all # <<>>
  BY <1>1, <1>2, <1>3, AttemptsForOK
<1>5. /\ tries \in Seq(Attempt) /\ ToSet(tries) \subseteq ToSet(all)
      /\ \A t \in ToSet(all) : <<t.acc, t.alt>> \notin spent => t \in ToSet(tries)
      /\ \A t, u \in ToSet(all) :
            <<t.acc, t.alt>> \notin spent /\ Before(all, t, u) => Before(tries, t, u)
      /\ tries # <<>>
  BY <1>4, SkipSpentOK
<1> HIDE DEF all, tries
<1>6. TriesOK(list, tries, spent)
  BY <1>1, <1>2, <1>4, <1>5 DEF TriesOK
<1> QED
  BY <1>5, <1>6 DEF tries, all

\* A conversation that may go home is tried there first.
LEMMA HomeIsFirst ==
    ASSUME NEW list, TargetList(list), NEW t \in ToSet(list), <<t.acc, FALSE>> \notin spent,
           t.standby => \A u \in ToSet(list) : u.standby,
           NEW o \in Orderings(list, t.acc), NEW picked \in BOOLEAN
    PROVE  SkipSpent(AttemptsFor(o, picked))[1] = t
<1> DEFINE a      == t.acc
           own    == Of(list, a)
           others == Others(list, a)
           normal == Normal(others)
           last   == StandBys(others)
<1>1. /\ list \in Seq(Attempt) /\ ToSet(list) \subseteq Attempt
      /\ \A x \in ToSet(list) : ~x.alt
      /\ \A x, u \in ToSet(list) : x.acc = u.acc => x = u
  BY TargetElements
<1>2. /\ own \in Seq(Attempt) /\ others \in Seq(Attempt)
      /\ ToSet(own) = {x \in ToSet(list) : x.acc = a}
      /\ ToSet(others) = {x \in ToSet(list) : x.acc # a}
  BY <1>1, OfElements
<1>3. /\ normal \in Seq(Attempt) /\ last \in Seq(Attempt)
      /\ ToSet(normal) = {x \in ToSet(others) : ~x.standby}
  BY <1>2, NormalElements
<1>4. own # <<>> /\ own[1] = t
  <2>1. t \in ToSet(own)
    BY <1>2
  <2>2. own # <<>>
    BY <1>2, <2>1 DEF ToSet
  <2>3. own[1] \in ToSet(own)
    BY <1>2, <2>2 DEF ToSet
  <2> QED
    BY <1>1, <1>2, <2>2, <2>3
<1>5. t.standby => normal = <<>>
  <2> SUFFICES ASSUME t.standby, normal # <<>> PROVE FALSE
    OBVIOUS
  <2>1. normal[1] \in ToSet(normal)
    BY <1>3 DEF ToSet
  <2> QED
    BY <1>2, <1>3, <2>1
<1>6. GoesHome(list, a)
  BY <1>4, <1>5 DEF GoesHome
<1>7. o = own \o normal \o last
  BY <1>6 DEF Orderings, SessionOrder
<1> HIDE DEF own, normal, last, others
<1>8. o # <<>> /\ o[1] = t
  BY <1>2, <1>3, <1>4, <1>7
<1>9. o \in Seq(Attempt) /\ ToSet(o) = ToSet(list)
  BY OrderingOK
<1>10. AttemptsFor(o, picked) \in Seq(Attempt) /\ AttemptsFor(o, picked) # <<>> /\ AttemptsFor(o, picked)[1] = t
  BY <1>1, <1>8, <1>9, AttemptsForOK
<1>11. t.alt = FALSE
  BY <1>1 DEF Attempt, On
<1> QED
  BY <1>10, <1>11, SkipSpentOK

\* A part of a list is no longer than it, and shorter when something was left out.
LEMMA SelectShorter ==
    ASSUME NEW A, NEW list \in Seq(A), NEW S
    PROVE  /\ Len(Select(list, S)) <= Len(list)
           /\ (\E n \in DOMAIN list : list[n] \notin S) => Len(Select(list, S)) < Len(list)
<1> DEFINE P == PlacesIn(list, S)
<1>1. P \in SUBSET (1..Len(list)) /\ \A n \in DOMAIN list : list[n] \notin S => n \notin P
  BY DEF PlacesIn
<1>2. Len(Select(list, S)) = Cardinality(P)
  BY SelectPlaces
<1> HIDE DEF P
<1>3. IsFiniteSet(1..Len(list)) /\ Cardinality(1..Len(list)) = Len(list)
  <2>1. \A n \in Nat : IsFiniteSet(1..n) /\ Cardinality(1..n) = n
    BY FS_Interval
  <2>2. Len(list) \in Nat
    OBVIOUS
  <2> QED
    BY <2>1, <2>2
<1>4. /\ Cardinality(P) <= Cardinality(1..Len(list))
      /\ Cardinality(P) = Cardinality(1..Len(list)) => P = 1..Len(list)
      /\ Cardinality(P) \in Nat
  BY <1>1, <1>3, FS_Subset, FS_CardinalityType
<1>5. DOMAIN list = 1..Len(list) /\ Len(list) \in Nat
  OBVIOUS
<1> QED
  BY <1>1, <1>2, <1>3, <1>4, <1>5

\* A list without its first n places.
LEMMA SuffixPlaces ==
    ASSUME NEW A, NEW list \in Seq(A), NEW n \in 0..Len(list)
    PROVE  LET rest == SubSeq(list, n + 1, Len(list)) IN
           /\ rest \in Seq(A) /\ Len(rest) = Len(list) - n
           /\ \A m \in DOMAIN rest : n + m \in DOMAIN list /\ rest[m] = list[n + m]
           /\ \A m \in DOMAIN list : n < m => list[m] \in ToSet(rest)
           /\ IsInjective(list) => IsInjective(rest)
<1> DEFINE rest == SubSeq(list, n + 1, Len(list))
<1>1. /\ rest \in Seq(A) /\ Len(rest) = Len(list) - n /\ DOMAIN rest = 1..(Len(list) - n)
      /\ \A m \in 1..(Len(list) - n) : rest[m] = list[n + m]
  OBVIOUS
<1>2. \A m \in 1..(Len(list) - n) : n + m \in DOMAIN list
  OBVIOUS
<1> HIDE DEF rest
<1>3. ASSUME NEW m \in DOMAIN list, n < m PROVE list[m] \in ToSet(rest)
  <2>1. m - n \in 1..(Len(list) - n) /\ n + (m - n) = m
    BY <1>3
  <2>2. rest[m - n] = list[m]
    BY <1>1, <2>1
  <2> QED
    BY <1>1, <2>1, <2>2 DEF ToSet
<1>4. ASSUME IsInjective(list), NEW i \in DOMAIN rest, NEW j \in DOMAIN rest, rest[i] = rest[j]
      PROVE  i = j
  <2>1. n + i \in DOMAIN list /\ n + j \in DOMAIN list /\ list[n + i] = list[n + j]
    BY <1>1, <1>2, <1>4
  <2>2. n + i = n + j
    BY <1>4, <2>1 DEF IsInjective
  <2> QED
    BY <1>1, <2>2
<1>5. IsInjective(list) => IsInjective(rest)
  BY <1>4 DEF IsInjective
<1> QED
  BY <1>1, <1>2, <1>3, <1>5 DEF rest

-----------------------------------------------------------------------------
(* The conversation table. *)

\* It names a conversation once.
OneEach(table) == \A m, n \in DOMAIN table : table[m].key = table[n].key => m = n

LEMMA OneEachElements ==
    ASSUME NEW table \in Seq(Entry)
    PROVE  OneEach(table) <=> /\ IsInjective(table)
                              /\ \A e, f \in ToSet(table) : e.key = f.key => e = f
<1>1. ASSUME OneEach(table) PROVE IsInjective(table) /\ \A e, f \in ToSet(table) : e.key = f.key => e = f
  BY <1>1 DEF OneEach, IsInjective, ToSet
<1>2. ASSUME IsInjective(table), \A e, f \in ToSet(table) : e.key = f.key => e = f
      PROVE  OneEach(table)
  <2> SUFFICES ASSUME NEW m \in DOMAIN table, NEW n \in DOMAIN table, table[m].key = table[n].key
               PROVE  m = n
    BY DEF OneEach
  <2>1. table[m] \in ToSet(table) /\ table[n] \in ToSet(table)
    BY DEF ToSet
  <2>2. table[m] = table[n]
    BY <1>2, <2>1
  <2> QED
    BY <1>2, <2>2 DEF IsInjective
<1> QED
  BY <1>1, <1>2

\* What the history says of the table is what the table says.
KeptIs(table, who) ==
    /\ \A s \in Sessions : who[s] # Nobody => [key |-> s, conn |-> who[s]] \in ToSet(table)
    /\ \A e \in ToSet(table) : who[e.key] = e.conn

LEMMA HomeIsKept ==
    ASSUME home \in Seq(Entry), kept \in [Sessions -> Accounts \cup {Nobody}],
           KeptIs(home, kept), NEW s \in Sessions
    PROVE  HomeOf(s) = kept[s]
<1> DEFINE entries == {e \in ToSet(home) : e.key = s}
<1>1. CASE entries = {}
  <2>1. HomeOf(s) = Nobody
    BY <1>1 DEF HomeOf
  <2>2. [key |-> s, conn |-> kept[s]] \notin ToSet(home)
    BY <1>1
  <2> QED
    BY <2>1, <2>2 DEF KeptIs
<1>2. CASE entries # {}
  <2>1. (CHOOSE e \in entries : TRUE) \in entries
    BY <1>2
  <2>2. HomeOf(s) = (CHOOSE e \in entries : TRUE).conn
    BY <1>2 DEF HomeOf
  <2> QED
    BY <2>1, <2>2 DEF KeptIs
<1> QED
  BY <1>1, <1>2

TableOK ==
    /\ home \in Seq(Entry) /\ kept \in [Sessions -> Accounts \cup {Nobody}]
    /\ Len(home) <= AffinityMax
    /\ OneEach(home)
    /\ KeptIs(home, kept)

LEMMA TableInit ==
    ASSUME home \in {<<>>} \cup {<<e>> : e \in Entry}, kept = [s \in Sessions |-> HomeOf(s)]
    PROVE  TableOK
<1> DEFINE entries(s) == {e \in ToSet(home) : e.key = s}
<1>0. AffinityMax \in Nat /\ AffinityMax # 0 /\ Nobody \notin Accounts
  BY RoutingAssumption
<1>1. CASE home = <<>>
  <2>1. ToSet(home) = {}
    BY <1>1 DEF ToSet
  <2>2. \A s \in Sessions : HomeOf(s) = Nobody
    BY <2>1 DEF HomeOf
  <2>3. \A s \in Sessions : kept[s] = Nobody
    BY <2>2
  <2>4. home \in Seq(Entry) /\ kept \in [Sessions -> Accounts \cup {Nobody}] /\ Len(home) <= AffinityMax
    BY <1>0, <1>1, <2>2
  <2> QED
    BY <1>1, <2>1, <2>3, <2>4 DEF TableOK, OneEach, KeptIs
<1>2. ASSUME NEW e \in Entry, home = <<e>> PROVE TableOK
  <2>1. ToSet(home) = {e}
    BY <1>2 DEF ToSet
  <2>2. e.key \in Sessions /\ e.conn \in Accounts /\ e = [key |-> e.key, conn |-> e.conn]
    BY DEF Entry
  <2>3. HomeOf(e.key) = e.conn
    <3>1. entries(e.key) = {e}
      BY <2>1
    <3> QED
      BY <3>1 DEF HomeOf
  <2>4. \A s \in Sessions : s # e.key => HomeOf(s) = Nobody
    <3>1. \A s \in Sessions : s # e.key => entries(s) = {}
      BY <2>1
    <3> QED
      BY <3>1 DEF HomeOf
  <2>5. kept \in [Sessions -> Accounts \cup {Nobody}]
    BY <2>2, <2>3, <2>4
  <2>6. home \in Seq(Entry) /\ Len(home) <= AffinityMax /\ OneEach(home)
    BY <1>0, <1>2 DEF OneEach
  <2>7. KeptIs(home, kept)
    BY <1>0, <2>1, <2>2, <2>3, <2>4 DEF KeptIs
  <2> QED
    BY <2>5, <2>6, <2>7 DEF TableOK
<1> QED
  BY <1>1, <1>2

\* The oldest entry goes.
LEMMA ForgetKeepsTable ==
    ASSUME TableOK, Forget
    PROVE  TableOK'
<1> DEFINE k == home[1].key
<1>1. /\ home \in Seq(Entry) /\ home # <<>> /\ OneEach(home) /\ KeptIs(home, kept)
      /\ Len(home) <= AffinityMax /\ kept \in [Sessions -> Accounts \cup {Nobody}]
      /\ home' = Tail(home) /\ kept' = [kept EXCEPT ![k] = Nobody]
  BY DEF TableOK, Forget
<1>2. home[1] \in Entry /\ k \in Sessions
  <2>1. home[1] \in Entry
    BY <1>1
  <2> QED
    BY <2>1 DEF Entry
<1>3. PICK n \in 0..Len(home) : n = 1 /\ home' = SubSeq(home, n + 1, Len(home))
  BY <1>1
<1> DEFINE rest == SubSeq(home, n + 1, Len(home))
<1>4. /\ home' \in Seq(Entry) /\ Len(home') = Len(home) - 1
      /\ \A m \in DOMAIN home' : 1 + m \in DOMAIN home /\ home'[m] = home[1 + m]
      /\ \A m \in DOMAIN home : 1 < m => home[m] \in ToSet(home')
      /\ IsInjective(home) => IsInjective(home')
  <2>1. /\ rest \in Seq(Entry) /\ Len(rest) = Len(home) - n
        /\ \A m \in DOMAIN rest : n + m \in DOMAIN home /\ rest[m] = home[n + m]
        /\ \A m \in DOMAIN home : n < m => home[m] \in ToSet(rest)
        /\ IsInjective(home) => IsInjective(rest)
    BY <1>1, SuffixPlaces
  <2>2. home' = rest /\ n = 1
    BY <1>3
  <2> HIDE DEF rest
  <2> QED
    BY <2>1, <2>2
<1> HIDE DEF rest
<1> HIDE DEF k
<1>5. \A e \in ToSet(home') : e \in ToSet(home)
  BY <1>4 DEF ToSet
<1>6. OneEach(home')
  BY <1>1, <1>4, <1>5, OneEachElements
<1>7. \A e \in ToSet(home') : e.key # k /\ e.key \in Sessions
  <2> SUFFICES ASSUME NEW m \in DOMAIN home' PROVE home'[m].key # k /\ home'[m].key \in Sessions
    BY DEF ToSet
  <2>1. 1 + m \in DOMAIN home /\ home'[m] = home[1 + m] /\ 1 + m # 1 /\ 1 \in DOMAIN home
    BY <1>1, <1>4
  <2>2. home[1 + m].key # k
    BY <1>1, <2>1 DEF OneEach, k
  <2>3. home'[m] \in Entry
    BY <1>4
  <2> QED
    BY <2>1, <2>2, <2>3 DEF Entry
<1>8. kept' \in [Sessions -> Accounts \cup {Nobody}] /\ kept'[k] = Nobody
      /\ \A s \in Sessions : s # k => kept'[s] = kept[s]
  BY <1>1, <1>2
<1>9. ASSUME NEW s \in Sessions, kept'[s] # Nobody
      PROVE  [key |-> s, conn |-> kept'[s]] \in ToSet(home')
  <2>1. s # k /\ kept'[s] = kept[s]
    BY <1>8, <1>9
  <2>2. [key |-> s, conn |-> kept[s]] \in ToSet(home)
    BY <1>1, <1>9, <2>1 DEF KeptIs
  <2>3. PICK m \in DOMAIN home : home[m] = [key |-> s, conn |-> kept[s]]
    BY <2>2 DEF ToSet
  <2>4. m # 1
    BY <2>1, <2>3 DEF k
  <2>5. 1 < m
    BY <1>1, <2>4
  <2> QED
    BY <1>4, <2>1, <2>3, <2>5
<1>10. KeptIs(home', kept')
  BY <1>1, <1>5, <1>7, <1>8, <1>9 DEF KeptIs
<1>11. Len(home') <= AffinityMax
  BY <1>1, <1>4, RoutingAssumption
<1> QED
  BY <1>4, <1>6, <1>8, <1>10, <1>11 DEF TableOK

\* What answered a conversation is its newest entry, and the oldest make place.
LEMMA RememberKeepsTable ==
    ASSUME TableOK, NEW s \in Sessions, NEW a \in Accounts, Remember(s, a)
    PROVE  TableOK'
<1>1. /\ home \in Seq(Entry) /\ OneEach(home) /\ KeptIs(home, kept)
      /\ Len(home) <= AffinityMax /\ kept \in [Sessions -> Accounts \cup {Nobody}]
  BY DEF TableOK
<1>2. PICK n \in IF MustPrune(home, s) THEN 1..Len(home) ELSE {0} :
        /\ home' = Placed(SubSeq(home, n + 1, Len(home)), s, a)
        /\ kept' = [k \in Sessions |-> IF k = s THEN a
                                       ELSE IF k \in Drops(home, n) THEN Nobody
                                       ELSE kept[k]]
  BY DEF Remember
<1> DEFINE rest  == SubSeq(home, n + 1, Len(home))
           S     == [key : Sessions \ {s}, conn : Accounts]
           older == Select(rest, S)
           new   == [key |-> s, conn |-> a]
<1>3. n \in 0..Len(home) /\ (n = 0 => ~MustPrune(home, s))
  BY <1>1, <1>2
<1>4. /\ rest \in Seq(Entry) /\ Len(rest) = Len(home) - n
      /\ \A m \in DOMAIN rest : n + m \in DOMAIN home /\ rest[m] = home[n + m]
      /\ \A m \in DOMAIN home : n < m => home[m] \in ToSet(rest)
      /\ IsInjective(home) => IsInjective(rest)
  BY <1>1, <1>3, SuffixPlaces
<1>5. home' = Append(older, new)
  BY <1>2 DEF Placed
<1>6. n = 0 => rest = home
  BY <1>1
<1> HIDE DEF rest
<1>7. ToSet(rest) \subseteq ToSet(home)
  BY <1>4 DEF ToSet
<1>8. older \in Seq(Entry) /\ ToSet(older) = ToSet(rest) \cap S /\ Len(older) <= Len(rest)
  BY <1>4, SelectPlaces, SelectElements, SelectShorter
<1>9. IsInjective(older)
  BY <1>1, <1>4, OneEachElements, SelectInjective
<1>10. \A e \in Entry : e \in S <=> e.key # s
  BY DEF Entry
<1>11. ToSet(rest) \subseteq Entry
  BY <1>4 DEF ToSet
<1>12. new \in Entry /\ new.key = s /\ new.conn = a
  BY DEF Entry
<1>13. Len(older) < AffinityMax
  <2>1. Len(rest) \in Nat /\ Len(home) \in Nat /\ AffinityMax \in Nat /\ AffinityMax # 0 /\ Len(older) \in Nat
    BY <1>1, <1>4, <1>8, RoutingAssumption
  <2>2. CASE n # 0
    BY <2>1, <2>2, <1>1, <1>3, <1>4, <1>8
  <2>3. CASE n = 0 /\ Len(home) < AffinityMax
    BY <2>1, <2>3, <1>3, <1>4, <1>8
  <2>4. CASE n = 0 /\ \E e \in ToSet(home) : e.key = s
    <3>1. PICK m \in DOMAIN home : home[m].key = s
      BY <2>4 DEF ToSet
    <3>2. m \in DOMAIN rest /\ rest[m] \notin S
      BY <3>1, <2>4, <1>6
    <3>3. Len(older) < Len(rest)
      BY <1>4, <3>2, SelectShorter
    <3> QED
      BY <2>1, <2>4, <3>3, <1>1, <1>4
  <2> QED
    BY <2>1, <2>2, <2>3, <2>4, <1>3 DEF MustPrune
<1> HIDE DEF older, S, new
<1>14. home' = older \o <<new>> /\ <<new>> \in Seq(Entry)
  BY <1>5, <1>8, <1>12
<1>15. home' \in Seq(Entry) /\ Len(home') = Len(older) + 1 /\ Len(older) \in Nat
  BY <1>5, <1>8, <1>12
<1>16. ToSet(<<new>>) = {new} /\ IsInjective(<<new>>)
  BY DEF ToSet, IsInjective
<1>17. ToSet(home') = ToSet(older) \cup {new}
  <2>1. \A x, y \in Seq(Entry) : ToSet(x \o y) = ToSet(x) \cup ToSet(y)
    BY ConcatElements
  <2> QED
    BY <1>8, <1>14, <1>16, <2>1
<1>18. \A e \in ToSet(older) : e.key # s /\ e \in ToSet(home) /\ e \in Entry
  BY <1>7, <1>8, <1>10, <1>11
<1>19. IsInjective(home')
  <2>1. ToSet(older) \cap ToSet(<<new>>) = {}
    BY <1>12, <1>16, <1>18
  <2> QED
    BY <1>8, <1>9, <1>14, <1>16, <2>1, ConcatInjective
<1>20. OneEach(home')
  <2>1. \A e, f \in ToSet(home) : e.key = f.key => e = f
    BY <1>1, OneEachElements
  <2>2. \A e, f \in ToSet(home') : e.key = f.key => e = f
    BY <1>12, <1>17, <1>18, <2>1
  <2> QED
    BY <1>15, <1>19, <2>2, OneEachElements
<1>21. \A k \in Sessions :
         /\ k = s => kept'[k] = a
         /\ k # s /\ k \in Drops(home, n) => kept'[k] = Nobody
         /\ k # s /\ k \notin Drops(home, n) => kept'[k] = kept[k]
  BY <1>2
<1>22. kept' \in [Sessions -> Accounts \cup {Nobody}]
  BY <1>1, <1>2
<1>23. \A e \in ToSet(rest) : e.key \notin Drops(home, n)
  <2> SUFFICES ASSUME NEW m \in DOMAIN rest, NEW l \in 1..n, home[l].key = rest[m].key
               PROVE  FALSE
    BY DEF ToSet, Drops
  <2>1. n + m \in DOMAIN home /\ rest[m] = home[n + m] /\ l \in DOMAIN home /\ n + m # l
    BY <1>1, <1>3, <1>4
  <2> QED
    BY <1>1, <2>1 DEF OneEach
<1>24. ASSUME NEW k \in Sessions, kept'[k] # Nobody
       PROVE  [key |-> k, conn |-> kept'[k]] \in ToSet(home')
  <2>1. CASE k = s
    BY <2>1, <1>17, <1>21 DEF new
  <2>2. CASE k # s
    <3>1. k \notin Drops(home, n) /\ kept'[k] = kept[k]
      BY <2>2, <1>21, <1>24
    <3>2. [key |-> k, conn |-> kept[k]] \in ToSet(home)
      BY <1>1, <1>24, <3>1 DEF KeptIs
    <3>3. PICK m \in DOMAIN home : home[m] = [key |-> k, conn |-> kept[k]]
      BY <3>2 DEF ToSet
    <3>4. m \notin 1..n
      BY <3>1, <3>3 DEF Drops
    <3>5. n < m
      BY <1>1, <1>3, <3>4
    <3>6. home[m] \in ToSet(rest) /\ home[m].key = k
      BY <1>4, <3>3, <3>5
    <3>7. home[m] \in S
      BY <1>10, <1>11, <2>2, <3>6
    <3> QED
      BY <1>8, <1>17, <3>1, <3>3, <3>6, <3>7
  <2> QED
    BY <2>1, <2>2
<1>25. ASSUME NEW e \in ToSet(home') PROVE kept'[e.key] = e.conn
  <2>1. CASE e = new
    BY <2>1, <1>12, <1>21
  <2>2. CASE e \in ToSet(older)
    <3>1. e.key \notin Drops(home, n) /\ e.key # s /\ e.key \in Sessions
      BY <2>2, <1>8, <1>18, <1>23 DEF Entry
    <3>2. kept[e.key] = e.conn
      BY <1>1, <1>18, <2>2 DEF KeptIs
    <3> QED
      BY <1>21, <3>1, <3>2
  <2> QED
    BY <2>1, <2>2, <1>17
<1>26. KeptIs(home', kept')
  BY <1>24, <1>25 DEF KeptIs
<1>27. Len(home') <= AffinityMax
  BY <1>13, <1>15, RoutingAssumption
<1> QED
  BY <1>15, <1>20, <1>22, <1>26, <1>27 DEF TableOK

\* What is known of a request: the accounts read for it, then its tries, of which
\* as many are left as the delivery says.
RequestOK(r) ==
    /\ TargetList(targets[r])
    /\ answer[r] = Waiting /\ ~Planned(r) => attempts[r] = <<>>
    /\ answer[r] = Waiting /\ Planned(r) =>
            /\ left[r] \in 0..Len(attempts[r])
            /\ TriesOK(targets[r], attempts[r], left_out[r])

RoutingInv == RoutingTypeOK /\ TableOK /\ \A r \in Requests : RequestOK(r)

LEMMA NoTargets == TargetList(<<>>)
BY DEF TargetList

LEMMA RequestFrame ==
    ASSUME NEW q \in Requests, RequestOK(q), targets'[q] = targets[q], attempts'[q] = attempts[q],
           left'[q] = left[q], answer'[q] = answer[q], left_out'[q] = left_out[q]
    PROVE  RequestOK(q)'
BY DEF RequestOK, Planned

LEMMA TableFrame ==
    ASSUME TableOK, UNCHANGED <<home, kept>>
    PROVE  TableOK'
BY DEF TableOK

LEMMA RoutingInvInit ==
    ASSUME RoutingInit
    PROVE  RoutingInv
<1>1. /\ left = [r \in Requests |-> Unplanned] /\ answer = [r \in Requests |-> Waiting]
      /\ active \subseteq Accounts /\ standby \subseteq Accounts /\ spent = {} /\ switches = 0
      /\ home \in {<<>>} \cup {<<e>> : e \in Entry}
      /\ session = [r \in Requests |-> NoSession]
      /\ targets = [r \in Requests |-> <<>>] /\ attempts = [r \in Requests |-> <<>>]
      /\ left_out = [r \in Requests |-> {}]
      /\ kept = [s \in Sessions |-> HomeOf(s)]
  BY DEF RoutingInit, DeliveryInit
<1>2. TableOK
  BY <1>1, TableInit
<1>3. RoutingTypeOK
  BY <1>1, <1>2, RoutingAssumption DEF RoutingTypeOK, TableOK
<1>4. \A r \in Requests : RequestOK(r)
  BY <1>1, NoTargets DEF RequestOK, Planned
<1> QED
  BY <1>2, <1>3, <1>4 DEF RoutingInv

LEMMA ResolveKeeps ==
    ASSUME RoutingInv, NEW r \in Requests, NEW s \in Sessions \cup {NoSession}, Resolve(r, s)
    PROVE  RoutingInv'
<1>1. /\ answer[r] = Waiting /\ ~Planned(r)
      /\ session' = [session EXCEPT ![r] = s] /\ targets' = [targets EXCEPT ![r] = ActiveTargets]
      /\ UNCHANGED <<left, answer, active, standby, spent, switches, home, attempts, left_out, kept>>
  BY DEF Resolve, deliveryVars, settingsVars
<1>2. RoutingTypeOK /\ TableOK /\ \A q \in Requests : RequestOK(q)
  BY DEF RoutingInv
<1>3. TargetList(ActiveTargets) /\ ActiveTargets \in Seq(Attempt)
  BY <1>2, ActiveTargetsOK DEF RoutingTypeOK, TargetList
<1>4. targets \in [Requests -> Seq(Attempt)] /\ session \in [Requests -> Sessions \cup {NoSession}]
  BY <1>2 DEF RoutingTypeOK
<1>5. /\ targets'[r] = ActiveTargets /\ targets' \in [Requests -> Seq(Attempt)]
      /\ session' \in [Requests -> Sessions \cup {NoSession}]
      /\ \A q \in Requests : q # r => targets'[q] = targets[q]
  BY <1>1, <1>3, <1>4
<1>6. RoutingTypeOK'
  BY <1>1, <1>2, <1>5 DEF RoutingTypeOK
<1>7. RequestOK(r)'
  BY <1>1, <1>2, <1>3, <1>5 DEF RequestOK, Planned
<1>8. \A q \in Requests : q # r => RequestOK(q)'
  BY <1>1, <1>2, <1>5, RequestFrame
<1>9. TableOK'
  BY <1>1, <1>2, TableFrame
<1> QED
  BY <1>6, <1>7, <1>8, <1>9 DEF RoutingInv

LEMMA RejectKeeps ==
    ASSUME RoutingInv, NEW r \in Requests, Reject(r)
    PROVE  RoutingInv'
<1>1. /\ answer' = [answer EXCEPT ![r] = Refused]
      /\ UNCHANGED <<left, active, standby, spent, switches, home, session, targets, attempts,
                     left_out, kept>>
  BY DEF Reject, Refuse, settingsVars
<1>2. RoutingTypeOK /\ TableOK /\ \A q \in Requests : RequestOK(q)
  BY DEF RoutingInv
<1>3. answer \in [Requests -> Answers \cup {Waiting, Failed, Refused}]
  BY <1>2 DEF RoutingTypeOK
<1>4. /\ answer'[r] = Refused /\ answer' \in [Requests -> Answers \cup {Waiting, Failed, Refused}]
      /\ \A q \in Requests : q # r => answer'[q] = answer[q]
  BY <1>1, <1>3
<1>5. RoutingTypeOK'
  BY <1>1, <1>2, <1>4 DEF RoutingTypeOK
<1>6. Refused # Waiting
  BY DEF Refused, Waiting
<1>7. RequestOK(r)'
  BY <1>1, <1>2, <1>4, <1>6 DEF RequestOK
<1>8. \A q \in Requests : q # r => RequestOK(q)'
  BY <1>1, <1>2, <1>4, RequestFrame
<1>9. TableOK'
  BY <1>1, <1>2, TableFrame
<1> QED
  BY <1>5, <1>7, <1>8, <1>9 DEF RoutingInv

LEMMA PlanKeeps ==
    ASSUME RoutingInv, NEW r \in Requests, PlanAttempts(r)
    PROVE  RoutingInv'
<1>1. /\ targets[r] # <<>> /\ ~Planned(r) /\ answer[r] = Waiting
      /\ left_out' = [left_out EXCEPT ![r] = spent]
      /\ UNCHANGED <<answer, active, standby, spent, switches, home, session, targets, kept>>
  BY DEF PlanAttempts, Plan, settingsVars
<1>2. PICK list \in Orderings(targets[r], HomeFor(r)), picked \in BOOLEAN :
            /\ Plan(r, Len(SkipSpent(AttemptsFor(list, picked))))
            /\ attempts' = [attempts EXCEPT ![r] = SkipSpent(AttemptsFor(list, picked))]
  BY DEF PlanAttempts
<1> DEFINE tries == SkipSpent(AttemptsFor(list, picked))
<1>3. RoutingTypeOK /\ TableOK /\ \A q \in Requests : RequestOK(q)
  BY DEF RoutingInv
<1>4. TargetList(targets[r])
  BY <1>3 DEF RequestOK
<1>5. tries \in Seq(Attempt) /\ TriesOK(targets[r], tries, spent)
  BY <1>1, <1>2, <1>4, TriesAreOK
<1>6. left' = [left EXCEPT ![r] = Len(tries)] /\ attempts' = [attempts EXCEPT ![r] = tries]
  BY <1>2 DEF Plan
<1> HIDE DEF tries
<1>7. /\ left \in [Requests -> Nat \cup {Unplanned}] /\ attempts \in [Requests -> Seq(Attempt)]
      /\ left_out \in [Requests -> SUBSET (Accounts \X BOOLEAN)] /\ spent \in SUBSET (Accounts \X BOOLEAN)
  BY <1>3 DEF RoutingTypeOK
<1>8. /\ left'[r] = Len(tries) /\ left' \in [Requests -> Nat \cup {Unplanned}]
      /\ attempts'[r] = tries /\ attempts' \in [Requests -> Seq(Attempt)]
      /\ left_out'[r] = spent /\ left_out' \in [Requests -> SUBSET (Accounts \X BOOLEAN)]
  BY <1>1, <1>5, <1>6, <1>7
<1>9. \A q \in Requests : q # r =>
            left'[q] = left[q] /\ attempts'[q] = attempts[q] /\ left_out'[q] = left_out[q]
  BY <1>1, <1>6, <1>7
<1>10. RoutingTypeOK'
  BY <1>1, <1>3, <1>8 DEF RoutingTypeOK
<1>11. RequestOK(r)'
  <2>1. left'[r] \in 0..Len(attempts'[r]) /\ left'[r] # Unplanned
    BY <1>5, <1>8 DEF Unplanned
  <2> QED
    BY <1>1, <1>4, <1>5, <1>8, <2>1 DEF RequestOK, Planned
<1>12. \A q \in Requests : q # r => RequestOK(q)'
  BY <1>1, <1>3, <1>9, RequestFrame
<1>13. TableOK'
  BY <1>1, <1>3, TableFrame
<1> QED
  BY <1>10, <1>11, <1>12, <1>13 DEF RoutingInv

LEMMA MoveOnKeeps ==
    ASSUME RoutingInv, NEW r \in Requests, MoveOn(r)
    PROVE  RoutingInv'
<1>1. /\ Planned(r) /\ answer[r] = Waiting /\ left[r] # 0
      /\ left' = [left EXCEPT ![r] = left[r] - 1]
      /\ UNCHANGED <<answer, active, standby, spent, switches, home, session, targets, attempts,
                     left_out, kept>>
  BY DEF MoveOn, GiveUp, settingsVars
<1>2. RoutingTypeOK /\ TableOK /\ \A q \in Requests : RequestOK(q)
  BY DEF RoutingInv
<1>3. /\ left \in [Requests -> Nat \cup {Unplanned}]
      /\ left[r] \in 0..Len(attempts[r]) /\ attempts[r] \in Seq(Attempt)
      /\ TriesOK(targets[r], attempts[r], left_out[r])
  BY <1>1, <1>2 DEF RoutingTypeOK, RequestOK
<1>4. left[r] - 1 \in 0..Len(attempts[r]) /\ left[r] - 1 \in Nat
  BY <1>1, <1>3
<1>5. /\ left'[r] = left[r] - 1 /\ left' \in [Requests -> Nat \cup {Unplanned}]
      /\ \A q \in Requests : q # r => left'[q] = left[q]
  BY <1>1, <1>3, <1>4
<1>6. RoutingTypeOK'
  BY <1>1, <1>2, <1>5 DEF RoutingTypeOK
<1>7. RequestOK(r)'
  <2>1. left'[r] \in 0..Len(attempts'[r]) /\ left'[r] # Unplanned
    BY <1>1, <1>4, <1>5 DEF Unplanned
  <2> QED
    BY <1>1, <1>2, <1>3, <2>1 DEF RequestOK, Planned
<1>8. \A q \in Requests : q # r => RequestOK(q)'
  BY <1>1, <1>2, <1>5, RequestFrame
<1>9. TableOK'
  BY <1>1, <1>2, TableFrame
<1> QED
  BY <1>6, <1>7, <1>8, <1>9 DEF RoutingInv

LEMMA CloseKeeps ==
    ASSUME RoutingInv, NEW r \in Requests, Close(r),
           NEW x \in Answers \cup {Failed, Refused}, answer' = [answer EXCEPT ![r] = x],
           UNCHANGED left, UNCHANGED settingsVars, TableOK'
    PROVE  RoutingInv'
<1>1. RoutingTypeOK /\ \A q \in Requests : RequestOK(q)
  BY DEF RoutingInv
<1>2. UNCHANGED <<active, standby, spent, switches>>
  BY DEF settingsVars
<1>3. /\ answer \in [Requests -> Answers \cup {Waiting, Failed, Refused}]
      /\ session \in [Requests -> Sessions \cup {NoSession}]
      /\ targets \in [Requests -> Seq(Attempt)] /\ attempts \in [Requests -> Seq(Attempt)]
      /\ left_out \in [Requests -> SUBSET (Accounts \X BOOLEAN)]
  BY <1>1 DEF RoutingTypeOK
<1>4. <<>> \in Seq(Attempt)
  OBVIOUS
<1>5. /\ answer'[r] = x /\ answer' \in [Requests -> Answers \cup {Waiting, Failed, Refused}]
      /\ session' \in [Requests -> Sessions \cup {NoSession}]
      /\ targets'[r] = <<>> /\ targets' \in [Requests -> Seq(Attempt)]
      /\ attempts' \in [Requests -> Seq(Attempt)]
      /\ left_out' \in [Requests -> SUBSET (Accounts \X BOOLEAN)]
  BY <1>3, <1>4 DEF Close
<1>6. \A q \in Requests : q # r =>
            /\ answer'[q] = answer[q] /\ targets'[q] = targets[q] /\ attempts'[q] = attempts[q]
            /\ left_out'[q] = left_out[q] /\ left'[q] = left[q]
  BY <1>3 DEF Close
<1>7. RoutingTypeOK'
  BY <1>1, <1>2, <1>5 DEF RoutingTypeOK, TableOK
<1>8. x # Waiting
  BY RoutingAssumption DEF Refused, Waiting, Failed
<1>9. RequestOK(r)'
  BY <1>5, <1>8, NoTargets DEF RequestOK
<1>10. \A q \in Requests : q # r => RequestOK(q)'
  BY <1>1, <1>6, RequestFrame
<1> QED
  BY <1>7, <1>9, <1>10 DEF RoutingInv

\* The try under way is one of the request's.
LEMMA CurrentIsATry ==
    ASSUME RoutingInv, NEW r \in Requests, Planned(r), answer[r] = Waiting, left[r] # 0
    PROVE  /\ attempts[r] \in Seq(Attempt) /\ left[r] \in 1..Len(attempts[r])
           /\ Place(r) \in DOMAIN attempts[r] /\ Current(r) \in Attempt
           /\ TriesOK(targets[r], attempts[r], left_out[r])
<1>1. RoutingTypeOK /\ RequestOK(r)
  BY DEF RoutingInv
<1>2. attempts[r] \in Seq(Attempt) /\ left[r] \in 0..Len(attempts[r])
      /\ TriesOK(targets[r], attempts[r], left_out[r])
  BY <1>1 DEF RoutingTypeOK, RequestOK
<1>3. left[r] \in 1..Len(attempts[r]) /\ Place(r) \in DOMAIN attempts[r]
  BY <1>2 DEF Place
<1>4. Current(r) \in Attempt
  BY <1>2, <1>3 DEF Current
<1> QED
  BY <1>2, <1>3, <1>4

LEMMA RelayKeeps ==
    ASSUME RoutingInv, NEW r \in Requests, NEW s \in Answers, Relay(r, s)
    PROVE  RoutingInv'
<1>1. /\ Planned(r) /\ answer[r] = Waiting /\ left[r] # 0
      /\ answer' = [answer EXCEPT ![r] = s] /\ UNCHANGED left
      /\ Close(r) /\ UNCHANGED settingsVars
      /\ IF Pins(r, s) THEN Remember(session[r], Current(r).acc) ELSE UNCHANGED <<home, kept>>
  BY DEF Relay, Deliver
<1>2. TableOK /\ RoutingTypeOK
  BY DEF RoutingInv
<1>3. CASE Pins(r, s)
  <2>1. session[r] \in Sessions
    BY <1>2, <1>3 DEF Pins, RoutingTypeOK
  <2>2. Current(r).acc \in Accounts
    BY <1>1, CurrentIsATry DEF Attempt, On
  <2>3. TableOK'
    BY <1>1, <1>2, <1>3, <2>1, <2>2, RememberKeepsTable
  <2> QED
    BY <1>1, <2>3, CloseKeeps
<1>4. CASE ~Pins(r, s)
  <2>1. TableOK'
    BY <1>1, <1>2, <1>4, TableFrame
  <2> QED
    BY <1>1, <2>1, CloseKeeps
<1> QED
  BY <1>3, <1>4

LEMMA EndKeeps ==
    ASSUME RoutingInv, NEW r \in Requests, EndWithError(r)
    PROVE  RoutingInv'
<1>1. PICK x \in {Failed, Refused} : answer' = [answer EXCEPT ![r] = x] /\ UNCHANGED left
  BY DEF EndWithError, Fail, Refuse
<1>2. Close(r) /\ UNCHANGED settingsVars /\ UNCHANGED <<home, kept>>
  BY DEF EndWithError
<1>3. TableOK'
  BY <1>2, TableFrame DEF RoutingInv
<1> QED
  BY <1>1, <1>2, <1>3, CloseKeeps

LEMMA ForgetKeeps ==
    ASSUME RoutingInv, Forget
    PROVE  RoutingInv'
<1>1. UNCHANGED <<left, answer, session, targets, attempts, left_out, active, standby, spent, switches>>
  BY DEF Forget, requestVars, deliveryVars, settingsVars
<1>2. RoutingTypeOK /\ TableOK /\ \A q \in Requests : RequestOK(q)
  BY DEF RoutingInv
<1>3. TableOK'
  BY <1>2, ForgetKeepsTable
<1>4. RoutingTypeOK'
  BY <1>1, <1>2, <1>3 DEF RoutingTypeOK, TableOK
<1>5. \A q \in Requests : RequestOK(q)'
  BY <1>1, <1>2, RequestFrame
<1> QED
  BY <1>3, <1>4, <1>5 DEF RoutingInv

LEMMA SwitchKeeps ==
    ASSUME RoutingInv, Switch, (active \subseteq Accounts)', (standby \subseteq Accounts)',
           (spent \subseteq Accounts \X BOOLEAN)'
    PROVE  RoutingInv'
<1>1. /\ switches < MaxSwitches /\ switches' = switches + 1
      /\ UNCHANGED <<left, answer, session, targets, attempts, left_out, home, kept>>
  BY DEF Switch, requestVars, deliveryVars
<1>2. RoutingTypeOK /\ TableOK /\ \A q \in Requests : RequestOK(q)
  BY DEF RoutingInv
<1>3. switches' \in 0..MaxSwitches
  BY <1>1, <1>2, RoutingAssumption DEF RoutingTypeOK
<1>4. RoutingTypeOK'
  BY <1>1, <1>2, <1>3 DEF RoutingTypeOK
<1>5. TableOK' /\ \A q \in Requests : RequestOK(q)'
  BY <1>1, <1>2, RequestFrame, TableFrame
<1> QED
  BY <1>4, <1>5 DEF RoutingInv

LEMMA EnvironmentKeeps ==
    ASSUME RoutingInv, Environment
    PROVE  RoutingInv'
<1>1. active \subseteq Accounts /\ standby \subseteq Accounts /\ spent \subseteq Accounts \X BOOLEAN
  BY DEF RoutingInv, RoutingTypeOK
<1>2. CASE Forget
  BY <1>2, ForgetKeeps
<1>3. ASSUME NEW a \in Accounts, SwitchOff(a) \/ SwitchOn(a) \/ Mark(a) PROVE RoutingInv'
  BY <1>1, <1>3, SwitchKeeps DEF SwitchOff, SwitchOn, Mark
<1>4. ASSUME NEW a \in Accounts, NEW alt \in BOOLEAN, SpendOrReset(a, alt) PROVE RoutingInv'
  BY <1>1, <1>4, SwitchKeeps DEF SpendOrReset
<1> QED
  BY <1>2, <1>3, <1>4 DEF Environment

LEMMA RoutingInvStep ==
    ASSUME RoutingInv, [RoutingNext]_routingVars
    PROVE  RoutingInv'
<1>1. ASSUME NEW r \in Requests, NEW s \in Sessions \cup {NoSession}, Resolve(r, s) PROVE RoutingInv'
  BY <1>1, ResolveKeeps
<1>2. ASSUME NEW r \in Requests, Reject(r) PROVE RoutingInv'
  BY <1>2, RejectKeeps
<1>3. ASSUME NEW r \in Requests, PlanAttempts(r) PROVE RoutingInv'
  BY <1>3, PlanKeeps
<1>4. ASSUME NEW r \in Requests, MoveOn(r) PROVE RoutingInv'
  BY <1>4, MoveOnKeeps
<1>5. ASSUME NEW r \in Requests, EndWithError(r) PROVE RoutingInv'
  BY <1>5, EndKeeps
<1>6. ASSUME NEW r \in Requests, NEW s \in Answers, Relay(r, s) PROVE RoutingInv'
  BY <1>6, RelayKeeps
<1>7. CASE Environment
  BY <1>7, EnvironmentKeeps
<1>8. CASE UNCHANGED routingVars
  <2>1. UNCHANGED <<left, answer, session, targets, attempts, left_out, active, standby, spent,
                    switches, home, kept>>
    BY <1>8 DEF routingVars, requestVars, deliveryVars, settingsVars
  <2>2. RoutingTypeOK /\ TableOK /\ \A q \in Requests : RequestOK(q)
    BY DEF RoutingInv
  <2>3. TableOK' /\ \A q \in Requests : RequestOK(q)'
    BY <2>1, <2>2, RequestFrame, TableFrame
  <2>4. RoutingTypeOK'
    BY <2>1, <2>2 DEF RoutingTypeOK
  <2> QED
    BY <2>3, <2>4 DEF RoutingInv
<1> QED
  BY <1>1, <1>2, <1>3, <1>4, <1>5, <1>6, <1>7, <1>8 DEF RoutingNext

\* In every state of the routing the invariant holds: each request's accounts are
\* read once each, its tries are in an order its plan allows and as many are left as
\* the delivery says, and the conversation table is within its bound, names each
\* conversation once and says who last answered it (v1.go:v1, affinity.go:set, prune).
THEOREM RoutingInvariant == RoutingSpec => []RoutingInv
BY RoutingInvInit, RoutingInvStep, PTL DEF RoutingSpec

\* A standby account is tried only after every normal account of the request was left
\* out for its quota or given up, however accounts are switched, marked and spent
\* meanwhile (v1.go:v1, rotation.go:orderTargets).
THEOREM StandbyLast == RoutingSpec => []StandbyTriedLast
<1>1. ASSUME RoutingInv PROVE StandbyTriedLast
  <2> SUFFICES ASSUME NEW r \in Requests, answer[r] = Waiting, left[r] > 0,
                      Current(r).standby, ~Current(r).alt,
                      NEW t \in ToSet(Normal(targets[r]))
               PROVE  TriedBefore(r, t)
    BY DEF StandbyTriedLast
  <2> DEFINE tries == attempts[r]
             p == Place(r)
  <2>1. Planned(r) /\ left[r] # 0 /\ TargetList(targets[r]) /\ targets[r] \in Seq(Attempt)
    <3>1. left[r] \in Nat \cup {Unplanned} /\ Unplanned = -1 /\ RequestOK(r) /\ targets[r] \in Seq(Attempt)
      BY <1>1 DEF RoutingInv, RoutingTypeOK, Unplanned
    <3> QED
      BY <3>1 DEF Planned, RequestOK
  <2>2. /\ tries \in Seq(Attempt) /\ p \in DOMAIN tries /\ TriesOK(targets[r], tries, left_out[r])
        /\ tries[p] = Current(r)
    BY <1>1, <2>1, CurrentIsATry DEF Current
  <2>3. t \in ToSet(targets[r]) /\ ~t.standby
    BY <2>1, NormalElements
  <2> HIDE DEF tries, p
  <2>4. Current(r) \in ToSet(tries)
    BY <2>2 DEF ToSet
  <2>5. Current(r) \in ToSet(targets[r])
    BY <2>2, <2>4 DEF TriesOK
  <2>6. <<t.acc, FALSE>> \in left_out[r] \/ Before(tries, t, Current(r))
    BY <2>2, <2>3, <2>5 DEF TriesOK
  <2>7. CASE Before(tries, t, Current(r))
    <3>1. PICK i \in DOMAIN tries : i < p /\ tries[i] = t
      BY <2>2, <2>7 DEF Before
    <3>2. i \in 1..p - 1
      BY <2>2, <3>1
    <3> QED
      BY <3>1, <3>2 DEF TriedBefore, tries, p
  <2> QED
    BY <2>6, <2>7 DEF TriedBefore
<1> QED
  BY <1>1, RoutingInvariant, PTL

\* The conversation table never holds more than its bound nor a conversation twice,
\* in whatever order requests end (affinity.go:set, prune).
THEOREM TableIsBounded == RoutingSpec => []SessionsBounded
<1>1. RoutingInv => SessionsBounded
  BY DEF RoutingInv, TableOK, OneEach, SessionsBounded
<1> QED
  BY <1>1, RoutingInvariant, PTL

\* A conversation goes back to the account that last answered it unless that account
\* is off, spent, or a standby beside a normal account (affinity.go:route).
THEOREM SessionsReturn == RoutingSpec => SessionReturns
<1> DEFINE Back(r) == attempts[r] = <<>> /\ attempts'[r] # <<>> /\ Returns(r)
                        => attempts'[r][1].acc = kept[session[r]]
<1>1. ASSUME RoutingInv, [RoutingNext]_routingVars, NEW r \in Requests,
             attempts[r] = <<>>, attempts'[r] # <<>>, Returns(r)
      PROVE  attempts'[r][1].acc = kept[session[r]]
  <2>1. RoutingTypeOK /\ TableOK /\ RequestOK(r)
    BY <1>1 DEF RoutingInv
  <2>2. attempts \in [Requests -> Seq(Attempt)] /\ session[r] \in Sessions
    BY <1>1, <2>1 DEF RoutingTypeOK, Returns
  <2>3. PlanAttempts(r)
    <3>1. ASSUME UNCHANGED attempts PROVE FALSE
      BY <1>1, <3>1
    <3>2. ASSUME NEW q \in Requests, Close(q) PROVE FALSE
      BY <1>1, <2>2, <3>2 DEF Close
    <3>3. ASSUME NEW q \in Requests, PlanAttempts(q) PROVE PlanAttempts(r)
      <4>1. PICK s : attempts' = [attempts EXCEPT ![q] = s]
        BY <3>3 DEF PlanAttempts
      <4>2. q = r
        BY <1>1, <2>2, <4>1
      <4> QED
        BY <3>3, <4>2
    <3>4. ASSUME NEW q \in Requests, NEW s \in Sessions \cup {NoSession}, Resolve(q, s) PROVE FALSE
      BY <3>1, <3>4 DEF Resolve
    <3>5. ASSUME NEW q \in Requests, Reject(q) \/ MoveOn(q) PROVE FALSE
      BY <3>1, <3>5 DEF Reject, MoveOn
    <3>6. ASSUME NEW q \in Requests, EndWithError(q) PROVE FALSE
      BY <3>2, <3>6 DEF EndWithError
    <3>7. ASSUME NEW q \in Requests, NEW s \in Answers, Relay(q, s) PROVE FALSE
      BY <3>2, <3>7 DEF Relay
    <3>8. ASSUME Environment PROVE FALSE
      BY <3>1, <3>8 DEF Environment, Forget, SwitchOff, SwitchOn, Mark, SpendOrReset, Switch, requestVars
    <3>9. ASSUME UNCHANGED routingVars PROVE FALSE
      BY <3>1, <3>9 DEF routingVars, requestVars
    <3> QED
      BY <1>1, <3>3, <3>4, <3>5, <3>6, <3>7, <3>8, <3>9 DEF RoutingNext
  <2>4. PICK t \in ToSet(targets[r]) :
            /\ t.acc = kept[session[r]] /\ <<t.acc, FALSE>> \notin spent
            /\ t.standby => \A u \in ToSet(targets[r]) : u.standby
    BY <1>1 DEF Returns
  <2>5. HomeFor(r) = t.acc
    <3>1. HomeOf(session[r]) = kept[session[r]]
      BY <2>1, <2>2, HomeIsKept DEF TableOK
    <3>2. session[r] # NoSession
      BY <2>2, RoutingAssumption
    <3> QED
      BY <2>4, <3>1, <3>2 DEF HomeFor
  <2>6. PICK o \in Orderings(targets[r], t.acc), picked \in BOOLEAN :
            attempts' = [attempts EXCEPT ![r] = SkipSpent(AttemptsFor(o, picked))]
    BY <2>3, <2>5 DEF PlanAttempts
  <2>7. SkipSpent(AttemptsFor(o, picked))[1] = t
    BY <2>1, <2>4, HomeIsFirst DEF RequestOK
  <2>8. attempts'[r] = SkipSpent(AttemptsFor(o, picked))
    BY <2>2, <2>6
  <2> QED
    BY <2>4, <2>7, <2>8
<1>2. ASSUME RoutingInv, [RoutingNext]_routingVars PROVE [\A r \in Requests : Back(r)]_routingVars
  BY <1>1, <1>2
<1> QED
  BY <1>2, RoutingInvariant, PTL DEF RoutingSpec, SessionReturns

\* When a request ends without an answer of its own, every account that served its
\* model and had quota was tried (v1.go:733).
THEOREM NobodyIsPassedOver == RoutingSpec => NobodyPassedOver
<1> DEFINE Seen(r, t) == \/ <<t.acc, FALSE>> \in left_out[r]
                         \/ \E n \in DOMAIN attempts[r] :
                                n <= Place(r) /\ attempts[r][n].acc = t.acc
           Ends(r) == answer[r] = Waiting /\ answer'[r] \in {Failed} \cup Elsewhere
                        => \A t \in ToSet(targets[r]) : Seen(r, t)
<1>1. Waiting \notin {Failed} \cup Elsewhere /\ Refused \notin {Failed} \cup Elsewhere
  BY RoutingAssumption DEF Waiting, Failed, Refused
<1>2. ASSUME RoutingInv, NEW r \in Requests, Planned(r), answer[r] = Waiting, left[r] \in {0, 1},
             NEW t \in ToSet(targets[r])
      PROVE  Seen(r, t)
  <2>1. /\ attempts[r] \in Seq(Attempt) /\ left[r] \in 0..Len(attempts[r])
        /\ TriesOK(targets[r], attempts[r], left_out[r])
    BY <1>2 DEF RoutingInv, RoutingTypeOK, RequestOK
  <2>2. \A n \in DOMAIN attempts[r] : n <= Place(r)
    BY <1>2, <2>1 DEF Place
  <2>3. <<t.acc, FALSE>> \in left_out[r] \/ t \in ToSet(attempts[r])
    BY <1>2, <2>1 DEF TriesOK
  <2> QED
    BY <2>2, <2>3 DEF ToSet
<1>3. ASSUME RoutingInv, [RoutingNext]_routingVars, NEW r \in Requests,
             answer[r] = Waiting, answer'[r] \in {Failed} \cup Elsewhere
      PROVE  Planned(r) /\ left[r] \in {0, 1}
  <2>1. answer \in [Requests -> Answers \cup {Waiting, Failed, Refused}]
    BY <1>3 DEF RoutingInv, RoutingTypeOK
  <2>2. ASSUME UNCHANGED answer PROVE FALSE
    BY <1>1, <1>3, <2>2
  <2>3. ASSUME NEW q \in Requests, Refuse(q) PROVE FALSE
    BY <1>1, <1>3, <2>1, <2>3 DEF Refuse
  <2>4. ASSUME NEW q \in Requests, EndWithError(q) PROVE Planned(r) /\ left[r] \in {0, 1}
    <3>1. left[q] = 0 /\ Fail(q) /\ Planned(q)
      BY <2>3, <2>4 DEF EndWithError
    <3>2. q = r
      BY <1>1, <1>3, <2>1, <3>1 DEF Fail
    <3> QED
      BY <3>1, <3>2
  <2>5. ASSUME NEW q \in Requests, NEW s \in Answers, Relay(q, s) PROVE Planned(r) /\ left[r] \in {0, 1}
    <3>1. Planned(q) /\ (s \in Elsewhere => left[q] = 1) /\ answer' = [answer EXCEPT ![q] = s]
      BY <2>5 DEF Relay, Deliver
    <3>2. q = r
      BY <1>1, <1>3, <2>1, <3>1
    <3>3. s \in Elsewhere
      BY <1>3, <2>1, <3>1, <3>2, RoutingAssumption
    <3> QED
      BY <3>1, <3>2, <3>3
  <2>6. ASSUME NEW q \in Requests, NEW s \in Sessions \cup {NoSession}, Resolve(q, s) PROVE FALSE
    BY <2>2, <2>6 DEF Resolve, deliveryVars
  <2>7. ASSUME NEW q \in Requests, Reject(q) PROVE FALSE
    BY <2>3, <2>7 DEF Reject
  <2>8. ASSUME NEW q \in Requests, PlanAttempts(q) \/ MoveOn(q) PROVE FALSE
    BY <2>2, <2>8 DEF PlanAttempts, Plan, MoveOn, GiveUp
  <2>9. ASSUME Environment PROVE FALSE
    BY <2>2, <2>9 DEF Environment, Forget, SwitchOff, SwitchOn, Mark, SpendOrReset, Switch, requestVars,
                      deliveryVars
  <2>10. ASSUME UNCHANGED routingVars PROVE FALSE
    BY <2>2, <2>10 DEF routingVars, requestVars, deliveryVars
  <2> QED
    BY <1>3, <2>4, <2>5, <2>6, <2>7, <2>8, <2>9, <2>10 DEF RoutingNext
<1>4. ASSUME RoutingInv, [RoutingNext]_routingVars PROVE [\A r \in Requests : Ends(r)]_routingVars
  <2> HIDE DEF Seen
  <2> QED
    BY <1>2, <1>3, <1>4
<1> QED
  BY <1>4, RoutingInvariant, PTL DEF RoutingSpec, NobodyPassedOver

\* The routing is a delivery: it plans, gives up, relays and ends as the abstract
\* specification allows, and nothing it does beside them shows there.  (That every
\* request ends is left to the run of the failover.)
THEOREM RoutingIsDelivery == RoutingSpec => DeliveryInit /\ [][DeliveryNext]_deliveryVars
<1>1. ASSUME RoutingInv, [RoutingNext]_routingVars PROVE [DeliveryNext]_deliveryVars
  <2>1. left \in [Requests -> Nat \cup {Unplanned}]
    BY <1>1 DEF RoutingInv, RoutingTypeOK
  <2>2. ASSUME NEW r \in Requests, NEW s \in Sessions \cup {NoSession}, Resolve(r, s)
        PROVE  UNCHANGED deliveryVars
    BY <2>2 DEF Resolve
  <2>3. ASSUME NEW r \in Requests, Reject(r) PROVE DeliveryNext
    BY <2>3 DEF Reject, DeliveryNext
  <2>4. ASSUME NEW r \in Requests, PlanAttempts(r) PROVE DeliveryNext
    <3>1. PICK n : Plan(r, n)
      BY <2>4 DEF PlanAttempts
    <3>2. left'[r] = n
      BY <2>1, <3>1 DEF Plan
    <3> QED
      BY <3>1, <3>2 DEF DeliveryNext
  <2>5. ASSUME NEW r \in Requests, MoveOn(r) PROVE DeliveryNext
    BY <2>5 DEF MoveOn, DeliveryNext
  <2>6. ASSUME NEW r \in Requests, EndWithError(r) PROVE DeliveryNext
    BY <2>6 DEF EndWithError, DeliveryNext
  <2>7. ASSUME NEW r \in Requests, NEW s \in Answers, Relay(r, s) PROVE DeliveryNext
    BY <2>7 DEF Relay, DeliveryNext
  <2>8. ASSUME Environment PROVE UNCHANGED deliveryVars
    BY <2>8 DEF Environment, Forget, SwitchOff, SwitchOn, Mark, SpendOrReset, Switch, requestVars
  <2>9. ASSUME UNCHANGED routingVars PROVE UNCHANGED deliveryVars
    BY <2>9 DEF routingVars, requestVars
  <2> QED
    BY <1>1, <2>2, <2>3, <2>4, <2>5, <2>6, <2>7, <2>8, <2>9 DEF RoutingNext
<1>2. RoutingInit => DeliveryInit
  BY DEF RoutingInit
<1> QED
  BY <1>1, <1>2, RoutingInvariant, PTL DEF RoutingSpec

=============================================================================
