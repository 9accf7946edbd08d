----------------------------- MODULE IntentLemmas -----------------------------
(***************************************************************************)
(* Lemmas about AnalysisIntent, and about the lists its fields are.        *)
(***************************************************************************)
EXTENDS AnalysisIntent, ListLemmas

-----------------------------------------------------------------------------
(* Sequences *)

LEMMA ListOfItsElements ==
  ASSUME NEW s, NEW n \in Nat, s = [k \in 1..n |-> s[k]]
  PROVE  s \in Seq(Range(s)) /\ Len(s) = n
  <1>1. \A k \in 1..n : s[k] \in Range(s)
    BY DEF Range
  <1>2. s \in [1..n -> Range(s)]
    BY <1>1
  <1>3. QED
    BY <1>2

LEMMA ListIsFunction ==
  ASSUME NEW S, NEW s \in Seq(S)
  PROVE  DOMAIN s = 1..Len(s) /\ Len(s) \in Nat /\ s = [k \in 1..Len(s) |-> s[k]]
  OBVIOUS

LEMMA OneMore ==
  ASSUME NEW s, s \in Seq(Range(s)), NEW e, NEW t, t = Append(s, e)
  PROVE  /\ t \in Seq(Range(t))
         /\ Len(t) = Len(s) + 1
         /\ t[Len(s) + 1] = e
         /\ \A k \in 1..Len(s) : t[k] = s[k]
         /\ e \in Range(t) /\ Range(s) \subseteq Range(t)
  <1>1. DOMAIN s = 1..Len(s) /\ Len(s) \in Nat
    OBVIOUS
  <1>2. /\ t \in Seq(Range(s) \cup {e})
        /\ Len(t) = Len(s) + 1 /\ t[Len(s) + 1] = e
        /\ \A k \in 1..Len(s) : t[k] = s[k]
    <2> DEFINE T == Range(s) \cup {e}
    <2>1. \A k \in 1..Len(s) : s[k] \in T
      BY <1>1 DEF Range
    <2>2. s \in Seq(T) /\ e \in T
      BY <1>1, <2>1
    <2>3. QED
      BY <2>2, AppendProperties
  <1>3. DOMAIN t = 1..Len(s)+1 /\ t = [k \in 1..Len(s)+1 |-> t[k]]
    <2>1. DOMAIN t = 1..Len(t) /\ t = [k \in 1..Len(t) |-> t[k]]
      BY <1>2, ListIsFunction, Zenon
    <2>2. QED
      BY <1>2, <2>1, Zenon
  <1>4. t \in Seq(Range(t))
    <2>1. Len(s) + 1 \in Nat
      BY <1>1
    <2>2. QED
      BY <1>3, <2>1, ListOfItsElements
  <1>5. \A k \in 1..Len(s)+1 : t[k] \in Range(t)
    BY <1>3 DEF Range
  <1>6. e \in Range(t) /\ Range(s) \subseteq Range(t)
    <2>1. Len(s) + 1 \in 1..Len(s)+1 /\ 1..Len(s) \subseteq 1..Len(s)+1
      BY <1>1
    <2>2. e \in Range(t)
      BY <1>2, <1>5, <2>1
    <2>3. ASSUME NEW x \in Range(s)
          PROVE  x \in Range(t)
      <3>1. PICK k \in 1..Len(s) : x = s[k]
        BY <1>1 DEF Range
      <3>2. QED
        BY <1>2, <1>5, <2>1, <3>1
    <2>4. QED
      BY <2>2, <2>3
  <1>7. QED
    BY <1>2, <1>4, <1>6

LEMMA ListWithElements ==
  ASSUME NEW S, NEW s \in Seq(S), Len(s) # 0
  PROVE  s # <<>>
  OBVIOUS

LEMMA LengthOfTwo ==
  ASSUME NEW S, NEW T, NEW s \in Seq(S), NEW t \in Seq(T)
  PROVE  Len(s \o t) = Len(s) + Len(t)
  OBVIOUS

CountBefore(places, i) == Cardinality({j \in places : j < i})

\* In a list of numbers by size, the k-th has k - 1 before it.
LEMMA PlaceInOrder ==
  ASSUME NEW places, NEW N \in Nat, NEW q \in [1..N -> places],
         \A i \in places : i \in Nat, \A i \in places : \E k \in 1..N : q[k] = i,
         \A i, j \in 1..N : i < j => q[i] < q[j]
  PROVE  \A k \in 1..N : CountBefore(places, q[k]) = k - 1
  <1> SUFFICES ASSUME NEW k \in 1..N
               PROVE  Cardinality({j \in places : j < q[k]}) = k - 1
    BY DEF CountBefore
  <1> DEFINE S == {j \in places : j < q[k]}
             n == k - 1
             f == [m \in 1..n |-> q[m]]
  <1>1. n \in Nat /\ k \in Nat /\ \A m \in 1..n : m \in 1..N /\ m < k
    OBVIOUS
  <1>2. f \in [1..n -> S]
    BY <1>1
  <1>3. \A i, j \in 1..n : f[i] = f[j] => i = j
    <2> SUFFICES ASSUME NEW i \in 1..n, NEW j \in 1..n, i < j
                 PROVE  f[i] # f[j]
      BY <1>1
    <2>1. q[i] < q[j] /\ q[i] \in Nat /\ q[j] \in Nat
      BY <1>1
    <2>2. QED
      BY <2>1
  <1>4. \A s \in S : \E m \in 1..n : f[m] = s
    <2> SUFFICES ASSUME NEW s \in S
                 PROVE  \E m \in 1..n : f[m] = s
      OBVIOUS
    <2>1. PICK m \in 1..N : q[m] = s
      OBVIOUS
    <2>2. m < k
      <3>1. q[k] \in Nat /\ s \in Nat /\ s < q[k]
        OBVIOUS
      <3>2. k < m => q[k] < q[m]
        OBVIOUS
      <3>3. m \in Nat /\ k \in Nat
        OBVIOUS
      <3>4. QED
        BY <2>1, <3>1, <3>2, <3>3
    <2>3. m \in 1..n
      BY <1>1, <2>2
    <2>4. QED
      BY <2>1, <2>3
  <1> HIDE DEF f, S, n
  <1>5. ExistsBijection(1..n, S)
    <2>1. f \in Injection(1..n, S)
      BY <1>2, <1>3 DEF Injection, IsInjective
    <2>2. f \in Surjection(1..n, S)
      BY <1>2, <1>4 DEF Surjection
    <2>3. QED
      BY <2>1, <2>2 DEF ExistsBijection, Bijection
  <1>6. Cardinality(S) = n
    BY <1>1, <1>5, FS_CountingElements
  <1>7. QED
    BY <1>6 DEF S, n

\* The elements of a list at some of its places, in its order.
LEMMA PickedShape ==
  ASSUME NEW s, NEW n \in Nat, NEW places \in SUBSET (1..n)
  PROVE  /\ Cardinality(places) \in Nat
         /\ Len(Picked(s, places)) = Cardinality(places)
         /\ \E p \in SetToSeqs(places) :
              Picked(s, places) = [k \in 1..Cardinality(places) |-> s[p[k]]]
         /\ \A k \in 1..Cardinality(places) : \E j \in places : Picked(s, places)[k] = s[j]
  <1> DEFINE R == {x \in places \X places : x[1] < x[2]}
             N == Cardinality(places)
             At(k) == CHOOSE i \in places : CountBefore(places, i) = k - 1
  <1>1. IsFiniteSet(places) /\ N \in Nat
    <2>1. IsFiniteSet(1..n)
      BY FS_Interval
    <2>2. IsFiniteSet(places)
      BY <2>1, FS_Subset
    <2>3. QED
      BY <2>2, FS_CardinalityType
  <1>2. \A i, j \in places : <<i, j>> \in R <=> i < j
    OBVIOUS
  <1>3. IsOrder(R, places)
    BY <1>2 DEF IsOrder
  <1> HIDE DEF R, N
  <1>4. PICK p \in SetToSeqs(places) : \A i, j \in 1..N : i < j => p[i] < p[j]
    <2>1. PICK p \in SetToSeqs(places) : \A i, j \in 1..N : i < j => <<p[i], p[j]>> \in R
      BY <1>1, <1>3, OrderExists DEF N
    <2>2. \A i \in 1..N : p[i] \in places
      BY <1>1, Permutation DEF N
    <2>3. QED
      BY <1>2, <2>1, <2>2
  <1>5. /\ p \in [1..N -> places]
        /\ \A i \in places : \E k \in 1..N : p[k] = i
    BY <1>1, Permutation DEF N
  <1>6. \A k \in 1..N : CountBefore(places, p[k]) = k - 1
    <2>1. \A i \in places : i \in Nat
      OBVIOUS
    <2>2. QED
      BY <1>1, <1>4, <1>5, <2>1, PlaceInOrder
  <1>7. ASSUME NEW k \in 1..N
        PROVE  At(k) = p[k]
    <2>1. p[k] \in places /\ CountBefore(places, p[k]) = k - 1
      BY <1>5, <1>6
    <2>2. At(k) \in places /\ CountBefore(places, At(k)) = k - 1
      BY <2>1
    <2>3. PICK m \in 1..N : p[m] = At(k)
      BY <1>5, <2>2
    <2>4. m - 1 = k - 1
      BY <1>6, <2>2, <2>3
    <2>5. m = k
      BY <2>4
    <2>6. QED
      BY <2>3, <2>5
  <1>8. Picked(s, places) = [k \in 1..N |-> s[At(k)]]
    BY Zenon DEF Picked, N, CountBefore
  <1> HIDE DEF At
  <1>9. Picked(s, places) = [k \in 1..N |-> s[p[k]]]
    BY <1>7, <1>8
  <1>10. \A k \in 1..N : Picked(s, places)[k] = s[p[k]] /\ p[k] \in places
    BY <1>5, <1>9
  <1>11. Len(Picked(s, places)) = N
    BY <1>1, <1>9
  <1>12. QED
    BY <1>1, <1>9, <1>10, <1>11 DEF N

\* Each element of t is that of s at one of the places, and each place is met once.
IsPickedAt(t, s, places) ==
  \E p \in [1..Len(t) -> places] :
     /\ \A k \in 1..Len(t) : t[k] = s[p[k]]
     /\ \A j, k \in 1..Len(t) : p[j] = p[k] => j = k
     /\ \A i \in places : \E k \in 1..Len(t) : p[k] = i

\* What is picked from a list is a list of the elements at those places.
LEMMA PickedElements ==
  ASSUME NEW S, NEW s \in Seq(S), NEW places \in SUBSET (1..Len(s)),
         NEW t, t = Picked(s, places)
  PROVE  t \in Seq(S) /\ Len(t) = Cardinality(places) /\ IsPickedAt(t, s, places)
  <1> DEFINE n == Cardinality(places)
  <1>0. \A i \in 1..Len(s) : s[i] \in S
    OBVIOUS
  <1>1. Len(s) \in Nat
    OBVIOUS
  <1>2. n \in Nat /\ Len(t) = n
    BY <1>1, PickedShape
  <1>3. PICK p \in SetToSeqs(places) : Picked(s, places) = [k \in 1..n |-> s[p[k]]]
    BY <1>1, PickedShape
  <1>4. IsFiniteSet(places)
    <2>1. IsFiniteSet(1..Len(s))
      BY <1>1, FS_Interval
    <2>2. QED
      BY <2>1, FS_Subset
  <1>5. /\ p \in [1..n -> places]
        /\ \A j, k \in 1..n : p[j] = p[k] => j = k
        /\ \A i \in places : \E k \in 1..n : p[k] = i
    BY <1>4, Permutation
  <1> HIDE DEF n
  <1>6. \A k \in 1..n : p[k] \in 1..Len(s)
    BY <1>5
  <1>7. \A k \in 1..n : t[k] = s[p[k]] /\ s[p[k]] \in S
    BY <1>0, <1>3, <1>6
  <1>8. t \in Seq(S)
    <2>1. t \in [1..n -> S]
      BY <1>3, <1>7
    <2>2. QED
      BY <1>2, <2>1
  <1>9. /\ p \in [1..Len(t) -> places]
        /\ \A k \in 1..Len(t) : t[k] = s[p[k]]
        /\ \A j, k \in 1..Len(t) : p[j] = p[k] => j = k
        /\ \A i \in places : \E k \in 1..Len(t) : p[k] = i
    BY <1>2, <1>5, <1>7
  <1>10. Len(t) = Cardinality(places)
    BY <1>2 DEF n
  <1>11. QED
    BY <1>8, <1>9, <1>10, Zenon DEF IsPickedAt

LEMMA ElementsOfList ==
  ASSUME NEW S, NEW s \in Seq(S)
  PROVE  /\ \A k \in 1..Len(s) : s[k] \in Range(s)
         /\ \A x \in Range(s) : x \in S /\ \E k \in 1..Len(s) : s[k] = x
         /\ s = <<>> <=> Len(s) = 0
         /\ s = <<>> <=> Range(s) = {}
  <1>1. DOMAIN s = 1..Len(s) /\ Len(s) \in Nat /\ \A k \in 1..Len(s) : s[k] \in S
    OBVIOUS
  <1>2. \A x \in Range(s) : \E k \in 1..Len(s) : s[k] = x
    BY <1>1 DEF Range
  <1>3. \A k \in 1..Len(s) : s[k] \in Range(s)
    BY <1>1 DEF Range
  <1>4. s = <<>> <=> Len(s) = 0
    OBVIOUS
  <1>5. Len(s) = 0 <=> Range(s) = {}
    <2>1. CASE Len(s) = 0
      BY <1>2, <2>1
    <2>2. CASE Len(s) # 0
      <3>1. 1 \in 1..Len(s)
        BY <1>1, <2>2
      <3>2. QED
        BY <1>3, <2>2, <3>1
    <2>3. QED
      BY <2>1, <2>2
  <1>6. QED
    BY <1>1, <1>2, <1>3, <1>4, <1>5

\* No role is filled twice.
RolesDiffer(s) == \A j, k \in 1..Len(s) : s[j].role = s[k].role => j = k

LEMMA ElementsOfRoles ==
  ASSUME NEW S, NEW s \in Seq(S), NEW roles
  PROVE  LET t == OfRoles(s, roles)
         IN /\ t \in Seq(S)
            /\ Range(t) = {x \in Range(s) : x.role \in roles}
            /\ \A k \in 1..Len(t) : t[k] \in Range(s) /\ t[k].role \in roles
            /\ RolesDiffer(s) => RolesDiffer(t)
  <1> DEFINE places == {i \in 1..Len(s) : s[i].role \in roles}
             t == OfRoles(s, roles)
  <1>1. t = Picked(s, places)
    BY Zenon DEF OfRoles
  <1>2. places \in SUBSET (1..Len(s))
    OBVIOUS
  <1>5. \A i \in places : i \in 1..Len(s) /\ s[i].role \in roles /\ s[i] \in Range(s)
    BY <1>2, ElementsOfList
  <1>6. \A x \in Range(s) : x.role \in roles => \E i \in places : x = s[i]
    BY ElementsOfList
  <1> HIDE DEF places, t
  <1>3. t \in Seq(S)
    BY <1>1, <1>2, PickedElements
  <1>4. PICK p \in [1..Len(t) -> places] :
          /\ \A k \in 1..Len(t) : t[k] = s[p[k]]
          /\ \A j, k \in 1..Len(t) : p[j] = p[k] => j = k
          /\ \A i \in places : \E k \in 1..Len(t) : p[k] = i
    <2>1. IsPickedAt(t, s, places)
      BY <1>1, <1>2, PickedElements
    <2>2. QED
      BY <2>1, Zenon DEF IsPickedAt
  <1>7. \A k \in 1..Len(t) : p[k] \in places
    BY <1>4
  <1>8. \A k \in 1..Len(t) : t[k] \in Range(s) /\ t[k].role \in roles
    BY <1>4, <1>5, <1>7
  <1>9. Range(t) = {x \in Range(s) : x.role \in roles}
    <2>1. \A x \in Range(t) : x \in Range(s) /\ x.role \in roles
      BY <1>3, <1>8, ElementsOfList
    <2>2. ASSUME NEW x \in Range(s), x.role \in roles
          PROVE  x \in Range(t)
      <3>1. PICK i \in places : x = s[i]
        BY <1>6, <2>2
      <3>2. PICK k \in 1..Len(t) : p[k] = i
        BY <1>4
      <3>3. t[k] = x /\ t[k] \in Range(t)
        BY <1>3, <1>4, <3>1, <3>2, ElementsOfList
      <3>4. QED
        BY <3>3
    <2>3. QED
      BY <2>1, <2>2
  <1>10. RolesDiffer(s) => RolesDiffer(t)
    <2> SUFFICES ASSUME RolesDiffer(s), NEW j \in 1..Len(t), NEW k \in 1..Len(t),
                        t[j].role = t[k].role
                 PROVE  j = k
      BY DEF RolesDiffer
    <2>1. p[j] \in 1..Len(s) /\ p[k] \in 1..Len(s) /\ s[p[j]].role = s[p[k]].role
      BY <1>4, <1>5, <1>7
    <2>2. p[j] = p[k]
      BY <2>1 DEF RolesDiffer
    <2>3. QED
      BY <1>4, <2>2
  <1>11. QED
    BY <1>3, <1>8, <1>9, <1>10 DEF t

LEMMA ElementsWithout ==
  ASSUME NEW S, NEW s \in Seq(S), NEW T
  PROVE  Without(s, T) \in Seq(S) /\ Range(Without(s, T)) = Range(s) \ T
  <1> DEFINE places == {i \in 1..Len(s) : s[i] \notin T}
             t == Without(s, T)
  <1>1. t = Picked(s, places) /\ places \in SUBSET (1..Len(s))
    BY Zenon DEF Without
  <1>4. \A i \in places : s[i] \notin T /\ s[i] \in Range(s)
    BY <1>1, ElementsOfList
  <1>5. \A x \in Range(s) : x \notin T => \E i \in places : x = s[i]
    BY ElementsOfList
  <1> HIDE DEF places, t
  <1>2. t \in Seq(S)
    BY <1>1, PickedElements
  <1>3. PICK p \in [1..Len(t) -> places] :
          /\ \A k \in 1..Len(t) : t[k] = s[p[k]]
          /\ \A i \in places : \E k \in 1..Len(t) : p[k] = i
    <2>1. IsPickedAt(t, s, places)
      BY <1>1, PickedElements
    <2>2. QED
      BY <2>1, Zenon DEF IsPickedAt
  <1>6. \A x \in Range(t) : x \in Range(s) \ T
    <2> SUFFICES ASSUME NEW k \in 1..Len(t)
                 PROVE  t[k] \in Range(s) \ T
      BY <1>2, ElementsOfList
    <2>1. p[k] \in places /\ t[k] = s[p[k]]
      BY <1>3
    <2>2. QED
      BY <1>4, <2>1
  <1>7. ASSUME NEW x \in Range(s) \ T
        PROVE  x \in Range(t)
    <2>1. PICK i \in places : x = s[i]
      BY <1>5
    <2>2. PICK k \in 1..Len(t) : p[k] = i
      BY <1>3
    <2>3. t[k] = x /\ t[k] \in Range(t)
      BY <1>2, <1>3, <2>1, <2>2, ElementsOfList
    <2>4. QED
      BY <2>3
  <1>8. QED
    BY <1>2, <1>6, <1>7 DEF t

-----------------------------------------------------------------------------
(* The normalisations leave an intent as valid as they found it, although    *)
(* they copy it without validating it again.                                 *)

LEMMA GroupingKeepsShape ==
  ASSUME NEW i, IsIntent(i), ValidShape(i), NEW words
  PROVE  IsIntent(TemporalGrouping(i, words)) /\ ValidShape(TemporalGrouping(i, words))
  <1>1. CASE ~(i.operation = "group" /\ IsTemporal(i))
    BY <1>1 DEF TemporalGrouping
  <1>2. CASE i.operation = "group" /\ IsTemporal(i)
    <2> DEFINE j == TemporalGrouping(i, words)
    <2>1. i.grouping \in Seq(Range(i.grouping)) /\ Len(i.grouping) = 1
      BY <1>2 DEF IsIntent, IsTemporal
    <2>2. /\ DOMAIN j = DOMAIN i
          /\ j.operation = i.operation /\ j.operands = i.operands /\ j.periods = i.periods
          /\ j.comparison = i.comparison /\ j.formula = i.formula /\ j.ranking = i.ranking
      BY <1>2 DEF TemporalGrouping, IsIntent
    <2>3. \E g : j.grouping = [i.grouping EXCEPT ![1] = g]
      BY <1>2 DEF TemporalGrouping, IsIntent
    <2>4. j.grouping \in Seq(Range(j.grouping)) /\ j.grouping # <<>>
      <3>1. DOMAIN i.grouping = 1..1
        BY <2>1
      <3>2. j.grouping = [k \in 1..1 |-> j.grouping[k]]
        BY <2>3, <3>1
      <3>3. j.grouping \in Seq(Range(j.grouping)) /\ Len(j.grouping) = 1
        BY <3>2, ListOfItsElements
      <3>4. QED
        BY <3>3
    <2>5. i.grouping # <<>>
      <3>1. i.grouping \in Seq(Range(i.grouping))
        BY <2>1
      <3>2. Len(i.grouping) # 0
        BY <2>1
      <3>3. QED
        BY <3>1, <3>2, ListWithElements
    <2> HIDE DEF j
    <2>6. IsIntent(j)
      BY <2>2, <2>4 DEF IsIntent
    <2>7. ValidShape(j)
      BY <1>2, <2>2, <2>4, <2>5 DEF ValidShape, OperandIds
    <2>8. QED
      BY <2>6, <2>7 DEF j
  <1>3. QED
    BY <1>1, <1>2

LEMMA ComparisonKeepsShape ==
  ASSUME NEW i, IsIntent(i), ValidShape(i)
  PROVE  IsIntent(PeriodComparison(i)) /\ ValidShape(PeriodComparison(i))
  <1>1. CASE ~IsPeriodComparison(i)
    BY <1>1 DEF PeriodComparison
  <1>2. CASE IsPeriodComparison(i)
    <2> DEFINE j == PeriodComparison(i)
               a == i.operands[1]
               b == i.operands[2]
               o == [a EXCEPT !.periods = <<>>]
    <2>1. i.operation = "compare" /\ Len(i.operands) = 2
          /\ Len(a.periods) = 1 /\ Len(b.periods) = 1
      BY <1>2 DEF IsPeriodComparison
    <2>2. IsOperand(a) /\ IsOperand(b)
      BY <2>1 DEF IsIntent
    <2>3. IsOperand(o) /\ o.entities = a.entities
      BY <2>2 DEF IsOperand, Range
    <2>4. /\ DOMAIN j = DOMAIN i
          /\ j.operation = "compare_periods" /\ j.operands = <<o>>
          /\ j.periods = a.periods \o b.periods /\ j.comparison = <<>>
          /\ j.grouping = i.grouping /\ j.formula = i.formula /\ j.ranking = i.ranking
      BY <1>2 DEF PeriodComparison, IsIntent
    <2>5. Len(j.periods) = 2
      <3>1. a.periods \in Seq(Range(a.periods)) /\ b.periods \in Seq(Range(b.periods))
        BY <2>2 DEF IsOperand
      <3>2. Len(a.periods \o b.periods) = Len(a.periods) + Len(b.periods)
        BY <3>1, LengthOfTwo
      <3>3. QED
        BY <2>1, <2>4, <3>2
    <2>6. j.operands \in Seq(Range(j.operands)) /\ Len(j.operands) = 1 /\ j.operands[1] = o
      <3>1. <<o>> = [k \in 1..1 |-> <<o>>[k]]
        OBVIOUS
      <3>2. QED
        BY <2>4, <3>1, ListOfItsElements
    <2>7. i.grouping = <<>> /\ i.formula = <<>> /\ i.ranking = <<>>
      BY <2>1 DEF ValidShape
    <2> HIDE DEF j, o
    <2>8. IsIntent(j)
      BY <2>3, <2>4, <2>6 DEF IsIntent
    <2>9. \A k, l \in 1..Len(a.entities) : a.entities[k].role = a.entities[l].role => k = l
      BY <2>1 DEF ValidShape
    <2>10. ValidShape(j)
      BY <2>3, <2>4, <2>5, <2>6, <2>7, <2>9 DEF ValidShape
    <2>11. QED
      BY <2>8, <2>10 DEF j
  <1>3. QED
    BY <1>1, <1>2

LEMMA ReductionKeepsShape ==
  ASSUME NEW i, IsIntent(i), ValidShape(i), NEW words, NEW active
  PROVE  IsIntent(SeriesReduction(i, words, active))
         /\ ValidShape(SeriesReduction(i, words, active))
  <1> DEFINE j == SeriesReduction(i, words, active)
  <1>1. /\ DOMAIN j = DOMAIN i
        /\ j.operation = i.operation /\ j.operands = i.operands /\ j.periods = i.periods
        /\ j.comparison = i.comparison /\ j.grouping = i.grouping
        /\ j.formula = i.formula /\ j.ranking = i.ranking
    BY DEF SeriesReduction, IsIntent
  <1> HIDE DEF j
  <1>2. IsIntent(j) /\ ValidShape(j)
    BY <1>1 DEF IsIntent, ValidShape, OperandIds
  <1>3. QED
    BY <1>2 DEF j
=============================================================================
