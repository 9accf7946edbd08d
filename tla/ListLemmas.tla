------------------------------ MODULE ListLemmas ------------------------------
(***************************************************************************)
(* What the proofs need to know of lists, of their folds and of the first  *)
(* element that passes a test.  Induction is over sets of numbers: every   *)
(* nonempty one has a least element.                                       *)
(***************************************************************************)
EXTENDS Integers, SequencesExt, FiniteSetTheorems, SequenceTheorems,
        WellFoundedInduction, TLAPS

-----------------------------------------------------------------------------
(* Induction *)

LEMMA LeastElement ==
  ASSUME NEW S \in SUBSET Nat, S # {}
  PROVE  \E x \in S : \A y \in S : x <= y
  <1> DEFINE R == {p \in Nat \X Nat : p[1] < p[2]}
  <1>1. IsWellFoundedOn(R, Nat)
    BY NatLessThanWellFounded DEF OpToRel
  <1>2. \A x, y \in Nat : <<y, x>> \in R <=> y < x
    OBVIOUS
  <1> HIDE DEF R
  <1>3. PICK x \in S : \A y \in S : ~(<<y, x>> \in R)
    BY <1>1, WFMin
  <1>4. ASSUME NEW y \in S
        PROVE  x <= y
    <2>1. x \in Nat /\ y \in Nat /\ ~(<<y, x>> \in R)
      BY <1>3
    <2>2. ~(y < x)
      BY <1>2, <2>1
    <2>3. QED
      BY <2>1, <2>2
  <1>5. QED
    BY <1>4

LEMMA Induction ==
  ASSUME NEW S, 0 \in S, \A n \in Nat : n \in S => n + 1 \in S
  PROVE  Nat \subseteq S
  <1> SUFFICES ASSUME Nat \ S # {}
               PROVE  FALSE
    OBVIOUS
  <1>1. PICK x \in Nat \ S : \A y \in Nat \ S : x <= y
    BY LeastElement
  <1>2. x # 0 /\ x - 1 \in Nat /\ x - 1 \in S
    BY <1>1
  <1>3. QED
    BY <1>1, <1>2

LEMMA MinIsLeast ==
  ASSUME NEW S \in SUBSET Nat, S # {}
  PROVE  Min(S) \in S /\ \A y \in S : Min(S) <= y
  <1>1. \E x \in S : \A y \in S : x <= y
    BY LeastElement
  <1>2. QED
    BY <1>1 DEF Min

\* f goes from base, step by step, through the values of T up to n.
Steps(f, n, T, base, step) ==
  /\ f \in [0..n -> T]
  /\ f[0] = base
  /\ \A i \in 1..n : f[i] = step[<<i, f[i-1]>>]

StepsWithin(n, T, step) == \A i \in 1..n, x \in T : step[<<i, x>>] \in T

\* A function defined on 0..n from each value to the next exists.
LEMMA Recursion ==
  ASSUME NEW n \in Nat, NEW T, NEW base \in T, NEW step, StepsWithin(n, T, step)
  PROVE  \E f : Steps(f, n, T, base, step)
  <1> DEFINE Good(k, f) == f[0] = base /\ \A i \in 1..k : f[i] = step[<<i, f[i-1]>>]
             S == {k \in Nat : k <= n => \E f \in [0..k -> T] : Good(k, f)}
  <1>1. 0 \in S
    <2>1. [i \in 0..0 |-> base] \in [0..0 -> T] /\ Good(0, [i \in 0..0 |-> base])
      OBVIOUS
    <2>2. QED
      BY <2>1
  <1>2. ASSUME NEW k \in Nat, k \in S
        PROVE  k + 1 \in S
    <2> SUFFICES ASSUME k + 1 <= n
                 PROVE  \E f \in [0..k+1 -> T] : Good(k + 1, f)
      OBVIOUS
    <2>1. PICK f \in [0..k -> T] : Good(k, f)
      BY <1>2
    <2> DEFINE v == step[<<k + 1, f[k]>>]
               g == [i \in 0..k+1 |-> IF i = k + 1 THEN v ELSE f[i]]
    <2>2. v \in T
      BY <2>1 DEF StepsWithin
    <2>3. /\ g \in [0..k+1 -> T] /\ g[k + 1] = v
          /\ \A i \in 0..k : g[i] = f[i]
      BY <2>2
    <2> HIDE DEF g
    <2>4. Good(k + 1, g)
      BY <2>1, <2>3
    <2>5. QED
      BY <2>3, <2>4
  <1> HIDE DEF S
  <1>3. n \in S
    BY <1>1, <1>2, Induction
  <1>4. QED
    BY <1>3 DEF S, Steps

-----------------------------------------------------------------------------
(* Extremes *)

LEMMA LeastValue ==
  ASSUME NEW n \in Nat, n > 0, NEW v, \A k \in 1..n : v[k] \in Int
  PROVE  \E i \in 1..n : \A j \in 1..n : v[i] <= v[j]
  <1> DEFINE S == {m \in Nat : m \in 1..n => \E i \in 1..m : \A j \in 1..m : v[i] <= v[j]}
  <1>1. 0 \in S
    OBVIOUS
  <1>2. ASSUME NEW m \in Nat, m \in S
        PROVE  m + 1 \in S
    <2> SUFFICES ASSUME m + 1 \in 1..n
                 PROVE  \E i \in 1..m+1 : \A j \in 1..m+1 : v[i] <= v[j]
      OBVIOUS
    <2>1. CASE m = 0
      BY <2>1
    <2>2. CASE m # 0
      <3>1. PICK i \in 1..m : \A j \in 1..m : v[i] <= v[j]
        BY <1>2, <2>2
      <3>2. v[i] \in Int /\ v[m + 1] \in Int
        OBVIOUS
      <3>3. CASE v[i] <= v[m + 1]
        BY <3>1, <3>3
      <3>4. CASE v[m + 1] < v[i]
        <4>1. \A j \in 1..m : v[j] \in Int /\ v[m + 1] <= v[j]
          BY <3>1, <3>2, <3>4
        <4>2. QED
          BY <3>2, <4>1
      <3>5. QED
        BY <3>2, <3>3, <3>4
    <2>3. QED
      BY <2>1, <2>2
  <1> HIDE DEF S
  <1>3. n \in S
    BY <1>1, <1>2, Induction
  <1>4. QED
    BY <1>3 DEF S

LEMMA GreatestValue ==
  ASSUME NEW n \in Nat, n > 0, NEW v, \A k \in 1..n : v[k] \in Int
  PROVE  \E i \in 1..n : \A j \in 1..n : v[i] >= v[j]
  <1> DEFINE w == [k \in 1..n |-> -v[k]]
  <1>1. \A k \in 1..n : w[k] \in Int /\ w[k] = -v[k]
    OBVIOUS
  <1> HIDE DEF w
  <1>2. PICK i \in 1..n : \A j \in 1..n : w[i] <= w[j]
    BY <1>1, LeastValue
  <1>3. QED
    BY <1>1, <1>2

-----------------------------------------------------------------------------
(* Sums.  The fold takes the elements in an order nobody knows; the sum of   *)
(* the first elements, one more at a time, is the same number.               *)

\* p[i] is the sum of the first i numbers of v.
Running(p, v, n) ==
  /\ p \in [0..n -> Int]
  /\ p[0] = 0
  /\ \A i \in 1..n : p[i] = p[i-1] + v[i]

\* f[t] is what a fold makes of the numbers at t.
IsFold(f, v, D) ==
  f = [t \in SUBSET D |-> IF t = {} THEN 0
                          ELSE v[CHOOSE x \in t : TRUE] + f[t \ {CHOOSE x \in t : TRUE}]]

LEMMA RunningExists ==
  ASSUME NEW n \in Nat, NEW v, \A k \in 1..n : v[k] \in Int
  PROVE  \E p : Running(p, v, n)
  <1> DEFINE T == Int
             zero == 0
             step == [x \in (1..n) \X T |-> x[2] + v[x[1]]]
  <1>1. zero \in T /\ StepsWithin(n, T, step)
    BY DEF StepsWithin
  <1>2. \A i \in 1..n, m \in T : step[<<i, m>>] = m + v[i]
    OBVIOUS
  <1> HIDE DEF step, T, zero
  <1>3. PICK p : Steps(p, n, T, zero, step)
    BY <1>1, Recursion
  <1>4. ASSUME NEW i \in 1..n
        PROVE  p[i] = p[i-1] + v[i]
    <2>1. p[i-1] \in T
      BY <1>3 DEF Steps
    <2>2. QED
      BY <1>2, <1>3, <2>1 DEF Steps
  <1>5. QED
    BY <1>3, <1>4 DEF Running, Steps, T, zero

LEMMA RunningIsUnique ==
  ASSUME NEW n \in Nat, NEW v, NEW w, \A k \in 1..n : v[k] = w[k],
         NEW p, Running(p, v, n), NEW q, Running(q, w, n)
  PROVE  p[n] = q[n]
  <1> DEFINE S == {k \in Nat : k \in 0..n => p[k] = q[k]}
  <1>1. 0 \in S
    BY DEF Running
  <1>2. ASSUME NEW k \in Nat, k \in S
        PROVE  k + 1 \in S
    <2> SUFFICES ASSUME k + 1 \in 0..n
                 PROVE  p[k+1] = q[k+1]
      OBVIOUS
    <2>1. k + 1 \in 1..n /\ (k + 1) - 1 = k /\ k \in 0..n
      OBVIOUS
    <2>2. p[k+1] = p[k] + v[k+1] /\ q[k+1] = q[k] + w[k+1]
      BY <2>1 DEF Running
    <2>3. QED
      BY <1>2, <2>1, <2>2
  <1> HIDE DEF S
  <1>3. n \in S
    BY <1>1, <1>2, Induction
  <1>4. QED
    BY <1>3 DEF S

\* The sum of the first n numbers of v.
SumTo(v, n) == (CHOOSE p : Running(p, v, n))[n]

LEMMA SumIsRunning ==
  ASSUME NEW n \in Nat, NEW v, \A k \in 1..n : v[k] \in Int
  PROVE  \E p : Running(p, v, n) /\ SumTo(v, n) = p[n]
  <1>1. \E p : Running(p, v, n)
    BY RunningExists
  <1>2. Running(CHOOSE p : Running(p, v, n), v, n)
    BY <1>1, Zenon
  <1>3. QED
    BY <1>2, Zenon DEF SumTo

LEMMA SumType ==
  ASSUME NEW n \in Nat, NEW v, \A k \in 1..n : v[k] \in Int
  PROVE  SumTo(v, n) \in Int
  BY SumIsRunning DEF Running

LEMMA SumOfNothing ==
  ASSUME NEW v
  PROVE  SumTo(v, 0) = 0
  <1>1. \A k \in 1..0 : v[k] \in Int
    OBVIOUS
  <1>2. QED
    BY <1>1, SumIsRunning DEF Running

LEMMA SumOfTheSame ==
  ASSUME NEW n \in Nat, NEW v, NEW w, \A k \in 1..n : v[k] \in Int /\ v[k] = w[k]
  PROVE  SumTo(v, n) = SumTo(w, n)
  <1>1. PICK p : Running(p, v, n) /\ SumTo(v, n) = p[n]
    BY SumIsRunning
  <1>2. PICK q : Running(q, w, n) /\ SumTo(w, n) = q[n]
    BY SumIsRunning
  <1>3. p[n] = q[n]
    BY <1>1, <1>2, RunningIsUnique
  <1>4. QED
    BY <1>1, <1>2, <1>3

LEMMA SumOfOneMore ==
  ASSUME NEW n \in Nat, NEW v, \A k \in 1..n+1 : v[k] \in Int
  PROVE  SumTo(v, n + 1) = SumTo(v, n) + v[n + 1]
  <1>1. PICK p : Running(p, v, n + 1) /\ SumTo(v, n + 1) = p[n + 1]
    BY SumIsRunning
  <1>2. PICK q : Running(q, v, n) /\ SumTo(v, n) = q[n]
    BY SumIsRunning
  <1> DEFINE r == [i \in 0..n |-> p[i]]
  <1>3. Running(r, v, n)
    <2>1. r \in [0..n -> Int] /\ r[0] = 0
      BY <1>1 DEF Running
    <2>2. \A i \in 1..n : r[i] = r[i-1] + v[i]
      BY <1>1 DEF Running
    <2>3. QED
      BY <2>1, <2>2 DEF Running
  <1>4. r[n] = p[n]
    OBVIOUS
  <1> HIDE DEF r
  <1>5. r[n] = q[n]
    BY <1>2, <1>3, RunningIsUnique
  <1>6. p[n + 1] = p[n] + v[n + 1]
    <2>1. n + 1 \in 1..n+1 /\ (n + 1) - 1 = n
      OBVIOUS
    <2>2. QED
      BY <1>1, <2>1 DEF Running
  <1>7. QED
    BY <1>1, <1>2, <1>4, <1>5, <1>6

\* Two lists of numbers that differ by d in one place.
LEMMA SumOfOneDifference ==
  ASSUME NEW n \in Nat, NEW v, NEW w, \A k \in 1..n : v[k] \in Int /\ w[k] \in Int,
         NEW c \in 1..n, NEW d \in Int, v[c] = w[c] + d,
         \A k \in 1..n : k # c => v[k] = w[k]
  PROVE  SumTo(v, n) = SumTo(w, n) + d
  <1>1. PICK p : Running(p, v, n) /\ SumTo(v, n) = p[n]
    BY SumIsRunning
  <1>2. PICK q : Running(q, w, n) /\ SumTo(w, n) = q[n]
    BY SumIsRunning
  <1> DEFINE S == {k \in Nat : k \in 0..n => p[k] = q[k] + (IF k < c THEN 0 ELSE d)}
  <1>3. 0 \in S
    BY <1>1, <1>2 DEF Running
  <1>4. ASSUME NEW k \in Nat, k \in S
        PROVE  k + 1 \in S
    <2> SUFFICES ASSUME k + 1 \in 0..n
                 PROVE  p[k+1] = q[k+1] + (IF k + 1 < c THEN 0 ELSE d)
      OBVIOUS
    <2>1. k + 1 \in 1..n /\ (k + 1) - 1 = k /\ k \in 0..n
      OBVIOUS
    <2>2. p[k+1] = p[k] + v[k+1] /\ q[k+1] = q[k] + w[k+1]
      BY <1>1, <1>2, <2>1 DEF Running
    <2>3. p[k] = q[k] + (IF k < c THEN 0 ELSE d)
      BY <1>4, <2>1
    <2>4. p[k] \in Int /\ q[k] \in Int /\ v[k+1] \in Int /\ w[k+1] \in Int
      BY <1>1, <1>2, <2>1 DEF Running
    <2>5. CASE k + 1 < c
      BY <2>1, <2>2, <2>3, <2>4, <2>5
    <2>6. CASE k + 1 = c
      BY <2>1, <2>2, <2>3, <2>4, <2>6
    <2>7. CASE k + 1 > c
      BY <2>1, <2>2, <2>3, <2>4, <2>7
    <2>8. QED
      BY <2>5, <2>6, <2>7
  <1> HIDE DEF S
  <1>5. n \in S
    BY <1>3, <1>4, Induction
  <1>6. p[n] = q[n] + d
    BY <1>5 DEF S
  <1>7. QED
    BY <1>1, <1>2, <1>6

LEMMA SumOfZeros ==
  ASSUME NEW n \in Nat, NEW v, \A k \in 1..n : v[k] = 0
  PROVE  SumTo(v, n) = 0
  <1>1. PICK p : Running(p, v, n) /\ SumTo(v, n) = p[n]
    BY SumIsRunning
  <1> DEFINE q == [i \in 0..n |-> 0]
  <1>2. Running(q, v, n)
    BY DEF Running
  <1>3. q[n] = 0
    OBVIOUS
  <1> HIDE DEF q
  <1>4. p[n] = q[n]
    BY <1>1, <1>2, RunningIsUnique
  <1>5. QED
    BY <1>1, <1>3, <1>4

-----------------------------------------------------------------------------
(* Folds *)

Masked(v, t, n) == [k \in 1..n |-> IF k \in t THEN v[k] ELSE 0]

LEMMA MaskedSum ==
  ASSUME NEW n \in Nat, NEW v, \A k \in 1..n : v[k] \in Int
  PROVE  /\ SumTo(Masked(v, {}, n), n) = 0
         /\ SumTo(Masked(v, 1..n, n), n) = SumTo(v, n)
         /\ \A t \in SUBSET (1..n) : \A c \in t :
              SumTo(Masked(v, t, n), n) = v[c] + SumTo(Masked(v, t \ {c}, n), n)
  <1>1. \A t : \A k \in 1..n : /\ Masked(v, t, n)[k] \in Int
                               /\ Masked(v, t, n)[k] = IF k \in t THEN v[k] ELSE 0
    BY DEF Masked
  <1>2. SumTo(Masked(v, {}, n), n) = 0
    BY <1>1, SumOfZeros
  <1>3. SumTo(Masked(v, 1..n, n), n) = SumTo(v, n)
    <2> DEFINE w == Masked(v, 1..n, n)
    <2>1. \A k \in 1..n : w[k] \in Int /\ w[k] = v[k]
      BY <1>1
    <2> HIDE DEF w
    <2>2. SumTo(w, n) = SumTo(v, n)
      BY <2>1, SumOfTheSame
    <2>3. QED
      BY <2>2 DEF w
  <1>4. ASSUME NEW t \in SUBSET (1..n), NEW c \in t
        PROVE  SumTo(Masked(v, t, n), n) = v[c] + SumTo(Masked(v, t \ {c}, n), n)
    <2> DEFINE a == Masked(v, t, n)
               b == Masked(v, t \ {c}, n)
    <2>1. c \in 1..n /\ v[c] \in Int
      OBVIOUS
    <2>2. /\ \A k \in 1..n : a[k] \in Int /\ b[k] \in Int
          /\ a[c] = b[c] + v[c]
          /\ \A k \in 1..n : k # c => a[k] = b[k]
      BY <1>1, <2>1
    <2> HIDE DEF a, b
    <2>3. SumTo(a, n) = SumTo(b, n) + v[c]
      BY <2>1, <2>2, SumOfOneDifference
    <2>4. SumTo(b, n) \in Int
      BY <2>2, SumType
    <2>5. QED
      BY <2>1, <2>3, <2>4 DEF a, b
  <1>5. QED
    BY <1>2, <1>3, <1>4

LEMMA FoldExists ==
  ASSUME NEW n \in Nat, NEW v, \A k \in 1..n : v[k] \in Int
  PROVE  \E f : IsFold(f, v, 1..n)
  <1> DEFINE g == [t \in SUBSET (1..n) |-> SumTo(Masked(v, t, n), n)]
             h == [t \in SUBSET (1..n) |->
                     IF t = {} THEN 0
                     ELSE v[CHOOSE x \in t : TRUE] + g[t \ {CHOOSE x \in t : TRUE}]]
  <1>1. /\ \A t \in SUBSET (1..n) : g[t] = SumTo(Masked(v, t, n), n)
        /\ g[{}] = 0
    BY MaskedSum
  <1>2. \A t \in SUBSET (1..n) : \A c \in t : g[t] = v[c] + g[t \ {c}]
    BY <1>1, MaskedSum
  <1>3. \A t : t # {} => (CHOOSE x \in t : TRUE) \in t
    OBVIOUS
  <1>4. DOMAIN g = SUBSET (1..n)
    OBVIOUS
  <1>5. g = [t \in SUBSET (1..n) |-> g[t]]
    OBVIOUS
  <1> HIDE DEF g
  <1>6. ASSUME NEW t \in SUBSET (1..n)
        PROVE  g[t] = IF t = {} THEN 0
                      ELSE v[CHOOSE x \in t : TRUE] + g[t \ {CHOOSE x \in t : TRUE}]
    <2> DEFINE c == CHOOSE x \in t : TRUE
    <2>1. t # {} => c \in t
      BY <1>3
    <2> HIDE DEF c
    <2>2. t # {} => g[t] = v[c] + g[t \ {c}]
      BY <1>2, <2>1
    <2>3. QED
      BY <1>1, <2>2 DEF c
  <1>7. g = h
    BY <1>5, <1>6, Zenon
  <1>8. QED
    BY <1>7, Zenon DEF IsFold

LEMMA FoldIsSum ==
  ASSUME NEW n \in Nat, NEW v, \A k \in 1..n : v[k] \in Int,
         NEW f, IsFold(f, v, 1..n)
  PROVE  f[1..n] = SumTo(v, n)
  <1>1. IsFiniteSet(1..n)
    BY FS_Interval
  <1>2. \A t \in SUBSET (1..n) : IsFiniteSet(t)
    BY <1>1, FS_Subset
  <1>3. \A t \in SUBSET (1..n) : Cardinality(t) \in Nat
    BY <1>2, FS_CardinalityType
  <1> DEFINE g(t) == SumTo(Masked(v, t, n), n)
             S == {k \in Nat : \A t \in SUBSET (1..n) : Cardinality(t) = k => f[t] = g(t)}
  <1>4. ASSUME NEW t \in SUBSET (1..n)
        PROVE  f[t] = IF t = {} THEN 0
                      ELSE v[CHOOSE x \in t : TRUE] + f[t \ {CHOOSE x \in t : TRUE}]
    BY Zenon DEF IsFold
  <1>5. g({}) = 0 /\ g(1..n) = SumTo(v, n)
        /\ \A t \in SUBSET (1..n) : \A c \in t : g(t) = v[c] + g(t \ {c})
    BY MaskedSum, Zenon
  <1> HIDE DEF g
  <1>6. 0 \in S
    <2>1. ASSUME NEW t \in SUBSET (1..n), Cardinality(t) = 0
          PROVE  f[t] = g(t)
      <3>1. t = {}
        BY <1>2, <2>1, FS_EmptySet
      <3>2. QED
        BY <1>5, <1>4, <3>1
    <2>2. QED
      BY <2>1
  <1>7. ASSUME NEW k \in Nat, k \in S
        PROVE  k + 1 \in S
    <2>1. ASSUME NEW t \in SUBSET (1..n), Cardinality(t) = k + 1
          PROVE  f[t] = g(t)
      <3> DEFINE c == CHOOSE x \in t : TRUE
      <3>1. t # {}
        BY <1>2, <2>1, FS_EmptySet
      <3>2. c \in t
        BY <3>1
      <3>3. f[t] = v[c] + f[t \ {c}]
        BY <1>4, <3>1
      <3> HIDE DEF c
      <3>4. t \ {c} \in SUBSET (1..n)
        OBVIOUS
      <3>5. Cardinality(t \ {c}) = k
        <4>1. Cardinality(t \ {c}) = Cardinality(t) - 1
          BY <1>2, <3>2, FS_RemoveElement
        <4>2. QED
          BY <2>1, <4>1
      <3>6. f[t \ {c}] = g(t \ {c})
        BY <1>7, <3>4, <3>5
      <3>7. QED
        BY <1>5, <3>2, <3>3, <3>6
    <2>2. QED
      BY <2>1
  <1> HIDE DEF S
  <1>8. \A k \in Nat : k \in S
    BY <1>6, <1>7, Induction
  <1>9. f[1..n] = g(1..n)
    BY <1>3, <1>8 DEF S
  <1>10. QED
    BY <1>5, <1>9

LEMMA FoldOfNumbers ==
  ASSUME NEW s, DOMAIN s = 1..Len(s), Len(s) \in Nat, \A k \in 1..Len(s) : s[k] \in Int
  PROVE  FoldSeq(LAMBDA v, acc : v + acc, 0, s) = SumTo(s, Len(s))
  <1> DEFINE D == 1..Len(s)
             total == FoldSeq(LAMBDA v, acc : v + acc, 0, s)
             iter[t \in SUBSET (DOMAIN s)] ==
               IF t = {} THEN 0
               ELSE s[CHOOSE x \in t : TRUE] + iter[t \ {CHOOSE x \in t : TRUE}]
  <1>1. total = iter[DOMAIN s]
    BY Zenon DEF FoldSeq, FoldFunction, FoldFunctionOnSet, MapThenFoldSet
  <1>2. \E f : f = [t \in SUBSET (DOMAIN s) |->
                      IF t = {} THEN 0
                      ELSE s[CHOOSE x \in t : TRUE] + f[t \ {CHOOSE x \in t : TRUE}]]
    <2>1. \E f : IsFold(f, s, 1..Len(s))
      BY FoldExists
    <2>2. QED
      BY <2>1, Zenon DEF IsFold
  <1>3. iter = [t \in SUBSET (DOMAIN s) |->
                  IF t = {} THEN 0
                  ELSE s[CHOOSE x \in t : TRUE] + iter[t \ {CHOOSE x \in t : TRUE}]]
    BY <1>2, Zenon
  <1> HIDE DEF iter, total
  <1>4. IsFold(iter, s, 1..Len(s))
    BY <1>3, Zenon DEF IsFold
  <1>5. iter[1..Len(s)] = SumTo(s, Len(s))
    BY <1>4, FoldIsSum
  <1>6. QED
    BY <1>1, <1>5 DEF total

\* The same of the value of each element, and of its count.
LEMMA FoldOfValues ==
  ASSUME NEW s, DOMAIN s = 1..Len(s), Len(s) \in Nat,
         NEW v, \A k \in 1..Len(s) : v[k] \in Int /\ v[k] = s[k].value
  PROVE  FoldSeq(LAMBDA r, acc : r.value + acc, 0, s) = SumTo(v, Len(s))
  <1> DEFINE total == FoldSeq(LAMBDA r, acc : r.value + acc, 0, s)
             iter[t \in SUBSET (DOMAIN s)] ==
               IF t = {} THEN 0
               ELSE s[CHOOSE x \in t : TRUE].value + iter[t \ {CHOOSE x \in t : TRUE}]
  <1>1. total = iter[DOMAIN s]
    BY Zenon DEF FoldSeq, FoldFunction, FoldFunctionOnSet, MapThenFoldSet
  <1>2. \A f, t : t \in SUBSET (DOMAIN s) =>
          (IF t = {} THEN 0 ELSE s[CHOOSE x \in t : TRUE].value + f[t \ {CHOOSE x \in t : TRUE}])
            = (IF t = {} THEN 0 ELSE v[CHOOSE x \in t : TRUE] + f[t \ {CHOOSE x \in t : TRUE}])
    <2> SUFFICES ASSUME NEW f, NEW t, t \in SUBSET (DOMAIN s)
                 PROVE  (IF t = {} THEN 0
                         ELSE s[CHOOSE x \in t : TRUE].value + f[t \ {CHOOSE x \in t : TRUE}])
                          = (IF t = {} THEN 0
                             ELSE v[CHOOSE x \in t : TRUE] + f[t \ {CHOOSE x \in t : TRUE}])
      BY Zenon
    <2>1. CASE t = {}
      BY <2>1, Zenon
    <2>2. CASE t # {}
      <3> DEFINE c == CHOOSE x \in t : TRUE
      <3>1. c \in t
        BY <2>2
      <3> HIDE DEF c
      <3>2. s[c].value = v[c]
        BY <3>1
      <3>3. QED
        BY <2>2, <3>2, Zenon DEF c
    <2>3. QED
      BY <2>1, <2>2, Zenon
  <1>3. \A f : IsFold(f, v, 1..Len(s)) <=>
          f = [t \in SUBSET (DOMAIN s) |->
                 IF t = {} THEN 0
                 ELSE s[CHOOSE x \in t : TRUE].value + f[t \ {CHOOSE x \in t : TRUE}]]
    BY <1>2, Zenon DEF IsFold
  <1>4. \E f : f = [t \in SUBSET (DOMAIN s) |->
                      IF t = {} THEN 0
                      ELSE s[CHOOSE x \in t : TRUE].value + f[t \ {CHOOSE x \in t : TRUE}]]
    <2>1. \E f : IsFold(f, v, 1..Len(s))
      BY FoldExists
    <2>2. PICK f : IsFold(f, v, 1..Len(s))
      BY <2>1, Zenon
    <2>3. f = [t \in SUBSET (DOMAIN s) |->
                 IF t = {} THEN 0
                 ELSE s[CHOOSE x \in t : TRUE].value + f[t \ {CHOOSE x \in t : TRUE}]]
      BY <1>3, <2>2, Zenon
    <2>4. QED
      BY <2>3, Zenon
  <1>5. iter = [t \in SUBSET (DOMAIN s) |->
                  IF t = {} THEN 0
                  ELSE s[CHOOSE x \in t : TRUE].value + iter[t \ {CHOOSE x \in t : TRUE}]]
    BY <1>4, Zenon
  <1> HIDE DEF iter, total
  <1>6. IsFold(iter, v, 1..Len(s))
    BY <1>3, <1>5, Zenon
  <1>7. iter[1..Len(s)] = SumTo(v, Len(s))
    BY <1>6, FoldIsSum
  <1>8. QED
    BY <1>1, <1>7 DEF total

LEMMA FoldOfCounts ==
  ASSUME NEW s, DOMAIN s = 1..Len(s), Len(s) \in Nat,
         NEW v, \A k \in 1..Len(s) : v[k] \in Int /\ v[k] = s[k].count
  PROVE  FoldSeq(LAMBDA g, acc : g.count + acc, 0, s) = SumTo(v, Len(s))
  <1> DEFINE total == FoldSeq(LAMBDA g, acc : g.count + acc, 0, s)
             iter[t \in SUBSET (DOMAIN s)] ==
               IF t = {} THEN 0
               ELSE s[CHOOSE x \in t : TRUE].count + iter[t \ {CHOOSE x \in t : TRUE}]
  <1>1. total = iter[DOMAIN s]
    BY Zenon DEF FoldSeq, FoldFunction, FoldFunctionOnSet, MapThenFoldSet
  <1>2. \A f, t : t \in SUBSET (DOMAIN s) =>
          (IF t = {} THEN 0 ELSE s[CHOOSE x \in t : TRUE].count + f[t \ {CHOOSE x \in t : TRUE}])
            = (IF t = {} THEN 0 ELSE v[CHOOSE x \in t : TRUE] + f[t \ {CHOOSE x \in t : TRUE}])
    <2> SUFFICES ASSUME NEW f, NEW t, t \in SUBSET (DOMAIN s)
                 PROVE  (IF t = {} THEN 0
                         ELSE s[CHOOSE x \in t : TRUE].count + f[t \ {CHOOSE x \in t : TRUE}])
                          = (IF t = {} THEN 0
                             ELSE v[CHOOSE x \in t : TRUE] + f[t \ {CHOOSE x \in t : TRUE}])
      BY Zenon
    <2>1. CASE t = {}
      BY <2>1, Zenon
    <2>2. CASE t # {}
      <3> DEFINE c == CHOOSE x \in t : TRUE
      <3>1. c \in t
        BY <2>2
      <3> HIDE DEF c
      <3>2. s[c].count = v[c]
        BY <3>1
      <3>3. QED
        BY <2>2, <3>2, Zenon DEF c
    <2>3. QED
      BY <2>1, <2>2, Zenon
  <1>3. \A f : IsFold(f, v, 1..Len(s)) <=>
          f = [t \in SUBSET (DOMAIN s) |->
                 IF t = {} THEN 0
                 ELSE s[CHOOSE x \in t : TRUE].count + f[t \ {CHOOSE x \in t : TRUE}]]
    BY <1>2, Zenon DEF IsFold
  <1>4. \E f : f = [t \in SUBSET (DOMAIN s) |->
                      IF t = {} THEN 0
                      ELSE s[CHOOSE x \in t : TRUE].count + f[t \ {CHOOSE x \in t : TRUE}]]
    <2>1. \E f : IsFold(f, v, 1..Len(s))
      BY FoldExists
    <2>2. PICK f : IsFold(f, v, 1..Len(s))
      BY <2>1, Zenon
    <2>3. f = [t \in SUBSET (DOMAIN s) |->
                 IF t = {} THEN 0
                 ELSE s[CHOOSE x \in t : TRUE].count + f[t \ {CHOOSE x \in t : TRUE}]]
      BY <1>3, <2>2, Zenon
    <2>4. QED
      BY <2>3, Zenon
  <1>5. iter = [t \in SUBSET (DOMAIN s) |->
                  IF t = {} THEN 0
                  ELSE s[CHOOSE x \in t : TRUE].count + iter[t \ {CHOOSE x \in t : TRUE}]]
    BY <1>4, Zenon
  <1> HIDE DEF iter, total
  <1>6. IsFold(iter, v, 1..Len(s))
    BY <1>3, <1>5, Zenon
  <1>7. iter[1..Len(s)] = SumTo(v, Len(s))
    BY <1>6, FoldIsSum
  <1>8. QED
    BY <1>1, <1>7 DEF total

-----------------------------------------------------------------------------
(* Lists of lists *)

\* f flattens the first lists, then one more at a time.
Flattens(f, seqs, n) ==
  \A i \in 1..n : f[i] = IF i = 1 THEN seqs[i] ELSE f[i-1] \o seqs[i]

LEMMA FlattenSteps ==
  ASSUME NEW n \in Nat, n > 0, NEW seqs, Len(seqs) = n,
         NEW S, \A k \in 1..n : seqs[k] \in Seq(S)
  PROVE  \E f : FlattenSeq(seqs) = f[n] /\ Flattens(f, seqs, n)
  <1> DEFINE flatten[i \in 1..Len(seqs)] ==
               IF i = 1 THEN seqs[i] ELSE flatten[i-1] \o seqs[i]
  <1>1. FlattenSeq(seqs) = flatten[Len(seqs)]
    <2>1. Len(seqs) # 0
      OBVIOUS
    <2>2. QED
      BY <2>1, Zenon DEF FlattenSeq
  <1>2. \E f : f = [i \in 1..Len(seqs) |-> IF i = 1 THEN seqs[i] ELSE f[i-1] \o seqs[i]]
    <2> DEFINE T == Seq(S)
               base == <<>>
               step == [x \in (1..n) \X T |-> x[2] \o seqs[x[1]]]
    <2>1. base \in T /\ \A i \in 1..n, x \in T : x \o seqs[i] \in T
      BY EmptySeq, ConcatProperties
    <2>2. \A i \in 1..n, x \in T : step[<<i, x>>] = x \o seqs[i]
      OBVIOUS
    <2>3. base \o seqs[1] = seqs[1]
      <3>1. seqs[1] \in Seq(S)
        OBVIOUS
      <3>2. QED
        BY <3>1, ConcatEmptySeq
    <2> HIDE DEF T, base, step
    <2>4. StepsWithin(n, T, step)
      BY <2>1, <2>2 DEF StepsWithin
    <2>5. PICK g : Steps(g, n, T, base, step)
      BY <2>1, <2>4, Recursion
    <2> DEFINE f == [i \in 1..n |-> g[i]]
    <2>6. ASSUME NEW i \in 1..n
          PROVE  f[i] = IF i = 1 THEN seqs[i] ELSE f[i-1] \o seqs[i]
      <3>1. i - 1 \in 0..n /\ g[i-1] \in T
        BY <2>5 DEF Steps
      <3>2. g[i] = g[i-1] \o seqs[i] /\ g[0] = base
        BY <2>2, <2>5, <3>1 DEF Steps
      <3>3. CASE i = 1
        <4>1. i - 1 = 0 /\ f[i] = g[i]
          BY <3>3
        <4>2. g[i] = base \o seqs[1]
          BY <3>2, <3>3, <4>1
        <4>3. QED
          BY <2>3, <3>3, <4>1, <4>2
      <3>4. CASE i # 1
        <4>1. i - 1 \in 1..n
          BY <3>4
        <4>2. QED
          BY <3>2, <3>4, <4>1
      <3>5. QED
        BY <3>3, <3>4
    <2>7. f = [i \in 1..n |-> f[i]]
      OBVIOUS
    <2> HIDE DEF f
    <2>8. f = [i \in 1..n |-> IF i = 1 THEN seqs[i] ELSE f[i-1] \o seqs[i]]
      BY <2>6, <2>7, Zenon
    <2>9. QED
      BY <2>8, Zenon
  <1>3. flatten = [i \in 1..Len(seqs) |-> IF i = 1 THEN seqs[i] ELSE flatten[i-1] \o seqs[i]]
    BY <1>2, Zenon
  <1> HIDE DEF flatten
  <1>4. \A i \in 1..n : flatten[i] = IF i = 1 THEN seqs[i] ELSE flatten[i-1] \o seqs[i]
    BY <1>3, Zenon
  <1>5. QED
    BY <1>1, <1>4 DEF Flattens

\* Flattening loses no element: nothing comes out only of nothing.
LEMMA FlattenedLists ==
  ASSUME NEW n \in Nat, n > 0, NEW seqs, Len(seqs) = n,
         NEW S, \A k \in 1..n : seqs[k] \in Seq(S)
  PROVE  /\ FlattenSeq(seqs) \in Seq(S)
         /\ \A k \in 1..n : seqs[k] # <<>> => FlattenSeq(seqs) # <<>>
  <1>1. PICK flatten : FlattenSeq(seqs) = flatten[n] /\ Flattens(flatten, seqs, n)
    BY FlattenSteps
  <1>4. \A i \in 1..n : flatten[i] = IF i = 1 THEN seqs[i] ELSE flatten[i-1] \o seqs[i]
    BY <1>1 DEF Flattens
  <1> DEFINE Good(i) == /\ flatten[i] \in Seq(S)
                        /\ \A k \in 1..i : seqs[k] # <<>> => flatten[i] # <<>>
             I == {i \in Nat : i \in 1..n => Good(i)}
  <1>5. 0 \in I
    OBVIOUS
  <1>6. ASSUME NEW i \in Nat, i \in I
        PROVE  i + 1 \in I
    <2> SUFFICES ASSUME i + 1 \in 1..n
                 PROVE  Good(i + 1)
      OBVIOUS
    <2>1. CASE i = 0
      <3>1. flatten[1] = seqs[1] /\ seqs[1] \in Seq(S)
        BY <1>4
      <3>2. \A k \in 1..1 : k = 1
        OBVIOUS
      <3>3. QED
        BY <2>1, <3>1, <3>2
    <2>2. CASE i # 0
      <3>1. i \in 1..n /\ Good(i) /\ (i + 1) - 1 = i /\ i + 1 # 1
        BY <1>6, <2>2
      <3>2. flatten[i+1] = flatten[i] \o seqs[i+1] /\ seqs[i+1] \in Seq(S)
        BY <1>4, <3>1
      <3>3. /\ flatten[i+1] \in Seq(S)
            /\ flatten[i] # <<>> \/ seqs[i+1] # <<>> => flatten[i+1] # <<>>
        <4>1. flatten[i+1] = <<>> <=> flatten[i] = <<>> /\ seqs[i+1] = <<>>
          BY <3>1, <3>2, ConcatEqualIffEmpty
        <4>2. flatten[i+1] \in Seq(S)
          BY <3>1, <3>2, ConcatProperties
        <4>3. QED
          BY <4>1, <4>2
      <3>4. \A k \in 1..i+1 : k \in 1..i \/ k = i + 1
        OBVIOUS
      <3>5. QED
        BY <3>1, <3>3, <3>4
    <2>3. QED
      BY <2>1, <2>2
  <1> HIDE DEF I
  <1>7. n \in I
    BY <1>5, <1>6, Induction
  <1>8. Good(n)
    BY <1>7 DEF I
  <1>9. QED
    BY <1>1, <1>8

-----------------------------------------------------------------------------
(* Orders *)

\* A list of all the elements of a set, each once.
LEMMA Permutation ==
  ASSUME NEW S, IsFiniteSet(S), NEW p \in SetToSeqs(S)
  PROVE  /\ Cardinality(S) \in Nat /\ p \in [1..Cardinality(S) -> S]
         /\ \A i, j \in 1..Cardinality(S) : p[i] = p[j] => i = j
         /\ \A x \in S : \E i \in 1..Cardinality(S) : p[i] = x
  <1> DEFINE n == Cardinality(S)
             D == 1..n
  <1>1. n \in Nat
    BY FS_CardinalityType
  <1>2. p \in [D -> S] /\ \A i, j \in D : p[i] = p[j] => i = j
    BY DEF SetToSeqs
  <1>3. IsFiniteSet(D) /\ Cardinality(D) = n
    BY <1>1, FS_Interval
  <1> HIDE DEF D
  <1>4. p \in Injection(D, S)
    BY <1>2 DEF Injection, IsInjective
  <1>5. p \in Surjection(D, S)
    BY <1>3, <1>4, FS_Injection
  <1>6. \A x \in S : \E i \in D : p[i] = x
    BY <1>5 DEF Surjection
  <1>7. QED
    BY <1>1, <1>2, <1>6 DEF D

\* R puts any two elements of S in one order.
IsOrder(R, S) ==
  /\ \A x \in S : <<x, x>> \notin R
  /\ \A x, y \in S : x # y => <<x, y>> \in R \/ <<y, x>> \in R
  /\ \A x, y, z \in S : <<x, y>> \in R /\ <<y, z>> \in R => <<x, z>> \in R

\* A finite set can be listed in any order: the place of an element is the
\* number of those before it, and one.
LEMMA OrderExists ==
  ASSUME NEW S, IsFiniteSet(S), NEW R, IsOrder(R, S)
  PROVE  \E p \in SetToSeqs(S) :
           \A i, j \in 1..Cardinality(S) : i < j => <<p[i], p[j]>> \in R
  <1> DEFINE n == Cardinality(S)
             D == 1..n
             before(x) == {y \in S : <<y, x>> \in R}
             rank == [x \in S |-> Cardinality(before(x)) + 1]
  <1>1. n \in Nat /\ IsFiniteSet(D) /\ Cardinality(D) = n
    BY FS_CardinalityType, FS_Interval
  <1>2. ASSUME NEW x \in S
        PROVE  /\ IsFiniteSet(before(x)) /\ Cardinality(before(x)) \in Nat
               /\ rank[x] = Cardinality(before(x)) + 1 /\ rank[x] \in D
    <2> DEFINE B == before(x)
    <2>1. B \in SUBSET S /\ B # S
      BY DEF IsOrder
    <2>2. IsFiniteSet(B) /\ Cardinality(B) <= n /\ (n = Cardinality(B) => S = B)
      BY <2>1, FS_Subset
    <2>3. Cardinality(B) \in Nat
      BY <2>2, FS_CardinalityType
    <2>4. rank[x] = Cardinality(B) + 1
      OBVIOUS
    <2> HIDE DEF B, rank, n
    <2>5. Cardinality(B) < n
      BY <1>1, <2>1, <2>2, <2>3
    <2>6. QED
      BY <1>1, <2>2, <2>3, <2>4, <2>5 DEF B
  <1>3. ASSUME NEW x \in S, NEW y \in S, <<x, y>> \in R
        PROVE  rank[x] < rank[y]
    <2> DEFINE A == before(x)
               B == before(y)
    <2>1. A \in SUBSET B /\ x \in B /\ x \notin A
      BY <1>3 DEF IsOrder
    <2>2. IsFiniteSet(B) /\ Cardinality(A) \in Nat /\ Cardinality(B) \in Nat
          /\ rank[x] = Cardinality(A) + 1 /\ rank[y] = Cardinality(B) + 1
      BY <1>2
    <2> HIDE DEF A, B, rank
    <2>3. Cardinality(A) <= Cardinality(B) /\ (Cardinality(B) = Cardinality(A) => B = A)
      BY <2>1, <2>2, FS_Subset
    <2>4. QED
      BY <2>1, <2>2, <2>3
  <1>4. rank \in [S -> D]
    BY <1>2
  <1>5. \A x \in S : rank[x] \in D
    BY <1>2
  <1> HIDE DEF rank
  <1>6. \A x, y \in S : rank[x] = rank[y] => x = y
    <2>1. \A x, y \in S : x # y => rank[x] < rank[y] \/ rank[y] < rank[x]
      BY <1>3 DEF IsOrder
    <2>2. \A x, y \in S : rank[x] \in Int /\ rank[y] \in Int
      BY <1>1, <1>5
    <2>3. QED
      BY <2>1, <2>2
  <1>7. \A i \in D : \E x \in S : rank[x] = i
    <2> HIDE DEF D
    <2>1. rank \in Injection(S, D)
      BY <1>4, <1>6 DEF Injection, IsInjective
    <2>2. rank \in Surjection(S, D)
      BY <1>1, <2>1, FS_Injection
    <2>3. QED
      BY <2>2 DEF Surjection
  <1> DEFINE p == [i \in D |-> CHOOSE x \in S : rank[x] = i]
  <1>8. \A i \in D : p[i] \in S /\ rank[p[i]] = i
    BY <1>7
  <1>9. p \in [D -> S]
    BY <1>8
  <1> HIDE DEF p
  <1>10. p \in SetToSeqs(S)
    BY <1>8, <1>9 DEF SetToSeqs
  <1>11. ASSUME NEW i \in D, NEW j \in D, i < j
         PROVE  <<p[i], p[j]>> \in R
    <2>1. p[i] \in S /\ p[j] \in S /\ p[i] # p[j]
      BY <1>8, <1>11
    <2>2. ~(<<p[j], p[i]>> \in R)
      <3>1. <<p[j], p[i]>> \in R => rank[p[j]] < rank[p[i]]
        BY <1>3, <2>1
      <3>2. QED
        BY <1>1, <1>8, <1>11, <3>1
    <2>3. QED
      BY <2>1, <2>2 DEF IsOrder
  <1>12. QED
    BY <1>10, <1>11

-----------------------------------------------------------------------------
(* Sums over the parts of a list *)

LEMMA SumOfOnes ==
  ASSUME NEW n \in Nat, NEW v, \A k \in 1..n : v[k] = 1
  PROVE  SumTo(v, n) = n
  <1> DEFINE q == [i \in 0..n |-> i]
  <1>1. PICK p : Running(p, v, n) /\ SumTo(v, n) = p[n]
    BY SumIsRunning
  <1>2. Running(q, v, n) /\ q[n] = n
    BY DEF Running
  <1> HIDE DEF q
  <1>3. p[n] = q[n]
    BY <1>1, <1>2, RunningIsUnique
  <1>4. QED
    BY <1>1, <1>2, <1>3

LEMMA SumAdds ==
  ASSUME NEW n \in Nat, NEW u, NEW v, NEW w,
         \A k \in 1..n : v[k] \in Int /\ w[k] \in Int /\ u[k] = v[k] + w[k]
  PROVE  SumTo(u, n) = SumTo(v, n) + SumTo(w, n)
  <1> DEFINE S == {k \in Nat : k <= n => SumTo(u, k) = SumTo(v, k) + SumTo(w, k)}
  <1>1. 0 \in S
    BY SumOfNothing
  <1>2. ASSUME NEW k \in Nat, k \in S
        PROVE  k + 1 \in S
    <2> SUFFICES ASSUME k + 1 <= n
                 PROVE  SumTo(u, k + 1) = SumTo(v, k + 1) + SumTo(w, k + 1)
      OBVIOUS
    <2>1. \A j \in 1..k+1 : u[j] \in Int /\ v[j] \in Int /\ w[j] \in Int
      OBVIOUS
    <2>2. /\ SumTo(u, k + 1) = SumTo(u, k) + u[k + 1]
          /\ SumTo(v, k + 1) = SumTo(v, k) + v[k + 1]
          /\ SumTo(w, k + 1) = SumTo(w, k) + w[k + 1]
      BY <2>1, SumOfOneMore
    <2>3. SumTo(v, k) \in Int /\ SumTo(w, k) \in Int
      BY <2>1, SumType
    <2>4. SumTo(u, k) = SumTo(v, k) + SumTo(w, k)
      BY <1>2
    <2>5. u[k + 1] = v[k + 1] + w[k + 1] /\ v[k + 1] \in Int /\ w[k + 1] \in Int
      OBVIOUS
    <2>6. QED
      BY <2>2, <2>3, <2>4, <2>5
  <1> HIDE DEF S
  <1>3. Nat \subseteq S
    BY <1>1, <1>2, Induction
  <1>4. QED
    BY <1>3 DEF S

\* The sum of some places of a list, in whatever order they are taken.
LEMMA SumOfSome ==
  ASSUME NEW n \in Nat, NEW v, \A k \in 1..n : v[k] \in Int,
         NEW places \in SUBSET (1..n), NEW p \in SetToSeqs(places),
         NEW q, \A k \in 1..Cardinality(places) : q[k] = v[p[k]]
  PROVE  SumTo(q, Cardinality(places)) = SumTo(Masked(v, places, n), n)
  <1> DEFINE m == Cardinality(places)
             first(k) == {p[j] : j \in 1..k}
             S == {k \in Nat : k <= m => SumTo(q, k) = SumTo(Masked(v, first(k), n), n)}
  <1>1. /\ m \in Nat /\ p \in [1..m -> places]
        /\ \A i, j \in 1..m : p[i] = p[j] => i = j
        /\ \A x \in places : \E i \in 1..m : p[i] = x
    <2>1. IsFiniteSet(places)
      <3>1. IsFiniteSet(1..n)
        BY FS_Interval
      <3>2. QED
        BY <3>1, FS_Subset
    <2>2. QED
      BY <2>1, Permutation
  <1> HIDE DEF m
  <1>2. \A k \in 1..m : p[k] \in 1..n /\ q[k] = v[p[k]] /\ q[k] \in Int
    BY <1>1 DEF m
  <1>3. 0 \in S
    <2>1. first(0) = {}
      OBVIOUS
    <2> HIDE DEF first
    <2>2. SumTo(Masked(v, {}, n), n) = 0
      BY MaskedSum
    <2>3. SumTo(q, 0) = 0
      BY SumOfNothing
    <2>4. QED
      BY <2>1, <2>2, <2>3
  <1>4. ASSUME NEW k \in Nat, k \in S
        PROVE  k + 1 \in S
    <2> SUFFICES ASSUME k + 1 <= m
                 PROVE  SumTo(q, k + 1) = SumTo(Masked(v, first(k + 1), n), n)
      OBVIOUS
    <2> DEFINE c == p[k + 1]
               t == first(k + 1)
    <2>1. /\ t \in SUBSET (1..n) /\ c \in t /\ t \ {c} = first(k)
          /\ k + 1 \in 1..m
      BY <1>1, <1>2
    <2>2. SumTo(q, k + 1) = SumTo(q, k) + q[k + 1]
      <3>1. \A j \in 1..k+1 : q[j] \in Int
        BY <1>1, <1>2
      <3>2. QED
        BY <3>1, SumOfOneMore
    <2>3. SumTo(q, k) = SumTo(Masked(v, first(k), n), n)
      BY <1>1, <1>4
    <2> HIDE DEF t, first, c
    <2>4. SumTo(Masked(v, t, n), n) = v[c] + SumTo(Masked(v, t \ {c}, n), n)
      BY <2>1, MaskedSum
    <2>5. SumTo(Masked(v, first(k), n), n) \in Int
      <3>1. \A j \in 1..n : Masked(v, first(k), n)[j] \in Int
        BY DEF Masked
      <3>2. QED
        BY <3>1, SumType
    <2>6. q[k + 1] = v[c] /\ v[c] \in Int
      BY <1>2, <2>1 DEF c
    <2>7. QED
      BY <2>1, <2>2, <2>3, <2>4, <2>5, <2>6 DEF t
  <1>5. first(m) = places
    <2>1. \A x \in places : x \in first(m)
      BY <1>1
    <2>2. \A x \in first(m) : x \in places
      BY <1>1
    <2>3. QED
      BY <2>1, <2>2, Zenon
  <1> HIDE DEF S, first
  <1>6. m \in S
    <2>1. Nat \subseteq S
      BY <1>3, <1>4, Induction
    <2>2. QED
      BY <1>1, <2>1
  <1>7. SumTo(q, m) = SumTo(Masked(v, first(m), n), n)
    BY <1>1, <1>6 DEF S
  <1>8. QED
    BY <1>5, <1>7 DEF m

\* Every place of a list is in one of the parts and in no other.
ArePartsOf(part, m, n) ==
  /\ \A k \in 1..m : part[k] \in SUBSET (1..n)
  /\ \A i \in 1..n : \E k \in 1..m : i \in part[k]
  /\ \A i \in 1..n : \A k, l \in 1..m : i \in part[k] /\ i \in part[l] => k = l

LEMMA SumOfParts ==
  ASSUME NEW n \in Nat, NEW v, \A k \in 1..n : v[k] \in Int,
         NEW m \in Nat, NEW part, ArePartsOf(part, m, n),
         NEW w, \A k \in 1..m : w[k] = SumTo(Masked(v, part[k], n), n)
  PROVE  SumTo(w, m) = SumTo(v, n)
  <1> DEFINE first(k) == {i \in 1..n : \E j \in 1..k : i \in part[j]}
             S == {k \in Nat : k <= m => SumTo(w, k) = SumTo(Masked(v, first(k), n), n)}
  <1>0. /\ \A k \in 1..m : part[k] \in SUBSET (1..n)
        /\ \A i \in 1..n : \E k \in 1..m : i \in part[k]
        /\ \A i \in 1..n : \A k, l \in 1..m : i \in part[k] /\ i \in part[l] => k = l
    BY DEF ArePartsOf
  <1>1. \A t : \A k \in 1..n : /\ Masked(v, t, n)[k] \in Int
                               /\ Masked(v, t, n)[k] = IF k \in t THEN v[k] ELSE 0
    BY DEF Masked
  <1>2. \A t : SumTo(Masked(v, t, n), n) \in Int
    BY <1>1, SumType
  <1>3. 0 \in S
    <2>1. first(0) = {}
      OBVIOUS
    <2>2. QED
      BY <2>1, SumOfNothing, MaskedSum
  <1>4. ASSUME NEW k \in Nat, k \in S
        PROVE  k + 1 \in S
    <2> SUFFICES ASSUME k + 1 <= m
                 PROVE  SumTo(w, k + 1) = SumTo(Masked(v, first(k + 1), n), n)
      OBVIOUS
    <2> DEFINE a == Masked(v, first(k), n)
               b == Masked(v, part[k + 1], n)
               u == Masked(v, first(k + 1), n)
    <2>0. k + 1 \in 1..m
      OBVIOUS
    <2>1. \A i \in 1..n : /\ i \in first(k + 1) <=> i \in first(k) \/ i \in part[k + 1]
                          /\ ~(i \in first(k) /\ i \in part[k + 1])
      BY <1>0, <2>0
    <2> HIDE DEF first
    <2>2. \A i \in 1..n : a[i] \in Int /\ b[i] \in Int /\ u[i] = a[i] + b[i]
      BY <1>1, <2>1
    <2>3. SumTo(w, k) = SumTo(a, n) /\ w[k + 1] = SumTo(b, n)
      BY <1>4, <2>0
    <2> HIDE DEF a, b, u
    <2>4. SumTo(u, n) = SumTo(a, n) + SumTo(b, n)
      BY <2>2, SumAdds
    <2>5. SumTo(w, k + 1) = SumTo(w, k) + w[k + 1]
      <3>1. \A j \in 1..k+1 : w[j] \in Int
        BY <1>2, <2>0
      <3>2. QED
        BY <3>1, SumOfOneMore
    <2>6. QED
      BY <2>3, <2>4, <2>5 DEF u
  <1>5. first(m) = 1..n
    BY <1>0
  <1> HIDE DEF S, first
  <1>6. m \in S
    BY <1>3, <1>4, Induction
  <1>7. QED
    BY <1>5, <1>6, MaskedSum DEF S

-----------------------------------------------------------------------------
(* Folds from the left, and lists that grow *)

LEMMA MaxIsGreatest ==
  ASSUME NEW n \in Nat, NEW S \in SUBSET (1..n), S # {}
  PROVE  Max(S) \in S /\ \A y \in S : y <= Max(S)
  <1> DEFINE D == {n - x : x \in S}
  <1>1. D \in SUBSET Nat /\ D # {}
    <2>1. PICK x \in S : TRUE
      OBVIOUS
    <2>2. n - x \in D
      BY <2>1
    <2>3. \A y \in S : n - y \in Nat
      OBVIOUS
    <2>4. QED
      BY <2>2, <2>3
  <1>2. PICK d \in D : \A y \in D : d <= y
    BY <1>1, LeastElement
  <1>3. PICK m \in S : d = n - m
    BY <1>2
  <1>4. \A y \in S : m >= y
    <2> SUFFICES ASSUME NEW y \in S
                 PROVE  m >= y
      OBVIOUS
    <2>1. n - y \in D
      OBVIOUS
    <2>2. n - m <= n - y /\ m \in Int /\ y \in Int
      BY <1>2, <1>3, <2>1
    <2>3. QED
      BY <2>2
  <1>5. Max(S) \in S /\ \A y \in S : Max(S) >= y
    BY <1>4, Zenon DEF Max
  <1>6. QED
    BY <1>5

\* h folds the places of every set of them, the greatest place last.
IsLeftFold(h, n, base, step) ==
  h = [t \in SUBSET (1..n) |->
         IF t = {} THEN base ELSE step[<<Max(t), h[t \ {Max(t)}]>>]]

LEMMA LeftFoldExists ==
  ASSUME NEW n \in Nat, NEW T, NEW base \in T, NEW step, StepsWithin(n, T, step)
  PROVE  \E h \in [SUBSET (1..n) -> T] : IsLeftFold(h, n, base, step)
  <1> DEFINE P(k) == \E h \in [SUBSET (1..k) -> T] : IsLeftFold(h, k, base, step)
             S == {k \in Nat : k <= n => P(k)}
  <1>1. P(0)
    <2> DEFINE h == [t \in SUBSET (1..0) |-> base]
    <2>1. \A t \in SUBSET (1..0) : t = {}
      OBVIOUS
    <2>2. h \in [SUBSET (1..0) -> T]
      OBVIOUS
    <2>3. h = [t \in SUBSET (1..0) |->
                 IF t = {} THEN base ELSE step[<<Max(t), h[t \ {Max(t)}]>>]]
      BY <2>1, Zenon
    <2>4. QED
      BY <2>2, <2>3 DEF IsLeftFold
  <1>2. ASSUME NEW k \in Nat, k + 1 <= n, P(k)
        PROVE  P(k + 1)
    <2>1. PICK g \in [SUBSET (1..k) -> T] : IsLeftFold(g, k, base, step)
      BY <1>2, Zenon
    <2> DEFINE h == [t \in SUBSET (1..k+1) |->
                       IF k + 1 \in t THEN step[<<k + 1, g[t \ {k + 1}]>>] ELSE g[t]]
    <2>2. \A t \in SUBSET (1..k+1) :
            /\ k + 1 \in t => t \ {k + 1} \in SUBSET (1..k)
            /\ k + 1 \notin t => t \in SUBSET (1..k)
      OBVIOUS
    <2>3. \A t \in SUBSET (1..k+1) :
            h[t] = IF k + 1 \in t THEN step[<<k + 1, g[t \ {k + 1}]>>] ELSE g[t]
      OBVIOUS
    <2>4. \A t \in SUBSET (1..k) : h[t] = g[t]
      OBVIOUS
    <2>5. h \in [SUBSET (1..k+1) -> T]
      <3>1. \A t \in SUBSET (1..k+1) : h[t] \in T
        <4> SUFFICES ASSUME NEW t \in SUBSET (1..k+1)
                     PROVE  h[t] \in T
          BY Zenon
        <4>1. CASE k + 1 \in t
          <5>1. g[t \ {k + 1}] \in T
            BY <2>1, <2>2, <4>1
          <5>2. k + 1 \in 1..n
            BY <1>2
          <5>3. step[<<k + 1, g[t \ {k + 1}]>>] \in T
            BY <5>1, <5>2 DEF StepsWithin
          <5>4. QED
            BY <2>3, <4>1, <5>3
        <4>2. CASE k + 1 \notin t
          BY <2>1, <2>2, <2>3, <4>2
        <4>3. QED
          BY <4>1, <4>2
      <3>2. h = [t \in SUBSET (1..k+1) |-> h[t]]
        OBVIOUS
      <3> HIDE DEF h
      <3>3. QED
        BY <3>1, <3>2
    <2> HIDE DEF h
    <2>6. ASSUME NEW t \in SUBSET (1..k+1)
          PROVE  h[t] = IF t = {} THEN base ELSE step[<<Max(t), h[t \ {Max(t)}]>>]
      <3>1. CASE k + 1 \in t
        <4>1. Max(t) \in t /\ \A y \in t : y <= Max(t)
          <5>1. k + 1 \in Nat /\ t # {}
            BY <3>1
          <5>2. QED
            BY <5>1, MaxIsGreatest
        <4>2. Max(t) = k + 1
          <5>1. Max(t) \in 1..k+1 /\ k + 1 <= Max(t)
            BY <3>1, <4>1
          <5>2. QED
            BY <5>1
        <4>3. h[t \ {k + 1}] = g[t \ {k + 1}]
          BY <2>2, <2>4, <3>1
        <4>4. QED
          BY <2>3, <3>1, <4>2, <4>3
      <3>2. CASE k + 1 \notin t
        <4>1. t \in SUBSET (1..k) /\ h[t] = g[t]
          BY <2>2, <2>4, <3>2
        <4>2. g[t] = IF t = {} THEN base ELSE step[<<Max(t), g[t \ {Max(t)}]>>]
          <5>1. g = [u \in SUBSET (1..k) |->
                       IF u = {} THEN base ELSE step[<<Max(u), g[u \ {Max(u)}]>>]]
            BY <2>1 DEF IsLeftFold
          <5>2. QED
            BY <4>1, <5>1, Zenon
        <4>3. h[t \ {Max(t)}] = g[t \ {Max(t)}]
          BY <2>4, <4>1
        <4>4. QED
          BY <4>1, <4>2, <4>3
      <3>3. QED
        BY <3>1, <3>2
    <2>7. h = [t \in SUBSET (1..k+1) |-> h[t]]
      BY <2>5
    <2>8. h = [t \in SUBSET (1..k+1) |->
                 IF t = {} THEN base ELSE step[<<Max(t), h[t \ {Max(t)}]>>]]
      BY <2>6, <2>7, Zenon
    <2>9. QED
      BY <2>5, <2>8, Zenon DEF IsLeftFold
  <1> HIDE DEF P
  <1>3. 0 \in S /\ \A k \in Nat : k \in S => k + 1 \in S
    BY <1>1, <1>2
  <1> HIDE DEF S
  <1>4. Nat \subseteq S
    BY <1>3, Induction
  <1>5. P(n)
    BY <1>4 DEF S
  <1>6. QED
    BY <1>5, Zenon DEF P

\* One more list at the end of the lists.
OneListMore(more, seqs, S) ==
  /\ seqs \in Seq(Seq(S)) /\ more \in Seq(Seq(S))
  /\ Len(more) = Len(seqs) + 1
  /\ \A k \in 1..Len(seqs) : more[k] = seqs[k]

LEMMA FlattenOneMore ==
  ASSUME NEW S, NEW seqs, NEW more, OneListMore(more, seqs, S)
  PROVE  FlattenSeq(more) = FlattenSeq(seqs) \o more[Len(seqs) + 1]
  <1> DEFINE n == Len(seqs)
  <1>0. /\ n \in Nat /\ seqs \in Seq(Seq(S)) /\ Len(seqs) = n
        /\ more \in Seq(Seq(S)) /\ Len(more) = n + 1
        /\ \A k \in 1..n : more[k] = seqs[k]
    BY DEF OneListMore
  <1> HIDE DEF n
  <1>1. /\ \A k \in 1..n : seqs[k] \in Seq(S)
        /\ \A k \in 1..n+1 : more[k] \in Seq(S)
    BY <1>0
  <1>2. PICK g : FlattenSeq(more) = g[n + 1] /\ Flattens(g, more, n + 1)
    BY <1>0, <1>1, FlattenSteps
  <1>3. CASE n = 0
    <2>1. seqs = <<>>
      BY <1>0, <1>3
    <2>2. FlattenSeq(seqs) = <<>>
      BY <2>1 DEF FlattenSeq
    <2>3. g[1] = more[1]
      BY <1>0, <1>2, <1>3 DEF Flattens
    <2>4. <<>> \o more[1] = more[1]
      <3>1. more[1] \in Seq(S)
        BY <1>0, <1>1, <1>3
      <3>2. QED
        BY <3>1, ConcatEmptySeq
    <2>5. QED
      BY <1>2, <1>3, <2>2, <2>3, <2>4 DEF n
  <1>4. CASE n > 0
    <2>1. PICK f : FlattenSeq(seqs) = f[n] /\ Flattens(f, seqs, n)
      BY <1>0, <1>1, <1>4, FlattenSteps
    <2> DEFINE I == {k \in Nat : k \in 1..n => g[k] = f[k]}
    <2>2. 0 \in I
      OBVIOUS
    <2>3. ASSUME NEW k \in Nat, k \in I
          PROVE  k + 1 \in I
      <3> SUFFICES ASSUME k + 1 \in 1..n
                   PROVE  g[k + 1] = f[k + 1]
        OBVIOUS
      <3>1. /\ g[k + 1] = IF k + 1 = 1 THEN more[k + 1] ELSE g[k] \o more[k + 1]
            /\ f[k + 1] = IF k + 1 = 1 THEN seqs[k + 1] ELSE f[k] \o seqs[k + 1]
        BY <1>0, <1>2, <2>1 DEF Flattens
      <3>2. k + 1 # 1 => g[k] = f[k]
        BY <1>0, <2>3
      <3>3. QED
        BY <1>0, <3>1, <3>2
    <2> HIDE DEF I
    <2>4. Nat \subseteq I
      BY <2>2, <2>3, Induction
    <2>5. g[n] = f[n]
      <3>1. n \in I /\ n \in 1..n
        BY <1>0, <1>4, <2>4
      <3>2. QED
        BY <3>1 DEF I
    <2>6. g[n + 1] = g[n] \o more[n + 1]
      <3>1. n + 1 \in 1..n+1 /\ n + 1 # 1 /\ (n + 1) - 1 = n
        BY <1>0, <1>4
      <3>2. g[n + 1] = IF n + 1 = 1 THEN more[n + 1] ELSE g[(n + 1) - 1] \o more[n + 1]
        BY <1>2, <3>1 DEF Flattens
      <3>3. QED
        BY <3>1, <3>2
    <2>7. QED
      BY <1>2, <2>1, <2>5, <2>6 DEF n
  <1>5. QED
    BY <1>0, <1>3, <1>4

\* What is left when the element at one place is taken out.
LEMMA RemovedAt ==
  ASSUME NEW T, NEW s \in Seq(T), NEW i \in 1..Len(s)
  PROVE  LET r == RemoveAt(s, i)
         IN /\ r \in Seq(T) /\ Len(r) = Len(s) - 1
            /\ \A k \in 1..Len(s)-1 : r[k] = IF k < i THEN s[k] ELSE s[k + 1]
  <1> DEFINE n == Len(s)
             a == SubSeq(s, 1, i - 1)
             b == SubSeq(s, i + 1, n)
             r == RemoveAt(s, i)
  <1>1. n \in Nat /\ i \in 1..n
    OBVIOUS
  <1>2. /\ a \in Seq(T) /\ Len(a) = i - 1
        /\ \A k \in 1..i-1 : a[k] = s[k]
    BY <1>1
  <1>3. /\ b \in Seq(T) /\ Len(b) = n - i
        /\ \A k \in 1..n-i : b[k] = s[i + k]
    BY <1>1
  <1>4. r = a \o b
    BY DEF RemoveAt
  <1> HIDE DEF n, a, b, r
  <1>5. /\ r \in Seq(T) /\ Len(r) = Len(a) + Len(b)
        /\ \A k \in 1..Len(a) + Len(b) : r[k] = IF k <= Len(a) THEN a[k] ELSE b[k - Len(a)]
    BY <1>2, <1>3, <1>4, ConcatProperties
  <1>6. Len(r) = n - 1
    BY <1>1, <1>2, <1>3, <1>5
  <1>7. ASSUME NEW k \in 1..n-1
        PROVE  r[k] = IF k < i THEN s[k] ELSE s[k + 1]
    <2>1. CASE k < i
      <3>1. k \in 1..i-1 /\ k \in 1..Len(a) + Len(b) /\ k <= Len(a)
        BY <1>1, <1>2, <1>3, <2>1
      <3>2. QED
        BY <1>2, <1>5, <2>1, <3>1
    <2>2. CASE ~(k < i)
      <3>1. /\ k - (i - 1) \in 1..n-i /\ k \in 1..Len(a) + Len(b) /\ ~(k <= Len(a))
            /\ k - Len(a) = k - (i - 1) /\ i + (k - (i - 1)) = k + 1
        BY <1>1, <1>2, <1>3, <2>2
      <3>2. r[k] = b[k - (i - 1)]
        BY <1>5, <3>1
      <3>3. QED
        BY <1>3, <2>2, <3>1, <3>2
    <2>3. QED
      BY <2>1, <2>2
  <1>8. QED
    BY <1>5, <1>6, <1>7 DEF n, r
=============================================================================
